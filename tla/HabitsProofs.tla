---------------------------- MODULE HabitsProofs ----------------------------
(***************************************************************************)
(* What is learned and what is counted, for every set of subjects, fields, *)
(* words, events and every limit.                                          *)
(*                                                                         *)
(* Words.  The inductive invariant says which reports a document may count *)
(* (Kept), that two reports of one visit name different words (Told), that *)
(* the commands queued behind a forget are younger than what it wipes      *)
(* (Ordered), and how file, memory and the published words agree while a   *)
(* broker runs (Stores).                                                   *)
(*                                                                         *)
(* Counts.  UsageInv says that what memory and disk count is what was      *)
(* counted, on the day it was, and nothing else (CountsRight), what is     *)
(* still to be written when a flush is awaited (FlushRight), that what the *)
(* queue holds is not counted yet (WaitRight), and what a level rests on   *)
(* (LevelsRight).                                                          *)
(***************************************************************************)
EXTENDS MCHabits, FiniteSetTheorems, SequenceTheorems, TLAPS

Visit == [field : Field, since : Nat, counted : SUBSET Word]
Report == [subject : Subject, words : SUBSET Word, rev : Nat, visit : Field \X Nat]
Command == [op : {"learned", "forget"}, id : Nat]

Typed ==
    /\ doc \in Settings /\ engine \in Settings /\ engine.rev <= doc.rev
    /\ locked \in BOOLEAN /\ clearing \in BOOLEAN /\ usable \in BOOLEAN
    /\ doubt \in BOOLEAN /\ up \in BOOLEAN
    /\ visits \in Seq(Visit) /\ Len(visits) <= VisitLimit
    /\ queue \in Seq(Command)
    /\ key \in Keyring \cup {NoKey}
    /\ day \in 0 .. MaxDay /\ faults \in 0 .. MaxFault
    /\ reports \in Seq(Report) /\ Len(reports) <= MaxReport
    /\ wiped \in [Subject -> 0 .. Len(reports)]

\* The reports that may count for a word of a subject.
Counting(s, w, gone, said) ==
    {i \in gone[s] + 1 .. Len(said) : said[i].subject = s /\ w \in said[i].words}

\* A document holds no more than the limits, and for each word the reports
\* that named it since its subject was last wiped.
KeptWords(words, s, gone, said) ==
    /\ IsFiniteSet(DOMAIN words) /\ DOMAIN words \subseteq Word
    /\ Cardinality(DOMAIN words) \in 1 .. WordLimit
    /\ \A w \in DOMAIN words :
        words[w].day \in Nat /\ words[w].reports \subseteq Counting(s, w, gone, said)
Kept(c, gone, said) ==
    /\ IsFiniteSet(DOMAIN c.of) /\ DOMAIN c.of \subseteq Subject
    /\ Cardinality(DOMAIN c.of) <= SubjectLimit
    /\ \A s \in DOMAIN c.of :
        c.of[s].day \in Nat /\ KeptWords(c.of[s].words, s, gone, said)

\* Visits are of different fields, and what a report of one said is counted.
Told ==
    /\ \A i, j \in DOMAIN visits : visits[i].field = visits[j].field => i = j
    /\ \A i \in DOMAIN visits : visits[i].since <= Len(reports)
    /\ \A n \in DOMAIN reports :
        /\ reports[n].words # {} /\ IsFiniteSet(reports[n].words)
        /\ reports[n].rev <= engine.rev /\ reports[n].visit[2] < n
        /\ \A i \in DOMAIN visits :
            reports[n].visit = <<visits[i].field, visits[i].since>> =>
                reports[n].words \subseteq visits[i].counted
        /\ \A m \in DOMAIN reports :
            m # n /\ reports[m].visit = reports[n].visit =>
                reports[m].words \cap reports[n].words = {}

\* What the queue holds is of reports made, what follows a forget is younger,
\* and a report of the document in force was made since its subject was wiped.
Ordered ==
    /\ \A i \in DOMAIN queue :
        /\ queue[i].id <= Len(reports)
        /\ queue[i].op = "learned" =>
            LET r == reports[queue[i].id] IN
            /\ queue[i].id >= 1
            /\ r.rev = doc.rev /\ On(doc, r.subject) => wiped[r.subject] < queue[i].id
    /\ \A i, j \in DOMAIN queue :
        i < j /\ queue[i].op = "forget" /\ queue[j].op = "learned" =>
            queue[i].id < queue[j].id

\* A store in use is reconciled with the document, and with its file unless a
\* write ended unknown; what is published is what they give.
Stores ==
    /\ up /\ usable => DOMAIN content.of \cap doc.rules.off = {}
    /\ up /\ usable /\ ~doubt => file = OnDisk(content)
    /\ up /\ ~locked => offered = Offerable
    /\ file = OnDisk(file)
    /\ ~up => /\ ~locked /\ key = NoKey /\ offered = <<>> /\ ~doubt /\ usable
              /\ content = file /\ queue = <<>> /\ visits = <<>>

IInv == /\ Typed /\ Kept(content, wiped, reports) /\ Kept(file, wiped, reports)
        /\ Told /\ Ordered /\ Stores

-----------------------------------------------------------------------------
(* Finite sets and orders                                                  *)

\* Being behind fewer than k others of a strict total order is the lot of at
\* most k, and of k where there are as many; somebody is behind none.
LEMMA Ranks ==
    ASSUME NEW S, IsFiniteSet(S), NEW R,
           \A x \in S : <<x, x>> \notin R,
           \A x, y, z \in S : <<x, y>> \in R /\ <<y, z>> \in R => <<x, z>> \in R,
           \A x, y \in S : x = y \/ <<x, y>> \in R \/ <<y, x>> \in R
    PROVE  /\ \A k \in Nat :
               Cardinality({x \in S : Cardinality({y \in S : <<y, x>> \in R}) < k}) <= k
           /\ \A k \in 0 .. Cardinality(S) :
               Cardinality({x \in S : Cardinality({y \in S : <<y, x>> \in R}) < k}) >= k
           /\ S # {} => \E m \in S : {y \in S : <<y, m>> \in R} = {}
<1> DEFINE Ahead(x) == {y \in S : <<y, x>> \in R}
           rank == [x \in S |-> Cardinality(Ahead(x))]
<1>1. \A x \in S : IsFiniteSet(Ahead(x)) /\ rank[x] \in Nat /\ rank[x] < Cardinality(S)
  <2> TAKE x \in S
  <2>1. Ahead(x) \subseteq S /\ Ahead(x) # S
    OBVIOUS
  <2> HIDE DEF Ahead
  <2>2. IsFiniteSet(Ahead(x)) /\ Cardinality(Ahead(x)) < Cardinality(S)
    BY <2>1, FS_Subset, FS_CardinalityType
  <2> QED
    BY <2>2, FS_CardinalityType
<1>2. \A x, y \in S : <<x, y>> \in R => rank[x] < rank[y]
  <2> SUFFICES ASSUME NEW x \in S, NEW y \in S, <<x, y>> \in R PROVE rank[x] < rank[y]
    OBVIOUS
  <2>1. Ahead(x) \subseteq Ahead(y) /\ Ahead(x) # Ahead(y)
    <3>1. x \in Ahead(y) /\ x \notin Ahead(x)
      OBVIOUS
    <3> QED
      BY <3>1
  <2> HIDE DEF Ahead
  <2>2. IsFiniteSet(Ahead(y)) /\ rank[x] \in Nat /\ rank[y] \in Nat
    BY <1>1
  <2>3. Cardinality(Ahead(x)) < Cardinality(Ahead(y))
    BY <2>1, <2>2, FS_Subset, FS_CardinalityType
  <2> QED
    BY <2>3
<1>3. \A x, y \in S : rank[x] = rank[y] => x = y
  <2> HIDE DEF rank, Ahead
  <2> SUFFICES ASSUME NEW x \in S, NEW y \in S, rank[x] = rank[y] PROVE x = y
    OBVIOUS
  <2>1. rank[x] \in Nat /\ ~(rank[x] < rank[y]) /\ ~(rank[y] < rank[x])
    BY <1>1
  <2> QED
    BY <1>2, <2>1
<1>0. rank = [x \in S |-> Cardinality(Ahead(x))] /\ rank \in [S -> Nat]
  BY <1>1
<1> HIDE DEF rank, Ahead
<1>4. ASSUME NEW k \in Nat
      PROVE  Cardinality({x \in S : Cardinality(Ahead(x)) < k}) <= k
  <2> DEFINE T == {x \in S : rank[x] < k}
             f == [x \in T |-> rank[x] + 1]
  <2>1. f \in Injection(T, 1 .. k)
    <3>1. \A x \in T : rank[x] + 1 \in 1 .. k
      BY <1>0
    <3>2. \A x, y \in T : rank[x] + 1 = rank[y] + 1 => x = y
      BY <1>0, <1>3
    <3> QED
      BY <3>1, <3>2 DEF Injection, IsInjective
  <2>2. IsFiniteSet(1 .. k) /\ Cardinality(1 .. k) = k
    BY FS_Interval
  <2> HIDE DEF f, T
  <2>3. Cardinality(T) <= k
    BY <2>1, <2>2, FS_Injection
  <2>4. T = {x \in S : Cardinality(Ahead(x)) < k}
    BY <1>0 DEF T
  <2> QED
    BY <2>3, <2>4
<1>6. ASSUME NEW k \in 0 .. Cardinality(S)
      PROVE  Cardinality({x \in S : Cardinality(Ahead(x)) < k}) >= k
  <2> DEFINE n == Cardinality(S)
             T == {x \in S : rank[x] < k}
             L == S \ T
             f == [x \in L |-> rank[x] - k + 1]
  <2>1. n \in Nat /\ k \in Nat /\ k <= n
    BY FS_CardinalityType
  <2>2. f \in Injection(L, 1 .. n - k)
    <3>1. \A x \in L : rank[x] - k + 1 \in 1 .. n - k
      BY <1>0, <1>1, <2>1
    <3>2. \A x, y \in L : rank[x] - k + 1 = rank[y] - k + 1 => x = y
      BY <1>0, <1>3, <2>1
    <3> QED
      BY <3>1, <3>2 DEF Injection, IsInjective
  <2>3. IsFiniteSet(1 .. n - k) /\ Cardinality(1 .. n - k) = n - k
    <3> HIDE DEF n
    <3>1. n - k \in Nat
      BY <2>1
    <3> QED
      BY <3>1, FS_Interval
  <2>4. T \in SUBSET S
    OBVIOUS
  <2>5. T = {x \in S : Cardinality(Ahead(x)) < k}
    BY <1>0
  <2> HIDE DEF f, T, n
  <2>6. Cardinality(L) <= n - k
    BY <2>2, <2>3, FS_Injection
  <2>7. S \cap T = T /\ IsFiniteSet(T)
    BY <2>4, FS_Subset
  <2>8. Cardinality(L) = n - Cardinality(T) /\ Cardinality(T) \in Nat
    BY <2>7, FS_Difference, FS_CardinalityType DEF n
  <2>9. Cardinality(T) >= k
    BY <2>1, <2>6, <2>8
  <2> QED
    BY <2>5, <2>9
<1>5. ASSUME S # {} PROVE \E m \in S : Ahead(m) = {}
  <2> DEFINE n == Cardinality(S)
             f == [x \in S |-> rank[x] + 1]
  <2>1. n \in Nat /\ n # 0
    BY <1>5, FS_CardinalityType, FS_EmptySet
  <2>2. f \in Injection(S, 1 .. n)
    <3>1. \A x \in S : rank[x] + 1 \in 1 .. n
      BY <1>0, <1>1, <2>1
    <3>2. \A x, y \in S : rank[x] + 1 = rank[y] + 1 => x = y
      BY <1>0, <1>3
    <3> QED
      BY <3>1, <3>2 DEF Injection, IsInjective
  <2>3. IsFiniteSet(1 .. n) /\ Cardinality(1 .. n) = n
    BY <2>1, FS_Interval
  <2> HIDE DEF f, n
  <2>4. f \in Surjection(S, 1 .. n)
    BY <2>2, <2>3, FS_Injection DEF n
  <2>5. PICK m \in S : f[m] = 1
    BY <2>1, <2>4 DEF Surjection
  <2>6. rank[m] = 0 /\ IsFiniteSet(Ahead(m))
    BY <1>0, <1>1, <2>5 DEF f
  <2>7. Cardinality(Ahead(m)) = 0
    BY <1>0, <2>6
  <2> QED
    BY <2>6, <2>7, FS_EmptySet
<1> QED
  BY <1>4, <1>5, <1>6 DEF Ahead

\* Of finitely many, one is the oldest.
LEMMA Oldest ==
    ASSUME NEW S, IsFiniteSet(S), S # {}, NEW f \in [S -> Nat]
    PROVE  \E o \in S : \A p \in S : f[o] <= f[p]
<1> DEFINE D == {f[x] : x \in S}
           R == {p \in Nat \X Nat : p[1] < p[2]}
           g == [x \in S |-> f[x]]
<1>1. g \in Surjection(S, D)
  BY DEF Surjection
<1>2. D \subseteq Nat /\ D # {}
  OBVIOUS
<1>2a. IsFiniteSet(D)
  <2> HIDE DEF D, g
  <2> QED BY <1>1, FS_Surjection
<1>3. \A a, b \in D : <<a, b>> \in R <=> a < b
  BY <1>2
<1> HIDE DEF D, R, g
<1>3a. \A a \in D : <<a, a>> \notin R
  BY <1>2, <1>3
<1>3b. \A a, b, c \in D : <<a, b>> \in R /\ <<b, c>> \in R => <<a, c>> \in R
  BY <1>2, <1>3
<1>3c. \A a, b \in D : a = b \/ <<a, b>> \in R \/ <<b, a>> \in R
  <2> TAKE a, b \in D
  <2>1. a \in Nat /\ b \in Nat
    BY <1>2
  <2>2. a = b \/ a < b \/ b < a
    BY <2>1
  <2> QED
    BY <1>3, <2>2
<1>4. PICK m \in D : {b \in D : <<b, m>> \in R} = {}
  BY <1>2, <1>2a, <1>3a, <1>3b, <1>3c, Ranks
<1>5. \A b \in D : m <= b
  <2> TAKE b \in D
  <2>1. m \in Nat /\ b \in Nat /\ ~(b < m)
    BY <1>2, <1>3, <1>4
  <2> QED
    BY <2>1
<1> QED
  BY <1>5 DEF D

\* What a sequence one longer is.
LEMMA AppendRight ==
    ASSUME NEW S, NEW seq \in Seq(S), NEW e \in S
    PROVE  /\ Append(seq, e) \in Seq(S) /\ Len(seq) \in Nat
           /\ Len(Append(seq, e)) = Len(seq) + 1
           /\ DOMAIN Append(seq, e) = DOMAIN seq \cup {Len(seq) + 1}
           /\ Append(seq, e)[Len(seq) + 1] = e
           /\ \A i \in DOMAIN seq :
               i \in Nat /\ i >= 1 /\ i <= Len(seq) /\ Append(seq, e)[i] = seq[i]
  OBVIOUS

\* A set of at least two holds two.
LEMMA TwoOf ==
    ASSUME NEW S, IsFiniteSet(S), Cardinality(S) >= 2
    PROVE  \E x, y \in S : x # y
<1>1. S # {}
  BY FS_EmptySet
<1>2. PICK x \in S : TRUE
  BY <1>1
<1>3. S # {x}
  BY FS_Singleton
<1> QED
  BY <1>2, <1>3

-----------------------------------------------------------------------------
(* What a document becomes                                                 *)

\* What makes room leaves some words, no more than the limit, as they were.
LEMMA BestFits ==
    ASSUME NEW words, IsFiniteSet(DOMAIN words), DOMAIN words \subseteq Word,
           \A w \in DOMAIN words : words[w].day \in Nat /\ IsFiniteSet(words[w].reports),
           day \in Nat, \E w \in DOMAIN words : words[w].day = day
    PROVE  /\ DOMAIN Best(words) \subseteq DOMAIN words
           /\ IsFiniteSet(DOMAIN Best(words))
           /\ Cardinality(DOMAIN Best(words)) \in 1 .. WordLimit
           /\ \A w \in DOMAIN Best(words) : Best(words)[w] = words[w]
<1> DEFINE fresh == {w \in DOMAIN words : Within(words[w].day)}
           R == {p \in Word \X Word : Before(words, p[1], p[2])}
           ahead(w) == {v \in fresh : <<v, w>> \in R}
           best == {w \in fresh : Cardinality(ahead(w)) < WordLimit}
<1>1. /\ \A w \in DOMAIN words : words[w].day \in Nat /\ Fields(words[w]) \in Nat /\ w \in Nat
      /\ WordLimit \in Nat \ {0} /\ Retention \in Nat \ {0}
  BY FS_CardinalityType, LearnedAssumption DEF Fields
<1>2. fresh # {} /\ IsFiniteSet(fresh) /\ fresh \subseteq DOMAIN words /\ fresh \subseteq Word
  <2>1. fresh # {}
    BY <1>1 DEF Within
  <2> QED
    BY <2>1, FS_Subset
<1>3. \A v, w \in fresh : <<v, w>> \in R <=> Before(words, v, w)
  BY <1>2
<1>4. \A w \in fresh : {v \in fresh : Before(words, v, w)} = ahead(w)
  BY <1>3
<1>5. DOMAIN Best(words) = best /\ \A w \in best : Best(words)[w] = words[w]
  BY <1>4 DEF Best, Restrict
<1>6. \A x \in fresh : <<x, x>> \notin R
  BY <1>1, <1>2, <1>3 DEF Before
<1>7. \A x, y, z \in fresh : <<x, y>> \in R /\ <<y, z>> \in R => <<x, z>> \in R
  BY <1>1, <1>2, <1>3 DEF Before
<1>8. \A x, y \in fresh : x = y \/ <<x, y>> \in R \/ <<y, x>> \in R
  <2> TAKE x, y \in fresh
  <2>1. /\ x \in DOMAIN words /\ y \in DOMAIN words /\ x \in Nat /\ y \in Nat
        /\ words[x].day \in Nat /\ words[y].day \in Nat
        /\ Fields(words[x]) \in Nat /\ Fields(words[y]) \in Nat
    BY <1>1, <1>2
  <2>2. x = y \/ Before(words, x, y) \/ Before(words, y, x)
    <3> HIDE DEF fresh, R
    <3> QED BY <2>1 DEF Before
  <2> QED
    BY <1>3, <2>2
<1> HIDE DEF fresh, R
<1>9. Cardinality(best) <= WordLimit /\ \E m \in fresh : ahead(m) = {}
  BY <1>1, <1>2, <1>6, <1>7, <1>8, Ranks
<1>10. best # {}
  BY <1>1, <1>9, FS_EmptySet
<1>11. best \subseteq fresh
  OBVIOUS
<1> HIDE DEF best
<1>12. IsFiniteSet(best) /\ Cardinality(best) \in Nat /\ Cardinality(best) # 0
  BY <1>2, <1>10, <1>11, FS_Subset, FS_EmptySet, FS_CardinalityType
<1> QED
  BY <1>1, <1>2, <1>5, <1>9, <1>11, <1>12

\* The subjects left are fewer than the limit.
LEMMA OthersFit ==
    ASSUME NEW of, NEW s, IsFiniteSet(DOMAIN of), Cardinality(DOMAIN of) <= SubjectLimit,
           \A o \in DOMAIN of : of[o].day \in Nat
    PROVE  /\ Others(of, s) \subseteq DOMAIN of \ {s} /\ IsFiniteSet(Others(of, s))
           /\ Cardinality(Others(of, s) \cup {s}) <= SubjectLimit
<1>1. SubjectLimit \in Nat \ {0} /\ Cardinality(DOMAIN of) \in Nat
  BY LearnedAssumption, FS_CardinalityType
<1>2. CASE s \in DOMAIN of
  <2>1. Others(of, s) = DOMAIN of \ {s} /\ Others(of, s) \cup {s} = DOMAIN of
    BY <1>2 DEF Others
  <2> QED
    BY <2>1, FS_RemoveElement
<1>3. CASE s \notin DOMAIN of /\ Cardinality(DOMAIN of) < SubjectLimit
  <2>1. Others(of, s) = DOMAIN of
    BY <1>3 DEF Others
  <2>2. Cardinality(DOMAIN of \cup {s}) = Cardinality(DOMAIN of) + 1
    BY <1>3, FS_AddElement
  <2> QED
    BY <1>1, <1>3, <2>1, <2>2
<1>4. CASE s \notin DOMAIN of /\ ~(Cardinality(DOMAIN of) < SubjectLimit)
  <2> DEFINE o == CHOOSE x \in DOMAIN of : \A p \in DOMAIN of : of[x].day <= of[p].day
             lasts == [x \in DOMAIN of |-> of[x].day]
  <2>1. DOMAIN of # {} /\ lasts \in [DOMAIN of -> Nat]
    BY <1>1, <1>4, FS_EmptySet
  <2>2. \E x \in DOMAIN of : \A p \in DOMAIN of : lasts[x] <= lasts[p]
    BY <2>1, Oldest
  <2>3. o \in DOMAIN of
    BY <2>2
  <2>4. Others(of, s) = DOMAIN of \ {o}
    BY <1>4 DEF Others
  <2> HIDE DEF o
  <2>5. /\ IsFiniteSet(DOMAIN of \ {o})
        /\ Cardinality(DOMAIN of \ {o}) = Cardinality(DOMAIN of) - 1
    BY <2>3, FS_RemoveElement
  <2>6. Cardinality((DOMAIN of \ {o}) \cup {s}) = Cardinality(DOMAIN of \ {o}) + 1
    BY <1>4, <2>5, FS_AddElement
  <2> QED
    BY <1>1, <1>4, <2>4, <2>5, <2>6
<1> QED
  BY <1>2, <1>3, <1>4

\* A document that counts one report more.
LEMMA RecordedKept ==
    ASSUME Typed, Kept(content, wiped, reports), NEW id \in DOMAIN reports,
           NEW r, r = reports[id], wiped[r.subject] < id,
           r.words # {}, IsFiniteSet(r.words)
    PROVE  /\ Kept(Recorded(r, id), wiped, reports)
           /\ DOMAIN Recorded(r, id).of \subseteq DOMAIN content.of \cup {r.subject}
           /\ r.subject \in DOMAIN Recorded(r, id).of
<1> DEFINE of == IF Ready THEN content.of ELSE <<>>
           words == IF r.subject \in DOMAIN of THEN of[r.subject].words ELSE <<>>
           rest == Others(of, r.subject)
           merged == Counted(words, r.words, id)
           new == Recorded(r, id).of
<1>1. /\ r.subject \in Subject /\ r.words \subseteq Word /\ day \in Nat
      /\ wiped[r.subject] \in Nat /\ id \in Nat /\ Len(reports) \in Nat
      /\ id \in 1 .. Len(reports)
  <2>1. MaxDay \in Nat
    BY LearnedAssumption
  <2>2. id \in 1 .. Len(reports) /\ Len(reports) \in Nat /\ reports[id] \in Report
    BY DEF Typed
  <2>3. r.subject \in Subject /\ r.words \subseteq Word
    BY <2>2 DEF Report
  <2>4. wiped[r.subject] \in 0 .. Len(reports)
    BY <2>3 DEF Typed
  <2>5. day \in Nat
    BY <2>1 DEF Typed
  <2> QED
    BY <2>2, <2>3, <2>4, <2>5
<1>2. /\ IsFiniteSet(DOMAIN of) /\ DOMAIN of \subseteq DOMAIN content.of
      /\ Cardinality(DOMAIN of) <= SubjectLimit
      /\ \A s \in DOMAIN of : of[s] = content.of[s]
  <2>1. DOMAIN <<>> = {}
    OBVIOUS
  <2>2. IsFiniteSet({}) /\ Cardinality({}) = 0 /\ SubjectLimit \in Nat
    BY FS_EmptySet, LearnedAssumption
  <2> QED
    BY <2>1, <2>2 DEF Kept
<1>3. /\ IsFiniteSet(DOMAIN words) /\ DOMAIN words \subseteq Word
      /\ \A w \in DOMAIN words :
          /\ words[w].day \in Nat
          /\ words[w].reports \subseteq Counting(r.subject, w, wiped, reports)
  <2>1. CASE r.subject \in DOMAIN of
    <3>1. words = content.of[r.subject].words /\ r.subject \in DOMAIN content.of
      BY <1>2, <2>1
    <3> HIDE DEF words
    <3> QED
      BY <3>1 DEF Kept, KeptWords
  <2>2. CASE r.subject \notin DOMAIN of
    <3>1. words = <<>>
      BY <2>2
    <3>2. DOMAIN words = {}
      BY <3>1
    <3> HIDE DEF words
    <3> QED
      BY <3>2, FS_EmptySet
  <2> QED
    BY <2>1, <2>2
<1> HIDE DEF of, words
<1>4. /\ DOMAIN merged = DOMAIN words \cup r.words
      /\ \A w \in DOMAIN merged :
          /\ merged[w].day \in Nat
          /\ merged[w].reports \subseteq Counting(r.subject, w, wiped, reports)
      /\ \A w \in r.words : merged[w].day = day
  <2>1. \A w \in r.words : id \in Counting(r.subject, w, wiped, reports)
    BY <1>1 DEF Counting
  <2> QED
    BY <1>1, <1>3, <2>1 DEF Counted
<1>5. /\ IsFiniteSet(DOMAIN merged) /\ DOMAIN merged \subseteq Word
      /\ \E w \in DOMAIN merged : merged[w].day = day
  <2>1. IsFiniteSet(DOMAIN words \cup r.words)
    BY <1>3, FS_Union
  <2>2. PICK w \in r.words : TRUE
    OBVIOUS
  <2>3. w \in DOMAIN merged /\ merged[w].day = day
    BY <1>4, <2>2
  <2> HIDE DEF merged
  <2> QED
    BY <1>1, <1>3, <1>4, <2>1, <2>3
<1>6. \A w \in DOMAIN merged : IsFiniteSet(merged[w].reports)
  <2>1. \A w : Counting(r.subject, w, wiped, reports) \subseteq 1 .. Len(reports)
    BY <1>1 DEF Counting
  <2>2. IsFiniteSet(1 .. Len(reports))
    BY <1>1, FS_Interval
  <2> QED
    BY <1>4, <2>1, <2>2, FS_Subset
<1>7. new = [s \in rest \cup {r.subject} |->
               IF s \in rest THEN of[s] ELSE [day |-> day, words |-> Best(merged)]]
  BY DEF Recorded, of, words
<1>8. /\ rest \subseteq DOMAIN of \ {r.subject} /\ IsFiniteSet(rest)
      /\ Cardinality(rest \cup {r.subject}) <= SubjectLimit
  <2>1. \A s \in DOMAIN of : of[s].day \in Nat
    BY <1>2 DEF Kept
  <2> QED
    BY <1>2, <2>1, OthersFit
<1> HIDE DEF merged
<1>9. KeptWords(Best(merged), r.subject, wiped, reports)
  <2>1. /\ DOMAIN Best(merged) \subseteq DOMAIN merged
        /\ IsFiniteSet(DOMAIN Best(merged))
        /\ Cardinality(DOMAIN Best(merged)) \in 1 .. WordLimit
        /\ \A w \in DOMAIN Best(merged) : Best(merged)[w] = merged[w]
    BY <1>1, <1>4, <1>5, <1>6, BestFits
  <2> QED
    BY <1>4, <1>5, <2>1 DEF KeptWords
<1> HIDE DEF rest, new
<1>10. /\ DOMAIN new = rest \cup {r.subject}
       /\ \A s \in rest : new[s] = content.of[s] /\ s \in DOMAIN content.of
       /\ new[r.subject] = [day |-> day, words |-> Best(merged)]
  BY <1>2, <1>7, <1>8
<1>11. IsFiniteSet(DOMAIN new)
  BY <1>8, <1>10, FS_AddElement
<1>12. DOMAIN new \subseteq Subject /\ Cardinality(DOMAIN new) <= SubjectLimit
  BY <1>1, <1>8, <1>10 DEF Kept
<1>13. \A s \in DOMAIN new :
          new[s].day \in Nat /\ KeptWords(new[s].words, s, wiped, reports)
  BY <1>1, <1>9, <1>10 DEF Kept
<1> QED
  BY <1>10, <1>11, <1>12, <1>13 DEF Kept, new

\* A document without some of its subjects, or as the disk holds it.
LEMMA AllowedKept ==
    ASSUME NEW off, Kept(content, wiped, reports)
    PROVE  LET c == [content EXCEPT !.of = Restrict(@, Allowed(off))] IN
           /\ DOMAIN c.of = Allowed(off) /\ Allowed(off) \subseteq DOMAIN content.of \ off
           /\ Kept(c, wiped, reports)
<1>1. Allowed(off) \subseteq DOMAIN content.of \ off
  BY DEF Allowed
<1>2. IsFiniteSet(Allowed(off)) /\ Cardinality(Allowed(off)) <= Cardinality(DOMAIN content.of)
  BY <1>1, FS_Subset DEF Kept
<1> QED
  BY <1>1, <1>2, LearnedAssumption, FS_CardinalityType DEF Kept, Restrict

LEMMA OnDiskKept ==
    ASSUME NEW c, NEW gone, NEW said, Kept(c, gone, said)
    PROVE  /\ Kept(OnDisk(c), gone, said) /\ OnDisk(OnDisk(c)) = OnDisk(c)
           /\ DOMAIN OnDisk(c).of \subseteq DOMAIN c.of
<1>1. IsFiniteSet({}) /\ Cardinality({}) = 0 /\ SubjectLimit \in Nat /\ DOMAIN <<>> = {}
  BY FS_EmptySet, LearnedAssumption
<1> QED
  BY <1>1 DEF OnDisk, Empty, Kept

LEMMA EmptyKept ==
    ASSUME NEW gone, NEW said
    PROVE  Kept(Empty, gone, said) /\ OnDisk(Empty) = Empty /\ DOMAIN Empty.of = {}
<1>1. IsFiniteSet({}) /\ Cardinality({}) = 0 /\ SubjectLimit \in Nat /\ DOMAIN <<>> = {}
  BY FS_EmptySet, LearnedAssumption
<1> QED
  BY <1>1 DEF OnDisk, Empty, Kept

\* Reports to come change nothing of what counts.
LEMMA KeptGrows ==
    ASSUME NEW c, NEW gone \in [Subject -> Nat], NEW said \in Seq(Report), NEW r \in Report,
           Kept(c, gone, said)
    PROVE  Kept(c, gone, Append(said, r))
<1>1. \A s \in Subject : \A w : Counting(s, w, gone, said) \subseteq Counting(s, w, gone, Append(said, r))
  BY DEF Counting
<1> QED
  BY <1>1 DEF Kept, KeptWords

\* Nor does wiping a subject of which nothing is kept.
LEMMA KeptWiped ==
    ASSUME NEW c, NEW gone, NEW later, NEW said, Kept(c, gone, said),
           \A s \in DOMAIN c.of : later[s] = gone[s]
    PROVE  Kept(c, later, said)
<1>1. \A s \in DOMAIN c.of : \A w : Counting(s, w, later, said) = Counting(s, w, gone, said)
  BY DEF Counting
<1> QED
  BY <1>1 DEF Kept, KeptWords

LEMMA OfferableSame ==
    UNCHANGED <<content, usable, key, doc>> => Offerable' = Offerable
  BY DEF Offerable, Ready, On

LEMMA NothingOfferable == key = NoKey => Offerable = <<>>
<1> SUFFICES ASSUME key = NoKey PROVE Offerable = <<>>
  OBVIOUS
<1> DEFINE long(s) == {w \in DOMAIN content.of[s].words :
                           Fields(content.of[s].words[w]) >= OfferAfter}
<1>1. ~Ready
  BY DEF Ready
<1>2. Offerable = [s \in {} |-> Restrict(content.of[s].words, long(s))]
  BY <1>1 DEF Offerable
<1> QED
  BY <1>2

\* What a store drops, or is given up for not dropping.
LEMMA ReconcileKept ==
    ASSUME Typed, Kept(content, wiped, reports), Kept(file, wiped, reports),
           file = OnDisk(file), usable /\ ~doubt => file = OnDisk(content),
           NEW off, Reconcile(off)
    PROVE  /\ usable' \in BOOLEAN /\ doubt' \in BOOLEAN /\ faults' \in 0 .. MaxFault
           /\ Kept(content', wiped, reports) /\ Kept(file', wiped, reports)
           /\ file' = OnDisk(file') /\ DOMAIN content'.of \subseteq DOMAIN content.of
           /\ usable' => usable /\ DOMAIN content'.of \cap off = {}
           /\ usable' /\ ~doubt' => file' = OnDisk(content')
<1> DEFINE c == [content EXCEPT !.of = Restrict(@, Allowed(off))]
<1>1. CASE ~usable \/ Allowed(off) = DOMAIN content.of
  <2>1. UNCHANGED <<usable, content, file, doubt, faults>>
    BY <1>1 DEF Reconcile
  <2>2. Allowed(off) \cap off = {}
    BY DEF Allowed
  <2> QED
    BY <1>1, <2>1, <2>2 DEF Typed
<1>2. CASE ~(~usable \/ Allowed(off) = DOMAIN content.of)
  <2>1. \/ Written(c) /\ UNCHANGED usable
        \/ (Failed \/ Unknown(c)) /\ usable' = FALSE
    BY <1>2 DEF Reconcile
  <2>2. /\ DOMAIN c.of = Allowed(off) /\ Allowed(off) \subseteq DOMAIN content.of \ off
        /\ Kept(c, wiped, reports)
    BY AllowedKept
  <2> HIDE DEF c
  <2>3. Kept(OnDisk(c), wiped, reports) /\ OnDisk(OnDisk(c)) = OnDisk(c)
    BY <2>2, OnDiskKept
  <2>4. MaxFault \in Nat /\ faults \in 0 .. MaxFault /\ doubt \in BOOLEAN
    BY LearnedAssumption DEF Typed
  <2>5. CASE Written(c) /\ UNCHANGED usable
    BY <2>2, <2>3, <2>5 DEF Written, Typed
  <2>6. CASE Failed /\ usable' = FALSE
    <3>1. faults' \in 0 .. MaxFault /\ UNCHANGED <<content, file, doubt>>
      BY <2>4, <2>6 DEF Failed
    <3> QED
      BY <2>4, <2>6, <3>1
  <2>7. CASE Unknown(c) /\ usable' = FALSE
    <3>1. /\ faults' \in 0 .. MaxFault /\ doubt' = TRUE
          /\ UNCHANGED content /\ file' \in {file, OnDisk(c)}
      BY <2>4, <2>7 DEF Unknown
    <3> QED
      BY <2>3, <2>7, <3>1
  <2> QED
    BY <2>1, <2>5, <2>6, <2>7
<1> QED
  BY <1>1, <1>2

-----------------------------------------------------------------------------
(* The steps                                                               *)

LEMMA InitHolds == Init => IInv
<1> SUFFICES ASSUME Init PROVE IInv
  OBVIOUS
<1>1. Typed
  <2>1. doc \in Settings /\ engine = doc /\ engine.rev <= doc.rev
    BY LearnedAssumption DEF Init, Settings
  <2>2. visits \in Seq(Visit) /\ queue \in Seq(Command) /\ reports \in Seq(Report)
    BY DEF Init
  <2>3. Len(visits) <= VisitLimit /\ Len(reports) <= MaxReport
    BY LearnedAssumption DEF Init
  <2>4. day \in 0 .. MaxDay /\ faults \in 0 .. MaxFault
    BY LearnedAssumption DEF Init
  <2>5. wiped \in [Subject -> 0 .. Len(reports)]
    BY DEF Init
  <2> QED
    BY <2>1, <2>2, <2>3, <2>4, <2>5 DEF Init, Typed
<1>2. Kept(content, wiped, reports) /\ Kept(file, wiped, reports)
  BY EmptyKept DEF Init
<1>3. Told /\ Ordered
  BY DEF Init, Told, Ordered
<1>4. Stores
  BY NothingOfferable, EmptyKept DEF Init, Stores
<1> QED
  BY <1>1, <1>2, <1>3, <1>4 DEF IInv

LEMMA ReportsTyped ==
    ASSUME Typed
    PROVE  \A n \in DOMAIN reports :
               /\ n \in Nat /\ reports[n] \in Report
               /\ reports[n].rev \in Nat /\ reports[n].visit[2] \in Nat
               /\ reports[n].subject \in Subject
<1>1. reports \in Seq(Report)
  BY DEF Typed
<1>2. \A n \in DOMAIN reports : n \in Nat /\ reports[n] \in Report
  BY <1>1
<1> QED
  BY <1>2 DEF Report
LEMMA QueueTyped ==
    ASSUME Typed
    PROVE  \A i \in DOMAIN queue : i \in Nat /\ queue[i].id \in Nat
<1>1. queue \in Seq(Command)
  BY DEF Typed
<1>2. \A i \in DOMAIN queue : i \in Nat /\ queue[i] \in Command
  BY <1>1
<1> QED
  BY <1>2 DEF Command

\* What leaves the stores alone.
LEMMA StoresSame ==
    ASSUME Stores, UNCHANGED <<content, file, doubt, usable, key, doc, locked, offered>>,
           up /\ up'
    PROVE  Stores'
  BY OfferableSame DEF Stores
LEMMA KeptSame ==
    ASSUME IInv, UNCHANGED <<content, file, wiped, reports>>
    PROVE  Kept(content, wiped, reports)' /\ Kept(file, wiped, reports)'
  BY DEF IInv

LEMMA ForgetAskedKeeps == ASSUME IInv, ForgetAsked PROVE IInv'
<1> USE DEF ForgetAsked
<1>1. Typed'
  BY LearnedAssumption DEF IInv, Typed
<1>2. Told' /\ Ordered'
  BY DEF IInv, Told, Ordered, On
<1>3. Stores'
  BY StoresSame DEF IInv
<1> QED
  BY <1>1, <1>2, <1>3, KeptSame DEF IInv

LEMMA ForgetQueuedKeeps == ASSUME IInv, ForgetQueued PROVE IInv'
<1> USE DEF ForgetQueued
<1> DEFINE m == [op |-> "forget", id |-> Len(reports)]
<1>0. /\ queue \in Seq(Command) /\ m \in Command /\ queue' = Append(queue, m)
      /\ Len(reports) \in Nat
  BY DEF IInv, Typed, Command
<1>1. Typed'
  <2>1. queue' \in Seq(Command)
    BY <1>0
  <2> QED
    BY <2>1 DEF IInv, Typed
<1>2. Told'
  BY DEF IInv, Told
<1>3. Ordered'
  <2>1. /\ DOMAIN queue' = DOMAIN queue \cup {Len(queue) + 1} /\ Len(queue) + 1 \notin DOMAIN queue
        /\ \A i \in DOMAIN queue : queue'[i] = queue[i] /\ i < Len(queue) + 1
        /\ queue'[Len(queue) + 1] = m
    BY <1>0
  <2>2. UNCHANGED <<reports, wiped, doc>>
    OBVIOUS
  <2>3. m.op = "forget" /\ m.id = Len(reports) /\ Len(queue) \in Nat /\ DOMAIN queue \subseteq Nat
    BY <1>0
  <2> HIDE DEF m, ForgetQueued
  <2>4. \A i \in DOMAIN queue' : Ordered!1!(i)'
    BY <1>0, <2>1, <2>2, <2>3 DEF IInv, Ordered, On
  <2>5. ASSUME NEW i \in DOMAIN queue', NEW j \in DOMAIN queue',
               i < j, queue'[i].op = "forget", queue'[j].op = "learned"
        PROVE  queue'[i].id < queue'[j].id
    <3>1. j \in DOMAIN queue
      BY <2>1, <2>3, <2>5
    <3>2. i \in DOMAIN queue
      BY <2>1, <2>3, <2>5, <3>1
    <3> QED
      BY <2>1, <2>5, <3>1, <3>2 DEF IInv, Ordered
  <2> QED
    BY <2>4, <2>5 DEF Ordered
<1>4. Stores'
  BY StoresSame DEF IInv
<1> QED
  BY <1>1, <1>2, <1>3, <1>4, KeptSame DEF IInv

LEMMA InstallKeeps == ASSUME IInv, Install PROVE IInv'
<1> USE DEF Install
<1>1. Typed'
  BY LearnedAssumption DEF IInv, Typed, Settings
<1>2. Told'
  <2>1. doc.rev \in Nat /\ engine.rev \in Nat /\ engine.rev <= doc.rev
    BY LearnedAssumption DEF IInv, Typed, Settings
  <2>2. \A n \in DOMAIN reports : reports[n].rev \in Nat
    BY ReportsTyped DEF IInv
  <2> QED
    BY <2>1, <2>2 DEF IInv, Told
<1>3. Ordered'
  BY DEF IInv, Ordered, On
<1>4. Stores'
  BY StoresSame DEF IInv
<1> QED
  BY <1>1, <1>2, <1>3, <1>4, KeptSame DEF IInv

LEMMA NewDayKeeps == ASSUME IInv, NewDay PROVE IInv'
<1> USE DEF NewDay
<1>1. Typed'
  BY LearnedAssumption DEF IInv, Typed
<1>2. Told' /\ Ordered'
  BY DEF IInv, Told, Ordered, On
<1>3. Stores'
  BY OfferableSame DEF IInv, Stores
<1> QED
  BY <1>1, <1>2, <1>3, KeptSame DEF IInv

LEMMA PublishedKeeps == ASSUME IInv, Published PROVE IInv'
<1> USE DEF Published
<1>1. Typed'
  BY DEF IInv, Typed
<1>2. Told' /\ Ordered'
  BY DEF IInv, Told, Ordered, On
<1>3. Stores'
  BY DEF IInv, Stores, Publish
<1> QED
  BY <1>1, <1>2, <1>3, KeptSame DEF IInv

LEMMA DeliverKeyKeeps == ASSUME IInv, NEW k \in Keyring, DeliverKey(k) PROVE IInv'
<1> USE DEF DeliverKey, Free
<1>1. Typed'
  BY DEF IInv, Typed
<1>2. Told' /\ Ordered'
  BY DEF IInv, Told, Ordered, On
<1>3. Stores'
  BY DEF IInv, Stores, Publish
<1> QED
  BY <1>1, <1>2, <1>3, KeptSame DEF IInv

\* The visits a report of a field meets: its own is among them.
LEMMA VisitedRight ==
    ASSUME Typed, Told, NEW f \in Field
    PROVE  /\ Visited(f) \in Seq(Visit) /\ Len(Visited(f)) <= VisitLimit
           /\ \A i, j \in DOMAIN Visited(f) :
                  Visited(f)[i].field = Visited(f)[j].field => i = j
           /\ \E k \in DOMAIN Visited(f) : Visited(f)[k].field = f
           /\ \A i \in DOMAIN Visited(f) :
                /\ Visited(f)[i].since <= Len(reports)
                /\ \A n \in DOMAIN reports :
                    reports[n].visit = <<Visited(f)[i].field, Visited(f)[i].since>> =>
                        reports[n].words \subseteq Visited(f)[i].counted
<1>1. CASE Position(f) # {}
  <2>1. Visited(f) = visits /\ \E k \in DOMAIN visits : visits[k].field = f
    BY <1>1 DEF Visited, Position
  <2> QED
    BY <2>1 DEF Typed, Told
<1>2. CASE Position(f) = {}
  <2> DEFINE base == IF Len(visits) >= VisitLimit THEN Tail(visits) ELSE visits
             new == [field |-> f, since |-> Len(reports), counted |-> {}]
             d == IF Len(visits) >= VisitLimit THEN 1 ELSE 0
  <2>1. Visited(f) = Append(base, new)
    BY <1>2 DEF Visited
  <2>2. /\ visits \in Seq(Visit) /\ Len(visits) <= VisitLimit /\ Len(visits) \in Nat
        /\ VisitLimit \in Nat \ {0} /\ Len(reports) \in Nat /\ new \in Visit
    BY LearnedAssumption DEF Typed, Visit
  <2>3. base \in Seq(Visit) /\ Len(base) < VisitLimit /\ Len(base) \in Nat
    BY <2>2
  <2>4. \A i \in DOMAIN base : i + d \in DOMAIN visits /\ base[i] = visits[i + d]
    BY <2>2
  <2>5. d \in Nat /\ \A i \in DOMAIN visits : visits[i].field # f
    BY <1>2 DEF Position
  <2>6. new.field = f /\ new.since = Len(reports)
    OBVIOUS
  <2> HIDE DEF base, new, d
  <2>7. /\ Visited(f) \in Seq(Visit) /\ Len(Visited(f)) = Len(base) + 1
        /\ DOMAIN Visited(f) = DOMAIN base \cup {Len(base) + 1}
        /\ \A i \in DOMAIN base : Visited(f)[i] = base[i]
        /\ Visited(f)[Len(base) + 1] = new
        /\ DOMAIN base \subseteq Nat
    BY <2>1, <2>2, <2>3
  <2>8. Len(Visited(f)) <= VisitLimit
    BY <2>2, <2>3, <2>7
  <2>9. ASSUME NEW i \in DOMAIN Visited(f), NEW j \in DOMAIN Visited(f),
               Visited(f)[i].field = Visited(f)[j].field
        PROVE  i = j
    <3>1. CASE i \in DOMAIN base /\ j \in DOMAIN base
      <4>1. visits[i + d].field = visits[j + d].field
        BY <2>4, <2>7, <2>9, <3>1
      <4>2. i + d = j + d
        BY <2>4, <3>1, <4>1 DEF Told
      <4> QED
        BY <2>5, <2>7, <3>1, <4>2
    <3>2. \A k \in DOMAIN base : Visited(f)[k].field # f
      BY <2>4, <2>5, <2>7
    <3> QED
      BY <2>6, <2>7, <2>9, <3>1, <3>2
  <2>10. ASSUME NEW i \in DOMAIN Visited(f)
         PROVE  /\ Visited(f)[i].since <= Len(reports)
                /\ \A n \in DOMAIN reports :
                    reports[n].visit = <<Visited(f)[i].field, Visited(f)[i].since>> =>
                        reports[n].words \subseteq Visited(f)[i].counted
    <3>1. CASE i \in DOMAIN base
      BY <2>4, <2>7, <3>1 DEF Told
    <3>2. CASE i = Len(base) + 1
      <4>1. \A n \in DOMAIN reports : n <= Len(reports) /\ reports[n].visit[2] < n
        BY <2>2 DEF Told, Typed
      <4>2. \A n \in DOMAIN reports : reports[n].visit[2] # Len(reports)
        BY <2>2, <4>1, ReportsTyped
      <4> QED
        BY <2>2, <2>6, <2>7, <3>2, <4>2
    <3> QED
      BY <2>7, <3>1, <3>2
  <2> QED
    BY <2>6, <2>7, <2>8, <2>9, <2>10
<1> QED
  BY <1>1, <1>2

LEMMA UpdateKeeps ==
    ASSUME IInv, NEW f \in Field, NEW words \in Texts, Update(f, words) PROVE IInv'
<1> DEFINE V == Visited(f)
           visit == CHOOSE v \in {V[i] : i \in DOMAIN V} : v.field = f
           fresh == words \ visit.counted
           report == [subject |-> SubjectOf[f], words |-> fresh, rev |-> engine.rev,
                      visit |-> <<f, visit.since>>]
           m == [op |-> "learned", id |-> Len(reports) + 1]
<1>1. /\ up /\ up' /\ visits' = Marked(f, words)
      /\ \/ fresh = {} /\ UNCHANGED <<reports, queue>>
         \/ /\ fresh # {} /\ Len(reports) < MaxReport
            /\ reports' = Append(reports, report)
            /\ queue' = Append(queue, m) \/ UNCHANGED queue
      /\ UNCHANGED <<doc, engine, locked, clearing, usable, key, content, file, doubt,
                     offered, day, asked, wiped, faults>>
  BY DEF Update
<1>2. /\ V \in Seq(Visit) /\ Len(V) <= VisitLimit
      /\ \A i, j \in DOMAIN V : V[i].field = V[j].field => i = j
      /\ \E k \in DOMAIN V : V[k].field = f
      /\ \A i \in DOMAIN V :
          /\ V[i].since <= Len(reports)
          /\ \A n \in DOMAIN reports :
              reports[n].visit = <<V[i].field, V[i].since>> =>
                  reports[n].words \subseteq V[i].counted
  BY VisitedRight DEF IInv
<1>3. PICK k \in DOMAIN V : V[k].field = f /\ visit = V[k]
  <2>1. PICK k \in DOMAIN V : V[k].field = f
    BY <1>2
  <2>2. visit \in {V[i] : i \in DOMAIN V} /\ visit.field = f
    BY <2>1
  <2> QED
    BY <1>2, <2>2
<1>4. /\ words \subseteq Word /\ IsFiniteSet(words) /\ SubjectOf[f] \in Subject
      /\ MaxReport \in Nat
  BY LearnedAssumption
<1>5. /\ reports \in Seq(Report) /\ Len(reports) \in Nat /\ queue \in Seq(Command)
      /\ engine.rev \in Nat /\ Len(reports) <= MaxReport
      /\ wiped \in [Subject -> 0 .. Len(reports)]
  BY LearnedAssumption DEF IInv, Typed, Settings
<1>6. fresh \subseteq words /\ fresh \cap V[k].counted = {} /\ IsFiniteSet(fresh)
  BY <1>3, <1>4, FS_Subset
<1>7. report \in Report /\ V[k].since \in Nat /\ visit.since = V[k].since
  <2>1. V[k] \in Visit
    BY <1>2
  <2>2. V[k].since \in Nat /\ visit.since = V[k].since
    BY <1>3, <2>1 DEF Visit
  <2>3. fresh \in SUBSET Word
    BY <1>4
  <2> HIDE DEF V, visit, fresh
  <2>4. report \in Report
    BY <1>4, <1>5, <2>2, <2>3 DEF Report
  <2> QED
    BY <2>2, <2>4
<1>8. /\ Marked(f, words) \in Seq(Visit) /\ Len(Marked(f, words)) = Len(V)
      /\ DOMAIN Marked(f, words) = DOMAIN V
      /\ \A i \in DOMAIN V :
          /\ Marked(f, words)[i].field = V[i].field /\ Marked(f, words)[i].since = V[i].since
          /\ V[i].counted \subseteq Marked(f, words)[i].counted
      /\ words \subseteq Marked(f, words)[k].counted
  <2>1. Marked(f, words) = [i \in DOMAIN V |->
            IF V[i].field # f THEN V[i] ELSE [V[i] EXCEPT !.counted = @ \cup words]]
    BY DEF Marked
  <2> HIDE DEF V
  <2>2. \A i \in DOMAIN V : V[i] \in Visit
    BY <1>2
  <2>3. \A i \in DOMAIN V : [V[i] EXCEPT !.counted = @ \cup words] \in Visit
    BY <1>4, <2>2 DEF Visit
  <2>4. Marked(f, words) \in [1 .. Len(V) -> Visit]
    BY <1>2, <2>1, <2>2, <2>3
  <2>5. Marked(f, words) \in Seq(Visit) /\ Len(Marked(f, words)) = Len(V)
    BY <1>2, <2>4
  <2>6. \A i \in DOMAIN V :
          /\ Marked(f, words)[i].field = V[i].field /\ Marked(f, words)[i].since = V[i].since
          /\ V[i].counted \subseteq Marked(f, words)[i].counted
    BY <2>1, <2>2 DEF Visit
  <2>7. words \subseteq Marked(f, words)[k].counted
    BY <1>3, <2>1, <2>2 DEF Visit
  <2> QED
    BY <2>1, <2>5, <2>6, <2>7
<1>9. report.visit = <<f, V[k].since>> /\ report.words = fresh /\ report.rev = engine.rev
  BY <1>7
<1>10. m \in Command /\ m.op = "learned" /\ m.id = Len(reports) + 1
  BY <1>5 DEF Command
<1> HIDE DEF V, visit, fresh, report, m
<1>11. \/ fresh = {} /\ reports' = reports
       \/ /\ fresh # {} /\ reports' = Append(reports, report)
          /\ reports' \in Seq(Report) /\ Len(reports') = Len(reports) + 1
          /\ Len(reports') <= MaxReport
          /\ DOMAIN reports' = DOMAIN reports \cup {Len(reports) + 1}
          /\ \A n \in DOMAIN reports : n \in Nat /\ n <= Len(reports) /\ reports'[n] = reports[n]
          /\ reports'[Len(reports) + 1] = report
  <2>1. CASE fresh # {} /\ Len(reports) < MaxReport /\ reports' = Append(reports, report)
    <3>1. /\ reports' \in Seq(Report) /\ Len(reports') = Len(reports) + 1
          /\ DOMAIN reports' = DOMAIN reports \cup {Len(reports) + 1}
          /\ reports'[Len(reports) + 1] = report
          /\ \A n \in DOMAIN reports :
              n \in Nat /\ n >= 1 /\ n <= Len(reports) /\ reports'[n] = reports[n]
      BY <1>5, <1>7, <2>1, AppendRight
    <3>2. Len(reports) + 1 <= MaxReport
      BY <1>4, <1>5, <2>1
    <3> QED
      BY <2>1, <3>1, <3>2
  <2> QED
    BY <1>1, <2>1
<1>12. Typed'
  <2>1. visits' \in Seq(Visit) /\ Len(visits') <= VisitLimit
    BY <1>1, <1>2, <1>8
  <2>2. queue' \in Seq(Command)
    BY <1>1, <1>5, <1>10, AppendRight
  <2>3. /\ reports' \in Seq(Report) /\ Len(reports') <= MaxReport
        /\ Len(reports) <= Len(reports') /\ Len(reports') \in Nat
    BY <1>5, <1>11
  <2>4. wiped' \in [Subject -> 0 .. Len(reports')]
    BY <1>1, <1>5, <2>3
  <2> QED
    BY <1>1, <2>1, <2>2, <2>3, <2>4 DEF IInv, Typed
<1>13. Kept(content, wiped, reports)' /\ Kept(file, wiped, reports)'
  <2>1. wiped \in [Subject -> Nat]
    BY <1>5
  <2>2. CASE reports' = reports
    BY <1>1, <2>2, KeptSame
  <2>3. CASE reports' = Append(reports, report)
    BY <1>1, <1>5, <1>7, <2>1, <2>3, KeptGrows DEF IInv
  <2> QED
    BY <1>11, <2>2, <2>3
<1>14. Told'
  <2>1. \A i, j \in DOMAIN visits' : visits'[i].field = visits'[j].field => i = j
    BY <1>1, <1>2, <1>8
  <2>2. \A i \in DOMAIN visits' : visits'[i].since <= Len(reports')
    <3> TAKE i \in DOMAIN visits'
    <3>1. i \in DOMAIN V /\ V[i] \in Visit /\ visits'[i].since = V[i].since
      BY <1>1, <1>2, <1>8
    <3>2. V[i].since <= Len(reports) /\ V[i].since \in Nat
      BY <1>2, <3>1 DEF Visit
    <3> QED
      BY <1>5, <1>11, <3>1, <3>2
  <2>3. \A n \in DOMAIN reports, i \in DOMAIN visits' :
            reports[n].visit = <<visits'[i].field, visits'[i].since>> =>
                reports[n].words \subseteq visits'[i].counted
    BY <1>1, <1>2, <1>8
  <2>4. CASE reports' = reports
    BY <1>1, <2>1, <2>2, <2>3, <2>4 DEF IInv, Told
  <2>5. CASE fresh # {} /\ reports' = Append(reports, report)
    <3> DEFINE new == Len(reports) + 1
    <3>1. /\ DOMAIN reports' = DOMAIN reports \cup {new} /\ reports'[new] = report
          /\ \A n \in DOMAIN reports : n # new /\ reports'[n] = reports[n]
      BY <1>5, <1>11, <2>5
    <3>2. \A i \in DOMAIN visits' :
              report.visit = <<visits'[i].field, visits'[i].since>> =>
                  report.words \subseteq visits'[i].counted
      BY <1>1, <1>2, <1>3, <1>6, <1>8, <1>9
    <3>3. \A n \in DOMAIN reports :
              reports[n].visit = report.visit => reports[n].words \cap report.words = {}
      BY <1>2, <1>3, <1>6, <1>9
    <3>4. report.words # {} /\ IsFiniteSet(report.words) /\ report.rev <= engine'.rev
      BY <1>1, <1>5, <1>6, <1>9, <2>5
    <3>5. report.visit[2] < new
      BY <1>2, <1>5, <1>7, <1>9
    <3> HIDE DEF new
    <3>6. \A n \in DOMAIN reports' :
            /\ reports'[n].words # {} /\ IsFiniteSet(reports'[n].words)
            /\ reports'[n].rev <= engine'.rev /\ reports'[n].visit[2] < n
      BY <1>1, <3>1, <3>4, <3>5 DEF IInv, Told
    <3>7. \A n \in DOMAIN reports', i \in DOMAIN visits' :
            reports'[n].visit = <<visits'[i].field, visits'[i].since>> =>
                reports'[n].words \subseteq visits'[i].counted
      BY <2>3, <3>1, <3>2
    <3>8. \A n, l \in DOMAIN reports' :
            l # n /\ reports'[l].visit = reports'[n].visit =>
                reports'[l].words \cap reports'[n].words = {}
      BY <3>1, <3>3 DEF IInv, Told
    <3> QED
      BY <2>1, <2>2, <3>6, <3>7, <3>8 DEF Told
  <2> QED
    BY <1>11, <2>4, <2>5
<1>15. Ordered'
  <2>1. CASE UNCHANGED <<reports, queue>>
    BY <1>1, <2>1 DEF IInv, Ordered, On
  <2>2. \A i \in DOMAIN queue : queue[i].op = "learned" => queue[i].id \in DOMAIN reports
    BY <1>5, QueueTyped DEF IInv, Ordered
  <2>3. CASE reports' = Append(reports, report) /\ fresh # {}
    <3>1. /\ Len(reports') = Len(reports) + 1 /\ reports'[Len(reports) + 1] = report
          /\ \A n \in DOMAIN reports : reports'[n] = reports[n]
      BY <1>5, <1>11, <2>3
    <3>2. \A i \in DOMAIN queue :
            /\ queue[i].id <= Len(reports')
            /\ queue[i].op = "learned" =>
                LET r == reports'[queue[i].id] IN
                /\ queue[i].id >= 1
                /\ r.rev = doc'.rev /\ On(doc', r.subject) => wiped'[r.subject] < queue[i].id
      <4> TAKE i \in DOMAIN queue
      <4>1. queue[i].id <= Len(reports) /\ queue[i].id \in Nat
        BY QueueTyped DEF IInv, Ordered
      <4>2. queue[i].id <= Len(reports')
        BY <1>5, <3>1, <4>1
      <4>3. ASSUME queue[i].op = "learned"
            PROVE  /\ reports'[queue[i].id] = reports[queue[i].id] /\ queue[i].id >= 1
                   /\ UNCHANGED <<doc, wiped>>
        BY <1>1, <2>2, <3>1, <4>3 DEF IInv, Ordered
      <4> QED
        BY <4>2, <4>3 DEF IInv, Ordered, On
    <3>3. wiped'[report.subject] < Len(reports) + 1
      <4>1. wiped'[report.subject] \in 0 .. Len(reports)
        BY <1>1, <1>5, <1>7 DEF Report
      <4> QED
        BY <1>5, <4>1
    <3>4. CASE UNCHANGED queue
      BY <3>2, <3>4 DEF IInv, Ordered
    <3>5. CASE queue' = Append(queue, m)
      <4> DEFINE last == Len(queue) + 1
      <4>1. /\ DOMAIN queue' = DOMAIN queue \cup {last} /\ queue'[last] = m
            /\ \A i \in DOMAIN queue : i \in Nat /\ i < last /\ queue'[i] = queue[i]
            /\ last \in Nat
        BY <1>5, <1>10, <3>5, AppendRight
      <4> HIDE DEF last
      <4>2. \A i \in DOMAIN queue' :
            /\ queue'[i].id <= Len(reports')
            /\ queue'[i].op = "learned" =>
                LET r == reports'[queue'[i].id] IN
                /\ queue'[i].id >= 1
                /\ r.rev = doc'.rev /\ On(doc', r.subject) => wiped'[r.subject] < queue'[i].id
        <5> TAKE i \in DOMAIN queue'
        <5>1. CASE i \in DOMAIN queue
          BY <3>2, <4>1, <5>1
        <5>2. CASE i = last
          BY <1>5, <1>10, <3>1, <3>3, <4>1, <5>2
        <5> QED
          BY <4>1, <5>1, <5>2
      <4>3. ASSUME NEW i \in DOMAIN queue', NEW j \in DOMAIN queue',
                   i < j, queue'[i].op = "forget", queue'[j].op = "learned"
            PROVE  queue'[i].id < queue'[j].id
        <5>1. i \in DOMAIN queue
          BY <1>10, <4>1, <4>3
        <5>2. queue[i].id <= Len(reports) /\ queue[i].id \in Nat
          BY <5>1, QueueTyped DEF IInv, Ordered
        <5>3. CASE j = last
          BY <1>5, <1>10, <4>1, <5>1, <5>2, <5>3
        <5>4. CASE j \in DOMAIN queue
          BY <4>1, <4>3, <5>1, <5>4 DEF IInv, Ordered
        <5> QED
          BY <4>1, <5>3, <5>4
      <4> QED
        BY <4>2, <4>3 DEF Ordered
    <3> QED
      BY <1>1, <2>3, <3>4, <3>5
  <2> QED
    BY <1>1, <2>1, <2>3
<1>16. Stores'
  BY <1>1, StoresSame DEF IInv
<1> QED
  BY <1>12, <1>13, <1>14, <1>15, <1>16 DEF IInv

\* What the queue holds once its head is taken.
LEMMA TailOrdered ==
    ASSUME IInv, queue # <<>>, queue' = Tail(queue), UNCHANGED <<reports, doc>>,
           \A i \in DOMAIN queue :
               i > 1 /\ queue[i].op = "learned" =>
                   LET s == reports[queue[i].id].subject IN
                   wiped[s] < queue[i].id => wiped'[s] < queue[i].id
    PROVE  queue' \in Seq(Command) /\ Ordered'
<1>1. queue \in Seq(Command) /\ Len(queue) \in Nat /\ Len(queue) >= 1
  BY DEF IInv, Typed
<1>2. /\ queue' \in Seq(Command)
      /\ \A i \in DOMAIN queue' :
          i \in Nat /\ i + 1 > 1 /\ i + 1 \in DOMAIN queue /\ queue'[i] = queue[i + 1]
  BY <1>1
<1>3. \A i \in DOMAIN queue' :
        /\ queue'[i].id <= Len(reports')
        /\ queue'[i].op = "learned" =>
            LET r == reports'[queue'[i].id] IN
            /\ queue'[i].id >= 1
            /\ r.rev = doc'.rev /\ On(doc', r.subject) => wiped'[r.subject] < queue'[i].id
  BY <1>2 DEF IInv, Ordered, On
<1>4. \A i, j \in DOMAIN queue' :
        i < j /\ queue'[i].op = "forget" /\ queue'[j].op = "learned" =>
            queue'[i].id < queue'[j].id
  BY <1>2 DEF IInv, Ordered
<1> QED
  BY <1>2, <1>3, <1>4 DEF Ordered

LEMMA ReplaceKeeps ==
    ASSUME IInv, NEW rules \in Rules, Replace(rules) PROVE IInv'
<1> DEFINE next == [rev |-> doc.rev + 1, rules |-> rules]
<1>1. /\ up /\ up' /\ locked' /\ doc' \in {doc, next} /\ doc.rev < MaxRev
      /\ wiped' = [s \in Subject |-> IF usable' /\ ~doubt' /\ s \in doc'.rules.off
                                     THEN Len(reports) ELSE wiped[s]]
      /\ UNCHANGED <<engine, visits, clearing, queue, key, offered, day, reports, asked>>
  BY DEF Replace, Free
<1>2. PICK off \in {doc.rules.off \cup rules.off, rules.off} : Reconcile(off)
  BY DEF Replace
<1>3. /\ usable' \in BOOLEAN /\ doubt' \in BOOLEAN /\ faults' \in 0 .. MaxFault
      /\ Kept(content', wiped, reports) /\ Kept(file', wiped, reports)
      /\ file' = OnDisk(file') /\ DOMAIN content'.of \subseteq DOMAIN content.of
      /\ usable' => usable /\ DOMAIN content'.of \cap off = {}
      /\ usable' /\ ~doubt' => file' = OnDisk(content')
  BY <1>1, <1>2, ReconcileKept DEF IInv, Stores
<1>4. /\ doc \in Settings /\ next \in Settings /\ next.rev = doc.rev + 1 /\ next.rules = rules
      /\ doc.rev \in Nat /\ engine.rev \in Nat /\ engine.rev <= doc.rev
      /\ Len(reports) \in Nat /\ wiped \in [Subject -> 0 .. Len(reports)]
  <2>1. doc \in Settings /\ engine \in Settings /\ engine.rev <= doc.rev /\ MaxRev \in Nat
    BY LearnedAssumption DEF IInv, Typed
  <2>2. doc.rev + 1 \in 0 .. MaxRev
    BY <1>1, <2>1 DEF Settings
  <2> QED
    BY <2>1, <2>2 DEF Settings, IInv, Typed
<1> HIDE DEF next
<1>5. usable' => DOMAIN content'.of \cap doc'.rules.off = {}
  BY <1>1, <1>2, <1>3, <1>4 DEF IInv, Stores
<1>6. usable' /\ ~doubt' => DOMAIN file'.of \subseteq DOMAIN content'.of
  BY <1>3, OnDiskKept
<1>7. Kept(content, wiped, reports)' /\ Kept(file, wiped, reports)'
  <2>1. \A s \in DOMAIN content'.of : wiped'[s] = wiped[s]
    BY <1>1, <1>3, <1>5 DEF Kept
  <2>2. \A s \in DOMAIN file'.of : wiped'[s] = wiped[s]
    BY <1>1, <1>3, <1>5, <1>6 DEF Kept
  <2>3. Kept(content', wiped', reports) /\ Kept(file', wiped', reports)
    BY <1>3, <2>1, <2>2, KeptWiped
  <2> QED
    BY <1>1, <2>3
<1>8. Typed'
  <2>1. wiped' \in [Subject -> 0 .. Len(reports')]
    BY <1>1, <1>4
  <2>2. doc' \in Settings /\ engine'.rev <= doc'.rev
    BY <1>1, <1>4
  <2> QED
    BY <1>1, <1>3, <2>1, <2>2 DEF IInv, Typed
<1>9. Told'
  BY <1>1 DEF IInv, Told
<1>10. Ordered'
  <2>1. ASSUME NEW i \in DOMAIN queue', queue'[i].op = "learned"
        PROVE  LET r == reports'[queue'[i].id] IN
               /\ queue'[i].id >= 1
               /\ r.rev = doc'.rev /\ On(doc', r.subject) => wiped'[r.subject] < queue'[i].id
    <3> DEFINE r == reports[queue[i].id]
    <3>1. queue[i].id \in DOMAIN reports /\ queue[i].id >= 1 /\ reports'[queue'[i].id] = r
      BY <1>1, <1>4, <2>1, QueueTyped DEF IInv, Ordered, Typed
    <3>2. r.rev \in Nat /\ r.rev <= engine.rev /\ r.subject \in Subject
      BY <3>1, ReportsTyped DEF IInv, Told
    <3>3. CASE doc' = doc
      BY <1>1, <2>1, <3>1, <3>2, <3>3 DEF IInv, Ordered, On
    <3>4. CASE doc' = next
      BY <1>1, <1>4, <3>1, <3>2, <3>4
    <3> QED
      BY <1>1, <3>3, <3>4
  <2> QED
    BY <1>1, <2>1 DEF IInv, Ordered
<1>11. Stores'
  BY <1>1, <1>3, <1>5 DEF Stores
<1> QED
  BY <1>7, <1>8, <1>9, <1>10, <1>11 DEF IInv

LEMMA SweepKeeps == ASSUME IInv, Sweep PROVE IInv'
<1>1. /\ up /\ up' /\ ~locked' /\ Reconcile(doc.rules.off) /\ offered' = Offerable'
      /\ UNCHANGED <<doc, engine, locked, visits, clearing, queue, key, day, reports, asked, wiped>>
  BY DEF Sweep, Free, Publish
<1>2. /\ usable' \in BOOLEAN /\ doubt' \in BOOLEAN /\ faults' \in 0 .. MaxFault
      /\ Kept(content', wiped, reports) /\ Kept(file', wiped, reports)
      /\ file' = OnDisk(file') /\ DOMAIN content'.of \subseteq DOMAIN content.of
      /\ usable' => usable /\ DOMAIN content'.of \cap doc.rules.off = {}
      /\ usable' /\ ~doubt' => file' = OnDisk(content')
  BY <1>1, ReconcileKept DEF IInv, Stores
<1>3. Typed'
  BY <1>1, <1>2 DEF IInv, Typed
<1>4. Told' /\ Ordered'
  BY <1>1 DEF IInv, Told, Ordered, On
<1>5. Stores'
  BY <1>1, <1>2 DEF Stores
<1>6. Kept(content, wiped, reports)' /\ Kept(file, wiped, reports)'
  BY <1>1, <1>2
<1> QED
  BY <1>3, <1>4, <1>5, <1>6 DEF IInv

\* A command taken changes no more than the queue, the store and what is wiped.
LEMMA TakenTyped ==
    ASSUME Typed, queue' \in Seq(Command), faults' \in 0 .. MaxFault,
           doubt' \in BOOLEAN, usable' \in BOOLEAN, key' \in Keyring \cup {NoKey},
           locked' = FALSE, up', up' \in BOOLEAN, wiped' \in [Subject -> 0 .. Len(reports)],
           UNCHANGED <<doc, engine, visits, clearing, day, reports>>
    PROVE  Typed'
  BY DEF Typed
LEMMA TakenStores ==
    ASSUME up', ~locked', offered' = Offerable', file' = OnDisk(file'),
           usable' => DOMAIN content'.of \cap doc'.rules.off = {},
           usable' /\ ~doubt' => file' = OnDisk(content')
    PROVE  Stores'
  BY DEF Stores

\* What the head of the queue tells.
LEMMA HeadRight ==
    ASSUME IInv, queue # <<>>
    PROVE  /\ 1 \in DOMAIN queue /\ Head(queue) = queue[1]
           /\ Head(queue).id \in Nat /\ Head(queue).id <= Len(reports)
           /\ \A i \in DOMAIN queue : i \in Nat /\ queue[i].id \in Nat
<1>1. queue \in Seq(Command)
  BY DEF IInv, Typed
<1>2. 1 \in DOMAIN queue /\ Head(queue) = queue[1]
  BY <1>1
<1> QED
  BY <1>2, QueueTyped DEF IInv, Ordered

LEMMA TakeLearnedKeeps == ASSUME IInv, TakeLearned PROVE IInv'
<1> DEFINE id == Head(queue).id
           r == reports[id]
           c == Recorded(r, id)
<1>1. /\ up /\ up' /\ ~locked /\ ~locked' /\ queue # <<>> /\ queue' = Tail(queue)
      /\ Head(queue).op = "learned" /\ offered' = Offerable'
      /\ UNCHANGED <<doc, engine, visits, clearing, usable, key, day, reports, asked, wiped>>
      /\ \/ Admitted(r) /\ (Written(c) \/ Failed \/ Unknown(c))
         \/ UNCHANGED <<content, file, doubt, faults>>
  BY DEF TakeLearned, Taking, Free, Publish
<1>2. id \in DOMAIN reports
  <2>1. id \in Nat /\ id >= 1 /\ id <= Len(reports)
    BY <1>1, HeadRight DEF IInv, Ordered
  <2>2. reports \in Seq(Report)
    BY DEF IInv, Typed
  <2> QED
    BY <2>1, <2>2
<1>3. Admitted(r) =>
        /\ Kept(c, wiped, reports) /\ Kept(OnDisk(c), wiped, reports)
        /\ OnDisk(OnDisk(c)) = OnDisk(c)
        /\ DOMAIN c.of \subseteq DOMAIN content.of \cup {r.subject}
        /\ r.subject \notin doc.rules.off
  <2> SUFFICES ASSUME Admitted(r) PROVE <1>3!2
    OBVIOUS
  <2>1. r.subject \notin doc.rules.off /\ wiped[r.subject] < id
    BY <1>1, HeadRight DEF Admitted, On, IInv, Ordered
  <2>2. r.words # {} /\ IsFiniteSet(r.words)
    BY <1>2 DEF IInv, Told
  <2> HIDE DEF id, r
  <2>3. r = reports[id]
    BY DEF r
  <2>4. Kept(c, wiped, reports) /\ DOMAIN c.of \subseteq DOMAIN content.of \cup {r.subject}
    BY <1>2, <2>1, <2>2, <2>3, RecordedKept DEF IInv
  <2> HIDE DEF c
  <2> QED
    BY <2>1, <2>4, OnDiskKept
<1> HIDE DEF id, r, c
<1>4. /\ Kept(content', wiped, reports) /\ Kept(file', wiped, reports)
      /\ faults' \in 0 .. MaxFault /\ doubt' \in BOOLEAN
      /\ file' = OnDisk(file')
      /\ usable => DOMAIN content'.of \cap doc.rules.off = {}
      /\ usable /\ ~doubt' => file' = OnDisk(content')
  <2>1. /\ MaxFault \in Nat /\ faults \in 0 .. MaxFault /\ doubt \in BOOLEAN
        /\ Kept(content, wiped, reports) /\ Kept(file, wiped, reports)
        /\ file = OnDisk(file)
        /\ usable => DOMAIN content.of \cap doc.rules.off = {}
        /\ usable /\ ~doubt => file = OnDisk(content)
    BY <1>1, LearnedAssumption DEF IInv, Typed, Stores
  <2>2. CASE UNCHANGED <<content, file, doubt, faults>>
    BY <2>1, <2>2
  <2>3. CASE Admitted(r) /\ Written(c)
    BY <1>3, <2>1, <2>3 DEF Written
  <2>4. CASE Failed
    BY <2>1, <2>4 DEF Failed
  <2>5. CASE Admitted(r) /\ Unknown(c)
    <3>1. /\ faults' \in 0 .. MaxFault /\ doubt' = TRUE
          /\ UNCHANGED content /\ file' \in {file, OnDisk(c)}
      BY <2>1, <2>5 DEF Unknown
    <3> QED
      BY <1>3, <2>1, <2>5, <3>1
  <2> QED
    BY <1>1, <2>2, <2>3, <2>4, <2>5
<1>5. queue' \in Seq(Command) /\ Ordered'
  BY <1>1, TailOrdered
<1>6. Typed'
  <2>1. /\ key' \in Keyring \cup {NoKey} /\ usable' \in BOOLEAN /\ locked' = FALSE
        /\ up' \in BOOLEAN /\ wiped' \in [Subject -> 0 .. Len(reports)]
    BY <1>1 DEF IInv, Typed, TakeLearned
  <2> QED
    BY <1>1, <1>4, <1>5, <2>1, TakenTyped DEF IInv
<1>7. Told'
  BY <1>1 DEF IInv, Told
<1>8. Stores'
  BY <1>1, <1>4 DEF Stores
<1>9. Kept(content, wiped, reports)' /\ Kept(file, wiped, reports)'
  BY <1>1, <1>4
<1> QED
  BY <1>5, <1>6, <1>7, <1>8, <1>9 DEF IInv

LEMMA TakeForgetKeeps == ASSUME IInv, TakeForget PROVE IInv'
<1> DEFINE id == Head(queue).id
<1>1. /\ up /\ up' /\ ~locked /\ ~locked' /\ queue # <<>> /\ queue' = Tail(queue)
      /\ Head(queue).op = "forget" /\ offered' = Offerable'
      /\ UNCHANGED <<doc, engine, visits, clearing, day, reports, asked>>
      /\ \/ /\ Written(Empty) /\ usable' = TRUE /\ key' = IF usable THEN key ELSE NoKey
            /\ wiped' = [s \in Subject |-> IF wiped[s] < id THEN id ELSE wiped[s]]
         \/ (Failed \/ Unknown(Empty)) /\ UNCHANGED <<usable, key, wiped>>
  BY DEF TakeForget, Taking, Free, Publish
<1>0. locked' = FALSE /\ up' \in BOOLEAN
  BY DEF TakeForget, Taking, Free, IInv, Typed
<1>2. /\ id \in Nat /\ id <= Len(reports) /\ Len(reports) \in Nat
      /\ wiped \in [Subject -> 0 .. Len(reports)]
      /\ MaxFault \in Nat /\ faults \in 0 .. MaxFault /\ doubt \in BOOLEAN
      /\ key \in Keyring \cup {NoKey} /\ usable \in BOOLEAN
  <2>1. id \in Nat /\ id <= Len(reports)
    BY <1>1, HeadRight
  <2> QED
    BY <2>1, LearnedAssumption DEF IInv, Typed
<1>3. /\ Kept(Empty, wiped, reports) /\ Kept(Empty, wiped', reports')
      /\ OnDisk(Empty) = Empty /\ DOMAIN Empty.of = {}
  BY EmptyKept
<1>4. \A i \in DOMAIN queue :
        i > 1 /\ queue[i].op = "learned" =>
            LET s == reports[queue[i].id].subject IN
            wiped[s] < queue[i].id => wiped'[s] < queue[i].id
  <2> SUFFICES ASSUME NEW i \in DOMAIN queue, i > 1, queue[i].op = "learned",
                      wiped[reports[queue[i].id].subject] < queue[i].id
               PROVE  wiped'[reports[queue[i].id].subject] < queue[i].id
    OBVIOUS
  <2>1. id < queue[i].id
    BY <1>1, HeadRight DEF IInv, Ordered
  <2>2. reports[queue[i].id].subject \in Subject
    <3>1. queue[i].id \in DOMAIN reports
      BY <1>2, QueueTyped DEF IInv, Ordered, Typed
    <3> QED
      BY <3>1, ReportsTyped DEF IInv
  <2> QED
    BY <1>1, <2>1, <2>2
<1>5. queue' \in Seq(Command) /\ Ordered'
  BY <1>1, <1>4, TailOrdered
<1> HIDE DEF id
<1>6. CASE /\ Written(Empty) /\ usable' = TRUE /\ key' = IF usable THEN key ELSE NoKey
           /\ wiped' = [s \in Subject |-> IF wiped[s] < id THEN id ELSE wiped[s]]
  <2>1. content' = Empty /\ file' = Empty /\ doubt' = FALSE /\ UNCHANGED faults
    BY <1>3, <1>6 DEF Written
  <2>2. Kept(content, wiped, reports)' /\ Kept(file, wiped, reports)'
    BY <1>3, <2>1
  <2>3. Typed'
    <3>1. wiped' \in [Subject -> 0 .. Len(reports)]
      BY <1>1, <1>2, <1>6
    <3>2. key' \in Keyring \cup {NoKey} /\ doubt' \in BOOLEAN /\ faults' \in 0 .. MaxFault
      BY <1>2, <1>6, <2>1
    <3> QED
      BY <1>1, <1>5, <1>6, <1>0, <3>1, <3>2, TakenTyped DEF IInv
  <2>4. Told'
    BY <1>1 DEF IInv, Told
  <2>5. Stores'
    BY <1>1, <1>3, <2>1 DEF Stores
  <2> QED
    BY <1>5, <2>2, <2>3, <2>4, <2>5 DEF IInv
<1>7. CASE (Failed \/ Unknown(Empty)) /\ UNCHANGED <<usable, key, wiped>>
  <2>1. /\ UNCHANGED content /\ file' \in {file, Empty} /\ faults' \in 0 .. MaxFault
        /\ doubt' \in BOOLEAN
        /\ ~doubt' => ~doubt /\ file' = file
    <3>1. CASE Failed
      BY <1>2, <3>1 DEF Failed
    <3>2. CASE Unknown(Empty)
      <4>1. UNCHANGED content /\ file' \in {file, Empty} /\ faults' = faults + 1 /\ faults < MaxFault
        BY <1>3, <3>2 DEF Unknown
      <4>2. doubt' = TRUE
        BY <3>2 DEF Unknown
      <4> QED
        BY <1>2, <4>1, <4>2
    <3> QED
      BY <1>7, <3>1, <3>2
  <2>2. Kept(content, wiped, reports)' /\ Kept(file, wiped, reports)'
    BY <1>1, <1>3, <1>7, <2>1 DEF IInv
  <2>3. Typed'
    BY <1>0, <1>1, <1>2, <1>5, <1>7, <2>1, TakenTyped DEF IInv
  <2>4. Told'
    BY <1>1 DEF IInv, Told
  <2>5. Stores'
    <3>1. /\ file = OnDisk(file)
          /\ usable => DOMAIN content.of \cap doc.rules.off = {}
          /\ usable /\ ~doubt => file = OnDisk(content)
      BY <1>1 DEF IInv, Stores
    <3>2. file' = OnDisk(file')
      BY <1>3, <2>1, <3>1
    <3>3. usable' => DOMAIN content'.of \cap doc'.rules.off = {}
      BY <1>1, <1>7, <2>1, <3>1
    <3>4. usable' /\ ~doubt' => file' = OnDisk(content')
      BY <1>7, <2>1, <3>1
    <3> QED
      BY <1>1, <3>2, <3>3, <3>4, TakenStores
  <2> QED
    BY <1>5, <2>2, <2>3, <2>4, <2>5 DEF IInv
<1> QED
  BY <1>1, <1>6, <1>7

LEMMA CrashKeeps == ASSUME IInv, Crash PROVE IInv'
<1> USE DEF Crash
<1>1. MaxFault \in Nat /\ VisitLimit \in Nat /\ file = OnDisk(file)
  BY LearnedAssumption DEF IInv, Stores
<1>2. Typed'
  <2>1. visits' \in Seq(Visit) /\ queue' \in Seq(Command) /\ Len(visits') <= VisitLimit
    BY <1>1
  <2>2. faults' \in 0 .. MaxFault
    BY <1>1 DEF IInv, Typed
  <2> QED
    BY <2>1, <2>2 DEF IInv, Typed
<1>3. Told' /\ Ordered'
  BY DEF IInv, Told, Ordered
<1>4. Stores'
  BY <1>1 DEF Stores
<1>5. Kept(content, wiped, reports)' /\ Kept(file, wiped, reports)'
  BY DEF IInv
<1> QED
  BY <1>2, <1>3, <1>4, <1>5 DEF IInv

LEMMA StartKeeps == ASSUME IInv, Start PROVE IInv'
<1>1. /\ ~up /\ up' /\ engine' = doc /\ Reconcile(doc.rules.off)
      /\ UNCHANGED <<doc, locked, visits, clearing, queue, key, offered, day, reports, asked, wiped>>
  BY DEF Start
<1>2. /\ ~locked /\ key = NoKey /\ offered = <<>> /\ ~doubt /\ usable
      /\ content = file /\ queue = <<>> /\ visits = <<>> /\ file = OnDisk(file)
  BY <1>1 DEF IInv, Stores
<1>3. /\ usable' \in BOOLEAN /\ doubt' \in BOOLEAN /\ faults' \in 0 .. MaxFault
      /\ Kept(content', wiped, reports) /\ Kept(file', wiped, reports)
      /\ file' = OnDisk(file') /\ DOMAIN content'.of \subseteq DOMAIN content.of
      /\ usable' => usable /\ DOMAIN content'.of \cap doc.rules.off = {}
      /\ usable' /\ ~doubt' => file' = OnDisk(content')
  BY <1>1, <1>2, ReconcileKept DEF IInv
<1>4. Typed'
  <2>1. doc.rev \in Nat
    BY LearnedAssumption DEF IInv, Typed, Settings
  <2> QED
    BY <1>1, <1>3, <2>1 DEF IInv, Typed
<1>5. Told'
  <2>1. doc.rev \in Nat /\ engine.rev \in Nat /\ engine.rev <= doc.rev
    BY LearnedAssumption DEF IInv, Typed, Settings
  <2>2. \A n \in DOMAIN reports : reports[n].rev \in Nat
    BY ReportsTyped DEF IInv
  <2> QED
    BY <1>1, <2>1, <2>2 DEF IInv, Told
<1>6. Ordered'
  BY <1>1, <1>2 DEF Ordered
<1>7. Stores'
  <2>1. Offerable' = <<>>
    <3> DEFINE long(s) == {w \in DOMAIN content'.of[s].words :
                               Fields(content'.of[s].words[w]) >= OfferAfter}
    <3>1. ~Ready'
      BY <1>1, <1>2 DEF Ready
    <3>2. Offerable' = [s \in {} |-> Restrict(content'.of[s].words, long(s))]
      BY <3>1 DEF Offerable
    <3> QED
      BY <3>2
  <2> QED
    BY <1>1, <1>2, <1>3, <2>1 DEF Stores
<1>8. Kept(content, wiped, reports)' /\ Kept(file, wiped, reports)'
  BY <1>1, <1>3
<1> QED
  BY <1>4, <1>5, <1>6, <1>7, <1>8 DEF IInv

LEMMA NextKeeps == IInv /\ [Next]_learnedVars => IInv'
<1> SUFFICES ASSUME IInv, [Next]_learnedVars PROVE IInv'
  OBVIOUS
<1>1. CASE Next
  BY <1>1, UpdateKeeps, ForgetAskedKeeps, ForgetQueuedKeeps, InstallKeeps, ReplaceKeeps,
     PublishedKeeps, SweepKeeps, TakeLearnedKeeps, TakeForgetKeeps, DeliverKeyKeeps,
     NewDayKeeps, CrashKeeps, StartKeeps DEF Next
<1>2. CASE UNCHANGED learnedVars
  <2>1. Kept(content, wiped, reports)' /\ Kept(file, wiped, reports)'
    BY <1>2, KeptSame DEF learnedVars
  <2>2. Typed' /\ Told' /\ Ordered'
    BY <1>2 DEF IInv, Typed, Told, Ordered, On, learnedVars
  <2>3. Stores'
    BY <1>2, OfferableSame DEF IInv, Stores, learnedVars
  <2> QED
    BY <2>1, <2>2, <2>3 DEF IInv
<1> QED
  BY <1>1, <1>2

-----------------------------------------------------------------------------
(* What it says                                                            *)

LEMMA OfferMeans ==
    ASSUME IInv, up, ~locked, NEW s \in Subject, NEW w \in Offer(s)
    PROVE  /\ On(doc, s) /\ s \in DOMAIN content.of
           /\ w \in DOMAIN content.of[s].words
           /\ Fields(content.of[s].words[w]) >= OfferAfter
<1>1. s \in DOMAIN offered /\ w \in DOMAIN offered[s] /\ offered = Offerable
  BY DEF Offer, IInv, Stores
<1> DEFINE long(o) == {v \in DOMAIN content.of[o].words :
                           Fields(content.of[o].words[v]) >= OfferAfter}
           of == IF usable /\ Ready
                 THEN {o \in DOMAIN content.of : On(doc, o) /\ long(o) # {}} ELSE {}
<1>2. Offerable = [o \in of |-> Restrict(content.of[o].words, long(o))]
  BY DEF Offerable
<1>3. s \in of /\ w \in DOMAIN Restrict(content.of[s].words, long(s))
  BY <1>1, <1>2
<1>4. w \in long(s)
  BY <1>3 DEF Restrict
<1> QED
  BY <1>3, <1>4

LEMMA Twice == IInv => OfferTwice
<1> SUFFICES ASSUME IInv, ~locked, NEW s \in Subject, NEW w \in Offer(s)
             PROVE  \E i, j \in wiped[s] + 1 .. Len(reports) :
                        /\ reports[i].subject = s /\ reports[j].subject = s
                        /\ w \in reports[i].words /\ w \in reports[j].words
                        /\ reports[i].visit # reports[j].visit
  BY DEF OfferTwice
<1>1. up
  BY DEF IInv, Stores, Offer
<1> DEFINE said == content.of[s].words[w].reports
<1>2. said \subseteq Counting(s, w, wiped, reports) /\ Cardinality(said) >= 2
  BY <1>1, OfferMeans DEF IInv, Kept, KeptWords, Fields, OfferAfter
<1>3. /\ wiped[s] \in Nat /\ Len(reports) \in Nat
      /\ wiped[s] + 1 .. Len(reports) \subseteq DOMAIN reports
  BY DEF IInv, Typed
<1>4. IsFiniteSet(said)
  <2>1. IsFiniteSet(wiped[s] + 1 .. Len(reports))
    BY <1>3, FS_Interval
  <2>2. said \subseteq wiped[s] + 1 .. Len(reports)
    BY <1>2 DEF Counting
  <2> QED
    BY <2>1, <2>2, FS_Subset
<1> HIDE DEF said
<1>5. PICK i, j \in said : i # j
  BY <1>2, <1>4, TwoOf
<1>6. /\ i \in wiped[s] + 1 .. Len(reports) /\ j \in wiped[s] + 1 .. Len(reports)
      /\ reports[i].subject = s /\ reports[j].subject = s
      /\ w \in reports[i].words /\ w \in reports[j].words
  BY <1>2, <1>5 DEF Counting
<1>7. reports[i].visit # reports[j].visit
  BY <1>3, <1>5, <1>6 DEF IInv, Told
<1> QED
  BY <1>6, <1>7

\* Between a commit and its publication the engine's document allows what is
\* offered: it is the one the words were published under.
Window == locked => \A s \in DOMAIN offered : On(engine, s)

LEMMA OfferableOn == \A s \in DOMAIN Offerable : On(doc, s)
  BY DEF Offerable

LEMMA WindowKeeps == IInv /\ Window /\ [Next]_learnedVars => Window'
<1> SUFFICES ASSUME IInv, Window, [Next]_learnedVars PROVE Window'
  OBVIOUS
<1>1. ASSUME NEW rules \in Rules, Replace(rules) PROVE Window'
  <2>1. up /\ ~locked /\ engine = doc /\ engine' = engine /\ offered' = offered
    BY <1>1 DEF Replace, Free
  <2>2. offered = Offerable
    BY <2>1 DEF IInv, Stores
  <2> QED
    BY <2>1, <2>2, OfferableOn DEF Window, On
<1>2. CASE \/ \E f \in Field, words \in Texts : Update(f, words)
           \/ ForgetAsked \/ ForgetQueued \/ NewDay \/ UNCHANGED learnedVars
  <2>1. UNCHANGED <<locked, engine, offered>>
    BY <1>2 DEF Update, ForgetAsked, ForgetQueued, NewDay, learnedVars
  <2> QED
    BY <2>1 DEF Window, On
<1>3. CASE Install \/ Sweep \/ TakeLearned \/ TakeForget \/ \E k \in Keyring : DeliverKey(k)
  <2>1. ~locked /\ locked' = locked
    BY <1>3 DEF Install, Sweep, TakeLearned, TakeForget, DeliverKey, Taking, Free
  <2> QED
    BY <2>1 DEF Window
<1>4. CASE Published \/ Crash \/ Start
  <2>1. ~locked'
    BY <1>4 DEF Published, Crash, Start, IInv, Stores
  <2> QED
    BY <2>1 DEF Window
<1> QED
  BY <1>1, <1>2, <1>3, <1>4 DEF Next

\* The invariant gives what the runs check.
LEMMA Safe == IInv /\ Window => LearnedSafe
<1> SUFFICES ASSUME IInv, Window PROVE LearnedSafe
  OBVIOUS
<1>1. TypeOK
  BY DEF IInv, Typed, Kept, KeptWords, TypeOK
<1>2. OfferAllowed
  <2> SUFFICES ASSUME up, NEW s \in Subject, Offer(s) # {}
               PROVE  On(IF locked THEN engine ELSE doc, s)
    BY DEF OfferAllowed
  <2>1. CASE locked
    BY <2>1 DEF Offer, Window
  <2>2. CASE ~locked
    BY <2>2, OfferMeans
  <2> QED
    BY <2>1, <2>2
<1>3. OfferCurrent /\ PurgedWhereOff
  BY DEF IInv, Stores, OfferCurrent, PurgedWhereOff
<1>4. LearnedUnder
  <2>1. \A s \in Subject : wiped[s] \in Nat
    BY DEF IInv, Typed
  <2>2. Len(reports) \in Nat
    BY DEF IInv, Typed
  <2>3. ASSUME NEW s \in DOMAIN content.of, NEW w \in DOMAIN content.of[s].words,
               NEW i \in content.of[s].words[w].reports
        PROVE  i > wiped[s] /\ reports[i].subject = s
    <3>1. i \in Counting(s, w, wiped, reports) /\ s \in Subject
      BY DEF IInv, Kept, KeptWords
    <3> QED
      BY <2>1, <2>2, <3>1 DEF Counting
  <2> QED
    BY <2>3 DEF LearnedUnder
<1> QED
  BY <1>1, <1>2, <1>3, <1>4, Twice DEF LearnedSafe

\* In every state a broker can reach, for any subjects, fields, words and
\* limits: what a prompt is offered has been reported in two visits, is allowed
\* by the settings in force and is what the sealed store holds, and nothing that
\* a forget or a switch took away counts again (control_plane.rs, learned.rs).
THEOREM LearnedSafety == Spec => []LearnedSafe
<1>1. Spec => []IInv
  BY InitHolds, NextKeeps, PTL DEF Spec
<1>2. Init => Window
  BY DEF Init, Window
<1>3. Spec => []Window
  BY <1>1, <1>2, WindowKeeps, PTL DEF Spec
<1> QED
  BY <1>1, <1>3, Safe, PTL
-----------------------------------------------------------------------------
(* The counts: what is right of them                                       *)

\* A day's record, and the days of a store: every event stands in one place,
\* under its own subject or with the other ones.
OfDay(record) == \E named \in SUBSET Place :
    record \in [subjects : [named -> SUBSET Nat], other : SUBSET Nat]
About(said, s) == {i \in DOMAIN said : said[i].subject = s}

FitsDay(record, said) ==
    /\ OfDay(record) /\ record.other \subseteq DOMAIN said
    /\ Cardinality(DOMAIN record.subjects) <= DayLimit
    /\ \A s \in DOMAIN record.subjects : record.subjects[s] \subseteq About(said, s)
Sound(ds, said, last) ==
    /\ DOMAIN ds \subseteq 0 .. last
    /\ \A d \in DOMAIN ds : FitsDay(ds[d], said)
    /\ \A d, e \in DOMAIN ds : U!Total(ds[d]) \cap U!Total(ds[e]) # {} => d = e

\* An event that stands in the store was counted that day; one that was
\* counted stands there at its day, as long as that is kept.
Placed(ds, when) ==
    \A d \in DOMAIN ds : \A i \in U!Total(ds[d]) : i \in DOMAIN when /\ when[i] = d
Covered(ds, when, last) == \A i \in DOMAIN when : when[i] > last - Term =>
    when[i] \in DOMAIN ds /\ i \in U!Total(ds[when[i]])

Levels == {"normal", "quieter", "quietest"}
Event == [subject : Place, kind : {"shown", "accepted"}, rev : Nat]
Awaited == [op : {"count", "flush", "forget"}, id : Nat]

UsageTyped ==
    /\ grants \in Seq(Consents \cup {Given}) /\ Len(grants) \in 1 .. MaxCommit + 1
    /\ installed \in {U!Rev, U!Rev - 1} /\ installed \in Nat
    /\ countQueue \in Seq(Awaited)
    /\ {countsUsable, dirty, torn} \subseteq BOOLEAN
    /\ date \in Nat /\ latest \in {date, date + 1}
    /\ level \in [Place -> Levels] /\ carried \subseteq Place
    /\ happened \in Seq(Event)
    /\ countsAsked \in 0 .. MaxAsk /\ countFaults \in 0 .. MaxFailure

CountsRight ==
    /\ Sound(days, happened, latest) /\ Sound(countFile, happened, latest)
    /\ ~countsUsable => days = <<>>
    /\ DOMAIN counted \cup saved \subseteq DOMAIN happened
    /\ \A i \in DOMAIN counted : counted[i] \in 0 .. latest
    /\ Placed(days, counted)
    /\ countsUsable => Covered(days, counted, latest)

\* A removal that failed left memory empty.
FlushRight == U!FlushSurvives /\ (countsUsable /\ ~dirty /\ torn => days = <<>>)

\* What waits to be counted was neither counted nor saved, and waits once.
WaitRight == \A k \in DOMAIN countQueue : countQueue[k].op = "count" =>
    /\ countQueue[k].id \in DOMAIN happened \ (DOMAIN counted \cup saved)
    /\ \A l \in DOMAIN countQueue :
        countQueue[l].op = "count" /\ countQueue[l].id = countQueue[k].id => l = k

Standing(s) == level[s] # "normal" /\ s \notin carried => U!Shown(U!Since(s)) >= MinShown
LevelsRight == \A s \in Place : Standing(s)

UsageInv == UsageTyped /\ CountsRight /\ FlushRight /\ WaitRight /\ LevelsRight
CountsInv == part = "counts" => UsageInv

-----------------------------------------------------------------------------
(* The counts: their operators                                             *)

LEMMA SameNumber == \A S : U!Cardinality(S) = Cardinality(S)
  BY DEF U!Cardinality, Cardinality

LEMMA SameRestrict == \A f, S : U!Restrict(f, S) = Restrict(f, S)
  BY DEF U!Restrict, Restrict

\* Where an event stands in a day's record.
LEMMA InTotal ==
    ASSUME NEW r, NEW i
    PROVE  i \in U!Total(r) <=> i \in r.other \/ \E s \in DOMAIN r.subjects : i \in r.subjects[s]
  BY DEF U!Total, U!Range

LEMMA InIds ==
    ASSUME NEW ds, NEW i
    PROVE  i \in U!Ids(ds) <=> \E d \in DOMAIN ds : i \in U!Total(ds[d])
  BY DEF U!Ids

\* Numbers of events shown and accepted.
LEMMA Amounts ==
    ASSUME happened \in Seq(Event), NEW ids \in SUBSET DOMAIN happened
    PROVE  /\ IsFiniteSet(ids)
           /\ U!Shown(ids) \in Nat /\ U!Accepted(ids) \in Nat
<1>1. IsFiniteSet(DOMAIN happened)
  <2>1. DOMAIN happened = 1 .. Len(happened) /\ Len(happened) \in Nat
    OBVIOUS
  <2> QED
    BY <2>1, FS_Interval
<1>2. IsFiniteSet(ids)
  BY <1>1, FS_Subset
<1> DEFINE shown == {i \in ids : happened[i].kind = "shown"}
<1>3. IsFiniteSet(shown) /\ Cardinality(shown) <= Cardinality(ids)
  BY <1>2, FS_Subset
<1>4. Cardinality(ids) \in Nat /\ Cardinality(shown) \in Nat
  BY <1>2, <1>3, FS_CardinalityType
<1>5. U!Shown(ids) = Cardinality(shown) /\ U!Accepted(ids) = Cardinality(ids) - Cardinality(shown)
  BY SameNumber DEF U!Shown, U!Accepted
<1> HIDE DEF shown
<1> QED
  BY <1>2, <1>3, <1>4, <1>5

LEMMA MoreShown ==
    ASSUME happened \in Seq(Event), NEW more \in SUBSET DOMAIN happened,
           NEW ids \in SUBSET more
    PROVE  U!Shown(ids) <= U!Shown(more)
<1> DEFINE in(S) == {i \in S : happened[i].kind = "shown"}
<1>1. IsFiniteSet(in(more)) /\ in(ids) \subseteq in(more)
  BY Amounts, FS_Subset
<1>2. Cardinality(in(ids)) <= Cardinality(in(more))
  BY <1>1, FS_Subset
<1> QED
  BY <1>2, SameNumber DEF U!Shown

\* Days are right whatever happens later.
LEMMA SoundLater ==
    ASSUME NEW ds, NEW said \in Seq(Event), NEW e \in Event, NEW last \in Nat,
           Sound(ds, said, last)
    PROVE  Sound(ds, Append(said, e), last) /\ Sound(ds, said, last + 1)
<1>1. DOMAIN said \subseteq DOMAIN Append(said, e)
      /\ \A i \in DOMAIN said : Append(said, e)[i] = said[i]
  OBVIOUS
<1>2. \A s : About(said, s) \subseteq About(Append(said, e), s)
  BY <1>1 DEF About
<1>3. \A d \in DOMAIN ds : FitsDay(ds[d], Append(said, e))
  BY <1>1, <1>2 DEF Sound, FitsDay
<1>4. 0 .. last \subseteq 0 .. last + 1
  OBVIOUS
<1> QED
  BY <1>3, <1>4 DEF Sound

LEMMA Nowhere ==
    ASSUME NEW ds, DOMAIN ds = {}, NEW said, NEW when, NEW last
    PROVE  Sound(ds, said, last) /\ Placed(ds, when) /\ U!Ids(ds) = {}
  BY DEF Sound, Placed, U!Ids

\* What is retained keeps what the last days have.
LEMMA ReconciledRight ==
    ASSUME UsageTyped, NEW ds, Sound(ds, happened, latest)
    PROVE  LET left == U!Reconciled(ds) IN
           /\ DOMAIN left \subseteq DOMAIN ds /\ \A d \in DOMAIN left : left[d] = ds[d]
           /\ \A d \in DOMAIN ds : d > latest - Term => d \in DOMAIN left
           /\ Sound(left, happened, latest)
           /\ \A when : Placed(ds, when) => Placed(left, when)
           /\ \A when : Covered(ds, when, latest) => Covered(left, when, latest)
           /\ U!Ids(left) \subseteq U!Ids(ds)
<1> DEFINE left == U!Reconciled(ds)
<1>1. DOMAIN left = {d \in DOMAIN ds : U!Within(d)} /\ \A d \in DOMAIN left : left[d] = ds[d]
  BY DEF U!Reconciled, U!Restrict
<1>2. ASSUME NEW d \in DOMAIN ds, d > latest - Term PROVE d \in DOMAIN left
  <2>1. d \in 0 .. latest /\ date \in Nat /\ latest \in {date, date + 1} /\ Term \in Nat
    BY UsageAssumption DEF Sound, UsageTyped
  <2>2. d > date - Term /\ d <= date + 1
    BY <1>2, <2>1
  <2> QED
    BY <1>1, <2>2 DEF U!Within
<1> HIDE DEF left
<1>3. Sound(left, happened, latest)
  BY <1>1 DEF Sound
<1>4. \A when : Placed(ds, when) => Placed(left, when)
  BY <1>1 DEF Placed
<1>5. \A when : Covered(ds, when, latest) => Covered(left, when, latest)
  BY <1>1, <1>2 DEF Covered
<1>6. U!Ids(left) \subseteq U!Ids(ds)
  BY <1>1, InIds
<1> QED
  BY <1>1, <1>2, <1>3, <1>4, <1>5, <1>6 DEF left

\* A day's record with one event more.
LEMMA WithRight ==
    ASSUME NEW said, NEW r, FitsDay(r, said), NEW id \in DOMAIN said, id \in Nat,
           said[id].subject \in Place
    PROVE  LET new == U!With(r, said[id].subject, id) IN
           FitsDay(new, said) /\ \A i : i \in U!Total(new) <=> i \in U!Total(r) \/ i = id
<1> DEFINE s == said[id].subject
           new == U!With(r, s, id)
<1>1. PICK named \in SUBSET Place : r \in [subjects : [named -> SUBSET Nat], other : SUBSET Nat]
  BY DEF FitsDay, OfDay
<1>2. DOMAIN r.subjects = named /\ IsFiniteSet(named) /\ Cardinality(named) \in Nat
  BY <1>1, UsageAssumption, FS_Subset, FS_CardinalityType
<1>3. CASE s \in named \/ U!Cardinality(named) < DayLimit
  <2> DEFINE more == [t \in named \cup {s} |->
                       (IF t \in named THEN r.subjects[t] ELSE {}) \cup (IF t = s THEN {id} ELSE {})]
  <2>1. new = [r EXCEPT !.subjects = more]
    BY <1>2, <1>3 DEF U!With
  <2>2. new.subjects = more /\ new.other = r.other
    BY <1>1, <2>1
  <2>3. more \in [named \cup {s} -> SUBSET Nat] /\ named \cup {s} \in SUBSET Place
    BY <1>1
  <2>4. new \in [subjects : [named \cup {s} -> SUBSET Nat], other : SUBSET Nat]
    BY <1>1, <2>1, <2>3
  <2>5. Cardinality(named \cup {s}) <= DayLimit
    <3>1. CASE s \in named
      <4>1. named \cup {s} = named
        BY <3>1
      <4> QED
        BY <1>2, <4>1 DEF FitsDay
    <3>2. CASE s \notin named
      <4>1. Cardinality(named \cup {s}) = Cardinality(named) + 1
        BY <1>2, <3>2, FS_AddElement
      <4>2. Cardinality(named) < DayLimit /\ DayLimit \in Nat
        BY <1>3, <3>2, SameNumber, UsageAssumption
      <4> QED
        BY <1>2, <4>1, <4>2
    <3> QED
      BY <3>1, <3>2
  <2>6. \A t \in named \cup {s} : more[t] \subseteq About(said, t)
    BY <1>2 DEF FitsDay, About
  <2>7. FitsDay(new, said)
    BY <2>2, <2>3, <2>4, <2>5, <2>6 DEF FitsDay, OfDay
  <2>8. \A i : (\E t \in named \cup {s} : i \in more[t])
                 <=> i = id \/ \E t \in named : i \in r.subjects[t]
    OBVIOUS
  <2> HIDE DEF more, new
  <2>9. DOMAIN new.subjects = named \cup {s}
    BY <2>2 DEF more
  <2> QED
    BY <1>2, <2>2, <2>7, <2>8, <2>9, InTotal DEF new
<1>4. CASE ~(s \in named \/ U!Cardinality(named) < DayLimit)
  <2>1. new = [r EXCEPT !.other = @ \cup {id}]
    BY <1>2, <1>4 DEF U!With
  <2>2. new.subjects = r.subjects /\ new.other = r.other \cup {id}
    BY <1>1, <2>1
  <2>3. new \in [subjects : [named -> SUBSET Nat], other : SUBSET Nat]
    BY <1>1, <2>1
  <2>4. FitsDay(new, said)
    BY <2>2, <2>3 DEF FitsDay, OfDay
  <2> HIDE DEF new
  <2> QED
    BY <2>2, <2>4, InTotal DEF new
<1> QED
  BY <1>3, <1>4

\* The record of today with one event more, in the days that are retained.
LEMMA RecordedRight ==
    ASSUME UsageTyped, CountsRight, countsUsable,
           NEW id \in DOMAIN happened, id \notin DOMAIN counted
    PROVE  LET new == U!Recorded(happened[id].subject, id)
               when == [i \in DOMAIN counted \cup {id} |->
                           IF i = id THEN date ELSE counted[i]]
           IN  Sound(new, happened, latest) /\ Placed(new, when) /\ Covered(new, when, latest)
<1> DEFINE s == happened[id].subject
           left == U!Reconciled(days)
           base == IF date \in DOMAIN left THEN left[date] ELSE U!NoDay
           record == U!With(base, s, id)
           new == U!Recorded(s, id)
           when == [i \in DOMAIN counted \cup {id} |-> IF i = id THEN date ELSE counted[i]]
<1>1. /\ DOMAIN left \subseteq DOMAIN days /\ \A d \in DOMAIN left : left[d] = days[d]
      /\ Sound(left, happened, latest) /\ Placed(left, counted)
      /\ Covered(left, counted, latest)
  BY ReconciledRight DEF CountsRight
<1>2. id \in Nat /\ s \in Place /\ date \in 0 .. latest
  <2>1. happened \in Seq(Event) /\ date \in Nat /\ latest \in {date, date + 1}
    BY DEF UsageTyped
  <2>2. DOMAIN happened = 1 .. Len(happened) /\ Len(happened) \in Nat /\ happened[id] \in Event
    BY <2>1
  <2> QED
    BY <2>1, <2>2 DEF Event
<1>3. /\ DOMAIN new = DOMAIN left \cup {date} /\ new[date] = record
      /\ \A d \in DOMAIN left : d # date => new[d] = left[d]
  <2>1. new = [d \in DOMAIN left \cup {date} |-> IF d = date THEN record ELSE left[d]]
    BY DEF U!Recorded
  <2> HIDE DEF new, left, record
  <2> QED
    BY <2>1
<1> HIDE DEF left, new
<1>4. FitsDay(base, happened)
  <2>1. CASE date \in DOMAIN left
    BY <1>1, <2>1 DEF Sound
  <2>2. CASE date \notin DOMAIN left
    <3>1. base = [subjects |-> <<>>, other |-> {}]
      BY <2>2 DEF U!NoDay
    <3> HIDE DEF base
    <3>2. <<>> \in [{} -> SUBSET Nat] /\ DOMAIN base.subjects = {} /\ base.other = {}
      BY <3>1
    <3>3. base \in [subjects : [{} -> SUBSET Nat], other : SUBSET Nat]
      BY <3>1, <3>2
    <3>4. Cardinality({}) <= DayLimit
      BY FS_EmptySet, UsageAssumption
    <3> QED
      BY <3>2, <3>3, <3>4 DEF FitsDay, OfDay
  <2> QED
    BY <2>1, <2>2
<1>5. \A i : i \in U!Total(base) =>
          date \in DOMAIN left /\ base = left[date] /\ i \in U!Total(left[date])
  <2>1. \A i : i \notin U!Total(U!NoDay)
    BY InTotal DEF U!NoDay
  <2> QED
    BY <2>1
<1>6. date \in DOMAIN left => base = left[date]
  OBVIOUS
<1> HIDE DEF base
<1>7. FitsDay(record, happened) /\ \A i : i \in U!Total(record) <=> i \in U!Total(base) \/ i = id
  BY <1>2, <1>4, WithRight
<1> HIDE DEF record
<1>8. \A d \in DOMAIN left : id \notin U!Total(left[d])
  BY <1>1 DEF Placed
<1>9. \A d \in DOMAIN new : \A i : i \in U!Total(new[d]) <=>
          (d \in DOMAIN left /\ i \in U!Total(left[d])) \/ (d = date /\ i = id)
  BY <1>3, <1>5, <1>6, <1>7
<1>10. Sound(new, happened, latest)
  <2>1. DOMAIN new \subseteq 0 .. latest
    BY <1>1, <1>2, <1>3 DEF Sound
  <2>2. \A d \in DOMAIN new : FitsDay(new[d], happened)
    BY <1>1, <1>3, <1>7 DEF Sound
  <2>3. ASSUME NEW d \in DOMAIN new, NEW e \in DOMAIN new,
               U!Total(new[d]) \cap U!Total(new[e]) # {}
        PROVE  d = e
    <3>1. PICK i : i \in U!Total(new[d]) /\ i \in U!Total(new[e])
      BY <2>3
    <3> QED
      BY <1>1, <1>8, <1>9, <3>1 DEF Sound
  <2> QED
    BY <2>1, <2>2, <2>3 DEF Sound
<1>11. Placed(new, when)
  BY <1>1, <1>8, <1>9 DEF Placed
<1>12. Covered(new, when, latest)
  <2>1. ASSUME NEW i \in DOMAIN when, when[i] > latest - Term
        PROVE  when[i] \in DOMAIN new /\ i \in U!Total(new[when[i]])
    <3>1. CASE i = id
      BY <1>3, <1>9, <3>1
    <3>2. CASE i # id
      <4>1. i \in DOMAIN counted /\ when[i] = counted[i]
        BY <3>2
      <4>2. when[i] \in DOMAIN left /\ i \in U!Total(left[when[i]])
        BY <1>1, <2>1, <4>1 DEF Covered
      <4> QED
        BY <1>3, <1>9, <4>2
    <3> QED
      BY <3>1, <3>2
  <2> QED
    BY <2>1 DEF Covered
<1> QED
  BY <1>10, <1>11, <1>12 DEF new

\* What the records of a subject count was counted of it.
LEMMA OfSince ==
    ASSUME UsageTyped, CountsRight, NEW s, NEW window
    PROVE  U!Of(days, window, s) \subseteq U!Since(s) /\ U!Since(s) \subseteq DOMAIN happened
<1>1. ASSUME NEW d \in DOMAIN days, s \in DOMAIN days[d].subjects,
             NEW i \in days[d].subjects[s]
      PROVE  i \in U!Since(s)
  <2>1. i \in U!Total(days[d]) /\ happened[i].subject = s
    BY <1>1, InTotal DEF CountsRight, Sound, FitsDay, About
  <2> QED
    BY <2>1 DEF CountsRight, Placed, U!Since
<1> QED
  BY <1>1 DEF U!Of, U!Since, CountsRight

\* The next level of quietness, and no way back from it with the same counts.
LEMMA NextLevelRight ==
    ASSUME NEW l \in Levels, NEW shown \in Nat, NEW accepted \in Nat
    PROVE  /\ U!NextLevel(l, shown, accepted) \in Levels
           /\ shown < MinShown =>
                U!NextLevel(l, shown, accepted) = IF shown = 0 THEN "normal" ELSE l
           /\ U!NextLevel(l, shown, accepted) # l =>
                U!NextLevel(U!NextLevel(l, shown, accepted), shown, accepted) # l
<1> DEFINE percent == (accepted * 100) \div shown
<1>1. MinShown \in Nat \ {0} /\ {Lowest, Low, High} \subseteq Nat /\ Low <= High
  BY UsageAssumption
<1>2. CASE shown = 0
  <2>1. ~(shown >= MinShown) /\ shown \notin 1 .. MinShown - 1
    BY <1>1, <1>2
  <2>2. \A m \in Levels : U!NextLevel(m, shown, accepted) = "normal"
    BY <1>2, <2>1, Zenon DEF U!NextLevel
  <2> QED
    BY <1>1, <1>2, <2>2 DEF Levels
<1>3. CASE shown \in 1 .. MinShown - 1
  <2>1. shown # 0 /\ ~(shown >= MinShown)
    BY <1>1, <1>3
  <2>2. \A m \in Levels : U!NextLevel(m, shown, accepted) = m
    BY <1>3, <2>1, Zenon DEF U!NextLevel
  <2> QED
    BY <1>1, <1>3, <2>1, <2>2
<1>4. CASE shown >= MinShown
  <2>1. percent \in Int
    <3>1. accepted * 100 \in Int /\ shown \in Nat \ {0}
      BY <1>1, <1>4
    <3> DEFINE product == accepted * 100
    <3> HIDE DEF product
    <3> QED
      BY <3>1 DEF product
  <2>2. shown # 0 /\ shown \notin 1 .. MinShown - 1
    BY <1>1, <1>4
  <2>3. \A m \in Levels : U!NextLevel(m, shown, accepted) =
            IF percent < Lowest THEN "quietest"
            ELSE CASE m = "normal" /\ percent < Low -> "quieter"
                   [] m = "quieter" /\ percent >= High -> "normal"
                   [] m = "quietest" /\ percent >= Low -> "quieter"
                   [] OTHER -> m
    <3> TAKE m \in Levels
    <3> HIDE DEF percent
    <3>1. CASE percent < Lowest
      BY <1>1, <1>4, <2>1, <2>2, <3>1 DEF U!NextLevel, percent
    <3>2. CASE ~(percent < Lowest)
      <4>1. percent >= Lowest
        BY <1>1, <2>1, <3>2
      <4> QED
        BY <1>1, <1>4, <2>2, <3>2, <4>1 DEF U!NextLevel, percent
    <3> QED
      BY <3>1, <3>2
  <2> HIDE DEF percent
  <2>4. ~(shown < MinShown)
    BY <1>1, <1>4
  <2> QED
    BY <1>1, <2>1, <2>3, <2>4 DEF Levels
<1> QED
  BY <1>1, <1>2, <1>3, <1>4

\* The subjects a window names: there are as many as it may name ahead of any
\* other one.
LEMMA LeadersAhead ==
    ASSUME UsageTyped, CountsRight, NEW window, NEW s \in Place \ U!Leading(window),
           U!Of(days, window, s) # {}
    PROVE  Cardinality({t \in U!Leading(window) :
                U!Accepted(U!Of(days, window, t)) >= U!Accepted(U!Of(days, window, s))})
              >= NameLimit
<1> DEFINE ids(t) == U!Of(days, window, t)
           S == {t \in Place : ids(t) # {}}
           R == {p \in S \X S : U!Outranks(ids(p[1]), ids(p[2]), p[1], p[2])}
           Ahead(t) == {u \in S : <<u, t>> \in R}
           T == {t \in S : Cardinality(Ahead(t)) < NameLimit}
<1>1. IsFiniteSet(S) /\ S \subseteq Nat /\ NameLimit \in Nat
  BY UsageAssumption, FS_Subset
<1>2. \A t \in S : U!Accepted(ids(t)) \in Nat /\ U!Shown(ids(t)) \in Nat
  BY OfSince, Amounts DEF UsageTyped
<1>3. \A t, u \in S : <<t, u>> \in R <=>
        \/ U!Accepted(ids(t)) > U!Accepted(ids(u))
        \/ U!Accepted(ids(t)) = U!Accepted(ids(u)) /\ U!Shown(ids(t)) > U!Shown(ids(u))
        \/ U!Accepted(ids(t)) = U!Accepted(ids(u)) /\ U!Shown(ids(t)) = U!Shown(ids(u)) /\ t < u
  BY DEF U!Outranks
<1>4. T = U!Leading(window)
  <2>1. \A t \in S : Ahead(t) = {u \in Place : ids(u) # {} /\ U!Outranks(ids(u), ids(t), u, t)}
    OBVIOUS
  <2>2. T = {t \in S : Cardinality({u \in Place : ids(u) # {} /\
                            U!Outranks(ids(u), ids(t), u, t)}) < NameLimit}
    BY <2>1
  <2> QED
    BY <2>2, SameNumber DEF U!Leading
<1>5. s \in S \ T
  BY <1>4
<1>6. \A t \in S : IsFiniteSet(Ahead(t)) /\ Cardinality(Ahead(t)) \in Nat /\ Ahead(t) \in SUBSET S
  <2> TAKE t \in S
  <2>1. Ahead(t) \subseteq S
    OBVIOUS
  <2> HIDE DEF Ahead
  <2> QED
    BY <1>1, <2>1, FS_Subset, FS_CardinalityType
<1> HIDE DEF ids, R
<1>7. /\ \A x \in S : <<x, x>> \notin R
      /\ \A x, y \in S : x = y \/ <<x, y>> \in R \/ <<y, x>> \in R
  BY <1>1, <1>2, <1>3
<1>8. \A x, y, z \in S : <<x, y>> \in R /\ <<y, z>> \in R => <<x, z>> \in R
  BY <1>1, <1>2, <1>3
<1>9. NameLimit \in 0 .. Cardinality(S)
  <2>0. s \in S /\ ~(Cardinality(Ahead(s)) < NameLimit) /\ Cardinality(Ahead(s)) \in Nat
    BY <1>5, <1>6
  <2> HIDE DEF S, T, Ahead
  <2>1. Cardinality(Ahead(s)) >= NameLimit
    BY <1>1, <2>0
  <2>2. Cardinality(Ahead(s)) <= Cardinality(S) /\ Cardinality(S) \in Nat
    BY <1>1, <1>5, <1>6, FS_Subset, FS_CardinalityType
  <2> QED
    BY <1>1, <1>5, <1>6, <2>1, <2>2
<1> HIDE DEF S
<1>10. Cardinality(T) >= NameLimit
  <2>1. \A k \in 0 .. Cardinality(S) :
          Cardinality({x \in S : Cardinality({y \in S : <<y, x>> \in R}) < k}) >= k
    BY <1>1, <1>7, <1>8, Ranks
  <2> QED
    BY <1>9, <2>1
<1>11. ASSUME NEW t \in T PROVE U!Accepted(ids(t)) >= U!Accepted(ids(s))
  <2>1. t # s /\ t \in S
    BY <1>5
  <2>2. CASE <<t, s>> \in R
    BY <1>2, <1>3, <1>5, <2>1, <2>2
  <2>3. CASE <<s, t>> \in R
    <3>1. Ahead(s) \subseteq Ahead(t)
      BY <1>5, <1>8, <2>1, <2>3
    <3>2. Cardinality(Ahead(s)) <= Cardinality(Ahead(t))
      BY <1>6, <2>1, <3>1, FS_Subset
    <3>3. Cardinality(Ahead(t)) < NameLimit /\ ~(Cardinality(Ahead(s)) < NameLimit)
      BY <1>5
    <3> QED
      BY <1>1, <1>5, <1>6, <2>1, <3>2, <3>3
  <2> QED
    BY <1>5, <1>7, <2>1, <2>2, <2>3
<1>12. {t \in T : U!Accepted(ids(t)) >= U!Accepted(ids(s))} = T
  BY <1>11
<1> QED
  BY <1>4, <1>10, <1>12 DEF ids

-----------------------------------------------------------------------------
(* The counts: their steps                                                 *)

\* Steps that leave a part of the state alone.
LEMMA SameCounts ==
    ASSUME UsageInv,
           UNCHANGED <<countsUsable, days, dirty, countFile, latest, happened, counted,
                       saved, torn>>
    PROVE  CountsRight' /\ FlushRight'
<1>1. CountsRight'
  <2>1. Sound(days, happened, latest)' /\ Sound(countFile, happened, latest)'
    BY DEF UsageInv, CountsRight
  <2>2. Placed(days, counted)' /\ (countsUsable => Covered(days, counted, latest))'
    BY DEF UsageInv, CountsRight
  <2> QED
    BY <2>1, <2>2 DEF UsageInv, CountsRight
<1>2. FlushRight'
  BY DEF UsageInv, FlushRight, U!FlushSurvives, U!Recent, U!Ids, U!Total, U!Range
<1> QED
  BY <1>1, <1>2

LEMMA SameLevels ==
    ASSUME UsageInv, UNCHANGED <<level, carried, happened, counted>>
    PROVE  LevelsRight'
  BY DEF UsageInv, LevelsRight, Standing, U!Shown, U!Since

LEMMA SameWait ==
    ASSUME UsageInv, UNCHANGED <<countQueue, happened, counted, saved>>
    PROVE  WaitRight'
  BY DEF UsageInv, WaitRight

\* The next command of the queue is the worker's.
LEMMA TakenWait ==
    ASSUME UsageInv, NEW op, U!Taking(op), DOMAIN happened \subseteq DOMAIN happened',
           DOMAIN counted' \cup saved' \subseteq
              DOMAIN counted \cup saved \cup (IF op = "count" THEN {Head(countQueue).id} ELSE {})
    PROVE  countQueue' \in Seq(Awaited) /\ WaitRight'
<1>1. countQueue \in Seq(Awaited) /\ countQueue # <<>> /\ countQueue' = Tail(countQueue)
      /\ countQueue[1].op = op /\ Head(countQueue) = countQueue[1]
  BY DEF U!Taking, UsageInv, UsageTyped
<1>2. /\ countQueue' \in Seq(Awaited) /\ 1 \in DOMAIN countQueue
      /\ \A k \in DOMAIN countQueue' :
            k \in Nat /\ k # 0 /\ k + 1 \in DOMAIN countQueue /\ countQueue'[k] = countQueue[k + 1]
  BY <1>1
<1>3. ASSUME NEW k \in DOMAIN countQueue', countQueue'[k].op = "count"
      PROVE  /\ countQueue'[k].id \in DOMAIN happened' \ (DOMAIN counted' \cup saved')
             /\ \A l \in DOMAIN countQueue' : countQueue'[l].op = "count"
                   /\ countQueue'[l].id = countQueue'[k].id => l = k
  <2>1. /\ countQueue[k + 1].id \in DOMAIN happened \ (DOMAIN counted \cup saved)
        /\ \A l \in DOMAIN countQueue :
            countQueue[l].op = "count" /\ countQueue[l].id = countQueue[k + 1].id => l = k + 1
    BY <1>2, <1>3 DEF UsageInv, WaitRight
  <2>2. op = "count" => countQueue[k + 1].id # Head(countQueue).id
    BY <1>1, <1>2, <2>1
  <2>3. \A l \in DOMAIN countQueue' : l + 1 = k + 1 => l = k
    BY <1>2
  <2> QED
    BY <1>2, <2>1, <2>2, <2>3
<1> QED
  BY <1>2, <1>3 DEF WaitRight

LEMMA HappenKeeps ==
    ASSUME UsageInv, NEW s \in Place, NEW kind \in {"shown", "accepted"}, U!Happen(s, kind)
    PROVE  UsageInv'
<1> DEFINE e == [subject |-> s, kind |-> kind, rev |-> installed]
           n == Len(happened) + 1
           c == [op |-> "count", id |-> n]
<1>1. /\ happened' = Append(happened, e) /\ countQueue' = Append(countQueue, c)
      /\ UNCHANGED <<grants, installed, countsUsable, days, dirty, countFile, date, latest,
                     level, carried, counted, saved, torn, countsAsked, countFaults>>
  BY DEF U!Happen, U!Queue
<1>2. e \in Event /\ happened \in Seq(Event) /\ Len(happened) \in Nat
  BY DEF UsageInv, UsageTyped, Event
<1>3. c \in Awaited /\ countQueue \in Seq(Awaited)
  BY <1>2 DEF UsageInv, UsageTyped, Awaited
<1>4. /\ happened' \in Seq(Event) /\ n \notin DOMAIN happened
      /\ DOMAIN happened' = DOMAIN happened \cup {n}
      /\ \A i \in DOMAIN happened : happened'[i] = happened[i]
  BY <1>1, <1>2
<1>5. /\ countQueue' \in Seq(Awaited) /\ Len(countQueue) \in Nat
      /\ DOMAIN countQueue = 1 .. Len(countQueue)
      /\ DOMAIN countQueue' = DOMAIN countQueue \cup {Len(countQueue) + 1}
      /\ \A k \in DOMAIN countQueue : countQueue'[k] = countQueue[k]
      /\ countQueue'[Len(countQueue) + 1] = c
  BY <1>1, <1>3
<1>6. UsageTyped'
  BY <1>1, <1>4, <1>5 DEF UsageInv, UsageTyped, U!Rev
<1>7. CountsRight'
  <2>1. latest \in Nat
    BY DEF UsageInv, UsageTyped
  <2>2. Sound(days, happened', latest) /\ Sound(countFile, happened', latest)
    BY <1>1, <1>2, <2>1, SoundLater DEF UsageInv, CountsRight
  <2>3. Placed(days, counted)' /\ (countsUsable => Covered(days, counted, latest))'
    BY <1>1 DEF UsageInv, CountsRight
  <2>4. DOMAIN counted' \cup saved' \subseteq DOMAIN happened'
    BY <1>1, <1>4 DEF UsageInv, CountsRight
  <2> QED
    BY <1>1, <2>2, <2>3, <2>4 DEF UsageInv, CountsRight
<1>8. FlushRight'
  BY <1>1 DEF UsageInv, FlushRight, U!FlushSurvives, U!Recent, U!Ids, U!Total, U!Range
<1>9. WaitRight'
  <2>1. n \notin DOMAIN counted \cup saved
    BY <1>4 DEF UsageInv, CountsRight
  <2>2. \A k \in DOMAIN countQueue : countQueue[k].op = "count" => countQueue[k].id # n
    BY <1>4 DEF UsageInv, WaitRight
  <2> HIDE DEF n
  <2>3. c.op = "count" /\ c.id = n
    OBVIOUS
  <2> HIDE DEF c
  <2> QED
    BY <1>1, <1>4, <1>5, <2>1, <2>2, <2>3 DEF UsageInv, WaitRight
<1>10. LevelsRight'
  <2>1. \A t \in Place : U!Since(t)' = U!Since(t) /\ U!Since(t) \subseteq DOMAIN happened
    BY <1>1, <1>4 DEF U!Since, UsageInv, CountsRight
  <2>2. \A t \in Place : U!Shown(U!Since(t))' = U!Shown(U!Since(t))
    <3> TAKE t \in Place
    <3>1. {i \in U!Since(t)' : happened'[i].kind = "shown"} =
            {i \in U!Since(t) : happened[i].kind = "shown"}
      BY <1>4, <2>1
    <3> QED
      BY <3>1 DEF U!Shown, U!Cardinality
  <2> QED
    BY <1>1, <2>2 DEF UsageInv, LevelsRight, Standing
<1> QED
  BY <1>6, <1>7, <1>8, <1>9, <1>10 DEF UsageInv

LEMMA AskKeeps ==
    ASSUME UsageInv, NEW op \in {"flush", "forget"}, U!Ask(op)
    PROVE  UsageInv'
<1> DEFINE c == [op |-> op, id |-> Len(happened)]
<1>1. /\ countQueue' = Append(countQueue, c) /\ countsAsked < MaxAsk
      /\ countsAsked' = countsAsked + 1
      /\ UNCHANGED <<grants, installed, countsUsable, days, dirty, countFile, date, latest,
                     level, carried, happened, counted, saved, torn, countFaults>>
  BY DEF U!Ask, U!Queue
<1>2. c \in Awaited /\ countQueue \in Seq(Awaited) /\ c.op # "count"
  <2>1. Len(happened) \in Nat
    BY DEF UsageInv, UsageTyped
  <2> QED
    BY <2>1 DEF UsageInv, UsageTyped, Awaited
<1> HIDE DEF c
<1>3. /\ countQueue' \in Seq(Awaited) /\ Len(countQueue) \in Nat
      /\ DOMAIN countQueue = 1 .. Len(countQueue)
      /\ DOMAIN countQueue' = DOMAIN countQueue \cup {Len(countQueue) + 1}
      /\ \A k \in DOMAIN countQueue : countQueue'[k] = countQueue[k]
      /\ countQueue'[Len(countQueue) + 1] = c
  BY <1>1, <1>2
<1>4. UsageTyped'
  <2>1. countsAsked' \in 0 .. MaxAsk
    <3>1. countsAsked \in 0 .. MaxAsk /\ MaxAsk \in Nat
      BY UsageAssumption DEF UsageInv, UsageTyped
    <3> QED
      BY <1>1, <3>1
  <2> QED
    BY <1>1, <1>3, <2>1 DEF UsageInv, UsageTyped, U!Rev
<1>5. WaitRight'
  BY <1>1, <1>2, <1>3 DEF UsageInv, WaitRight
<1> QED
  BY <1>1, <1>4, <1>5, SameCounts, SameLevels DEF UsageInv

LEMMA SettingsKeep ==
    ASSUME UsageInv, U!Install \/ \E g \in Consents : U!Commit(g)
    PROVE  UsageInv'
<1>1. UNCHANGED <<countQueue, countsUsable, days, dirty, countFile, date, latest, level,
                  carried, happened, counted, saved, torn, countsAsked, countFaults>>
  BY DEF U!Install, U!Commit
<1>2. grants \in Seq(Consents \cup {Given}) /\ Len(grants) \in 1 .. MaxCommit + 1
      /\ MaxCommit \in Nat
  BY UsageAssumption DEF UsageInv, UsageTyped
<1>3. /\ grants' \in Seq(Consents \cup {Given}) /\ Len(grants') \in 1 .. MaxCommit + 1
      /\ installed' \in {U!Rev', U!Rev' - 1} /\ installed' \in Nat
  <2>1. CASE U!Install
    BY <1>2, <2>1 DEF U!Install, U!Rev
  <2>2. CASE \E g \in Consents : U!Commit(g)
    <3>1. PICK g \in Consents : U!Commit(g)
      BY <2>2
    <3>2. /\ grants' = Append(grants, g) /\ installed' = installed
          /\ installed = Len(grants) - 1 /\ Len(grants) - 1 < MaxCommit
      BY <3>1 DEF U!Commit, U!Rev
    <3>3. grants' \in Seq(Consents \cup {Given}) /\ Len(grants') = Len(grants) + 1
      BY <1>2, <3>2
    <3> QED
      BY <1>2, <3>2, <3>3 DEF U!Rev
  <2> QED
    BY <2>1, <2>2
<1>4. UsageTyped'
  BY <1>1, <1>3 DEF UsageInv, UsageTyped
<1> QED
  BY <1>1, <1>4, SameCounts, SameLevels, SameWait DEF UsageInv

LEMMA ReadLevelKeeps ==
    ASSUME UsageInv, NEW s \in Place, U!ReadLevel(s)
    PROVE  UsageInv'
<1> DEFINE read == U!Judged(level[s], s)
           ids == U!Of(days, U!LastDays, s)
<1>1. UNCHANGED <<grants, installed, countQueue, countsUsable, days, dirty, countFile, date,
                  latest, happened, counted, saved, torn, countsAsked, countFaults>>
  BY DEF U!ReadLevel
<1>2. level \in [Place -> Levels] /\ carried \subseteq Place /\ MinShown \in Nat \ {0}
  BY UsageAssumption DEF UsageInv, UsageTyped
<1>3. /\ level' = IF countsUsable THEN [level EXCEPT ![s] = read] ELSE level
      /\ carried' = IF U!Shown(U!Since(s)) >= MinShown \/ level'[s] = "normal"
                    THEN carried \ {s} ELSE carried
  BY DEF U!ReadLevel
<1>4. /\ ids \subseteq U!Since(s) /\ U!Since(s) \subseteq DOMAIN happened
      /\ happened \in Seq(Event)
  BY OfSince DEF UsageInv, UsageTyped
<1>5. /\ U!Shown(ids) \in Nat /\ U!Accepted(ids) \in Nat /\ U!Shown(U!Since(s)) \in Nat
      /\ U!Shown(ids) <= U!Shown(U!Since(s))
  <2>1. ids \subseteq DOMAIN happened
    BY <1>4
  <2> QED
    BY <1>4, <2>1, Amounts, MoreShown
<1>6. read = U!NextLevel(level[s], U!Shown(ids), U!Accepted(ids)) /\ level[s] \in Levels
  BY <1>2 DEF U!Judged
<1>7. /\ read \in Levels
      /\ U!Shown(ids) < MinShown =>
            read = IF U!Shown(ids) = 0 THEN "normal" ELSE level[s]
  BY <1>5, <1>6, NextLevelRight
<1> HIDE DEF read, ids
<1>8. level' \in [Place -> Levels] /\ carried' \subseteq Place
  BY <1>2, <1>3, <1>7
<1>9. ASSUME NEW t \in Place, level'[t] # "normal", t \notin carried'
      PROVE  U!Shown(U!Since(t)) >= MinShown
  <2>1. CASE t # s
    <3>1. level[t] # "normal" /\ t \notin carried
      BY <1>2, <1>3, <1>9, <2>1
    <3> QED
      BY <3>1 DEF UsageInv, LevelsRight, Standing
  <2>2. CASE t = s /\ ~(U!Shown(U!Since(s)) >= MinShown)
    <3>1. s \notin carried
      BY <1>3, <1>9, <2>2
    <3>2. U!Shown(ids) < MinShown
      BY <1>2, <1>5, <2>2
    <3>3. level'[s] = "normal" \/ level'[s] = level[s]
      BY <1>2, <1>3, <1>7, <3>2
    <3> QED
      BY <1>9, <2>2, <3>1, <3>3 DEF UsageInv, LevelsRight, Standing
  <2> QED
    BY <2>1, <2>2
<1>10. LevelsRight'
  <2>1. \A t \in Place : U!Shown(U!Since(t))' = U!Shown(U!Since(t))
    BY <1>1 DEF U!Shown, U!Since
  <2> QED
    BY <1>9, <2>1 DEF LevelsRight, Standing
<1>11. UsageTyped'
  BY <1>1, <1>8 DEF UsageInv, UsageTyped, U!Rev
<1> QED
  BY <1>1, <1>10, <1>11, SameCounts, SameWait DEF UsageInv

LEMMA TakeCountKeeps ==
    ASSUME UsageInv, U!TakeCount
    PROVE  UsageInv'
<1> DEFINE id == Head(countQueue).id
           when == [i \in DOMAIN counted \cup {id} |-> IF i = id THEN date ELSE counted[i]]
<1>1. /\ U!Taking("count")
      /\ UNCHANGED <<grants, installed, countsUsable, countFile, date, latest, level, carried,
                     happened, saved, torn, countsAsked, countFaults>>
  BY DEF U!TakeCount
<1>2. id \in DOMAIN happened \ (DOMAIN counted \cup saved)
  <2>1. /\ countQueue \in Seq(Awaited) /\ 1 \in DOMAIN countQueue
        /\ countQueue[1].op = "count" /\ id = countQueue[1].id
    BY <1>1 DEF U!Taking, UsageInv, UsageTyped
  <2> QED
    BY <2>1 DEF UsageInv, WaitRight
<1>3. CASE U!Counts(id) /\ countsUsable
  <2>1. /\ days' = U!Recorded(happened[id].subject, id) /\ dirty' = TRUE
        /\ counted' = when
    BY <1>3 DEF U!TakeCount
  <2>2. Sound(days', happened, latest) /\ Placed(days', when) /\ Covered(days', when, latest)
    BY <1>2, <1>3, <2>1, RecordedRight DEF UsageInv
  <2>3. /\ DOMAIN counted' = DOMAIN counted \cup {id} /\ counted'[id] = date
        /\ \A i \in DOMAIN counted : counted'[i] = counted[i]
    BY <1>2, <2>1
  <2> HIDE DEF when
  <2>4. countQueue' \in Seq(Awaited) /\ WaitRight'
    BY <1>1, <2>3, TakenWait
  <2>5. UsageTyped'
    BY <1>1, <2>1, <2>4 DEF UsageInv, UsageTyped, U!Rev
  <2>6. CountsRight'
    <3>1. date \in 0 .. latest
      BY DEF UsageInv, UsageTyped
    <3>2. \A i \in DOMAIN counted' : counted'[i] \in 0 .. latest'
      BY <1>1, <2>3, <3>1 DEF UsageInv, CountsRight
    <3>3. DOMAIN counted' \cup saved' \subseteq DOMAIN happened'
      BY <1>1, <1>2, <2>3 DEF UsageInv, CountsRight
    <3> QED
      BY <1>1, <1>3, <2>1, <2>2, <3>2, <3>3 DEF UsageInv, CountsRight
  <2>7. FlushRight'
    <3>1. {i \in saved \cap DOMAIN counted' : counted'[i] > latest - Term} =
            {i \in saved \cap DOMAIN counted : counted[i] > latest - Term}
      BY <1>2, <2>3
    <3> QED
      BY <1>1, <2>1, <3>1 DEF UsageInv, FlushRight, U!FlushSurvives, U!Recent
  <2>8. LevelsRight'
    <3>1. ASSUME NEW t \in Place PROVE U!Shown(U!Since(t)) <= U!Shown(U!Since(t))'
                                       /\ U!Shown(U!Since(t)) \in Nat
                                       /\ U!Shown(U!Since(t))' \in Nat
      <4> DEFINE more == {i \in DOMAIN counted' : happened[i].subject = t}
      <4>1. happened \in Seq(Event) /\ more \subseteq DOMAIN happened
            /\ U!Since(t) \subseteq more
        BY <1>2, <2>3 DEF UsageInv, UsageTyped, CountsRight, U!Since
      <4>2. U!Shown(U!Since(t))' = U!Shown(more)
        BY <1>1 DEF U!Shown, U!Since
      <4> HIDE DEF more
      <4> QED
        BY <4>1, <4>2, MoreShown, Amounts
    <3>2. MinShown \in Nat
      BY UsageAssumption
    <3> QED
      BY <1>1, <3>1, <3>2 DEF UsageInv, LevelsRight, Standing
  <2> QED
    BY <2>4, <2>5, <2>6, <2>7, <2>8 DEF UsageInv
<1>4. CASE ~(U!Counts(id) /\ countsUsable)
  <2>1. UNCHANGED <<days, dirty, counted>>
    BY <1>4 DEF U!TakeCount
  <2>2. countQueue' \in Seq(Awaited) /\ WaitRight'
    BY <1>1, <2>1, TakenWait
  <2>3. UsageTyped'
    BY <1>1, <2>1, <2>2 DEF UsageInv, UsageTyped, U!Rev
  <2> QED
    BY <1>1, <2>1, <2>2, <2>3, SameCounts, SameLevels DEF UsageInv
<1> QED
  BY <1>3, <1>4

\* A write, of which all or nothing of the file is new.
LEMMA PersistRight ==
    ASSUME UsageInv, U!Persist, UNCHANGED <<countsUsable, date, latest, happened, counted>>
    PROVE  /\ {dirty', torn'} \subseteq BOOLEAN /\ countFaults' \in 0 .. MaxFailure
           /\ (saved' \subseteq DOMAIN happened => CountsRight')
           /\ (saved' = saved \/ (~dirty' /\ saved' = DOMAIN counted) => FlushRight')
<1> DEFINE left == U!Reconciled(days)
<1>1. /\ Sound(left, happened, latest) /\ Placed(left, counted)
      /\ Covered(left, counted, latest) /\ countsUsable /\ days' = left
  <2>1. UsageTyped /\ CountsRight /\ countsUsable /\ days' = left
    BY DEF UsageInv, U!Persist
  <2>2. Sound(days, happened, latest) /\ Placed(days, counted) /\ Covered(days, counted, latest)
    BY <2>1 DEF CountsRight
  <2> QED
    BY <2>1, <2>2, ReconciledRight
<1>2. /\ countFile' \in {countFile, left}
      /\ \/ countFile' = left /\ dirty' = FALSE /\ torn' = FALSE /\ UNCHANGED countFaults
         \/ ~dirty /\ left = days /\ UNCHANGED <<dirty, countFile, torn, countFaults>>
         \/ /\ countFaults < MaxFailure /\ countFaults' = countFaults + 1
            /\ dirty' = TRUE /\ UNCHANGED torn
  <2>1. {dirty} \subseteq BOOLEAN
    BY DEF UsageInv, UsageTyped
  <2> QED
    BY <2>1, Zenon DEF U!Persist, U!PersistFails
<1>3. {dirty', torn'} \subseteq BOOLEAN /\ countFaults' \in 0 .. MaxFailure
  <2>1. /\ {dirty, torn} \subseteq BOOLEAN /\ countFaults \in 0 .. MaxFailure
        /\ MaxFailure \in Nat
    BY UsageAssumption DEF UsageInv, UsageTyped
  <2>2. countFaults' \in 0 .. MaxFailure
    BY <1>2, <2>1
  <2> QED
    BY <1>2, <2>1, <2>2
<1>4. \A i \in DOMAIN counted : counted[i] > latest - Term => i \in U!Ids(left)
  BY <1>1, InIds DEF Covered
<1> HIDE DEF left
<1>5. ASSUME saved' \subseteq DOMAIN happened PROVE CountsRight'
  BY <1>1, <1>2, <1>5 DEF UsageInv, CountsRight
<1>6. ASSUME saved' = saved \/ (~dirty' /\ saved' = DOMAIN counted)
      PROVE  FlushRight'
  <2>1. CASE countFile' = left /\ dirty' = FALSE /\ torn' = FALSE
    BY <1>1, <1>4, <2>1 DEF FlushRight, U!FlushSurvives, U!Recent
  <2>2. CASE ~dirty /\ left = days /\ UNCHANGED <<dirty, countFile, torn>>
    <3>1. CASE saved' = saved
      BY <1>1, <2>2, <3>1 DEF UsageInv, FlushRight, U!FlushSurvives, U!Recent
    <3>2. CASE saved' = DOMAIN counted
      <4>1. torn => \A i \in DOMAIN counted : ~(counted[i] > latest - Term)
        BY <1>1, <2>2 DEF UsageInv, FlushRight, Covered
      <4>2. ~torn => countFile = days
        BY <1>1, <2>2 DEF UsageInv, FlushRight, U!FlushSurvives
      <4> QED
        BY <1>1, <1>4, <2>2, <3>2, <4>1, <4>2
        DEF UsageInv, FlushRight, U!FlushSurvives, U!Recent
    <3> QED
      BY <1>6, <3>1, <3>2
  <2>3. CASE dirty' = TRUE
    <3>1. saved' = saved
      BY <1>6, <2>3
    <3>2. {i \in saved \cap DOMAIN counted : counted[i] > latest - Term} \subseteq U!Ids(countFile')
      BY <1>2, <1>4 DEF UsageInv, FlushRight, U!FlushSurvives, U!Recent
    <3> QED
      BY <2>3, <3>1, <3>2 DEF FlushRight, U!FlushSurvives, U!Recent
  <2> QED
    BY <1>2, <2>1, <2>2, <2>3
<1> QED
  BY <1>3, <1>5, <1>6

LEMMA CountsSweepKeeps ==
    ASSUME UsageInv, U!Sweep
    PROVE  UsageInv'
<1>1. /\ U!Persist
      /\ UNCHANGED <<grants, installed, countQueue, countsUsable, date, latest, level, carried,
                     happened, counted, saved, countsAsked>>
  BY DEF U!Sweep
<1>2. saved \subseteq DOMAIN happened
  BY DEF UsageInv, CountsRight
<1>3. /\ {dirty', torn'} \subseteq BOOLEAN /\ countFaults' \in 0 .. MaxFailure
      /\ CountsRight' /\ FlushRight'
  BY <1>1, <1>2, PersistRight
<1>4. UsageTyped'
  BY <1>1, <1>3 DEF UsageInv, UsageTyped, U!Rev
<1> QED
  BY <1>1, <1>3, <1>4, SameLevels, SameWait DEF UsageInv

LEMMA CountsFlushKeeps ==
    ASSUME UsageInv, U!TakeFlush
    PROVE  UsageInv'
<1>1. /\ U!Taking("flush")
      /\ UNCHANGED <<grants, installed, countsUsable, date, latest, level, carried,
                     happened, counted, countsAsked>>
  BY DEF U!TakeFlush
<1>2. DOMAIN counted \cup saved \subseteq DOMAIN happened
  BY DEF UsageInv, CountsRight
<1>3. /\ {dirty', torn'} \subseteq BOOLEAN /\ countFaults' \in 0 .. MaxFailure
      /\ CountsRight' /\ FlushRight' /\ saved' \in {saved, DOMAIN counted}
  <2>1. CASE U!Persist /\ saved' = IF ~dirty' THEN DOMAIN counted ELSE saved
    <3>1. saved' = saved \/ (~dirty' /\ saved' = DOMAIN counted)
      BY <2>1
    <3> QED
      BY <1>1, <1>2, <2>1, <3>1, PersistRight
  <2>2. CASE UNCHANGED <<days, countFile, dirty, torn, countFaults, saved>>
    <3>1. /\ {dirty', torn'} \subseteq BOOLEAN /\ countFaults' \in 0 .. MaxFailure
      BY <2>2 DEF UsageInv, UsageTyped
    <3> QED
      BY <1>1, <2>2, <3>1, SameCounts
  <2> QED
    BY <2>1, <2>2 DEF U!TakeFlush
<1>4. countQueue' \in Seq(Awaited) /\ WaitRight'
  BY <1>1, <1>3, TakenWait
<1>5. UsageTyped'
  BY <1>1, <1>3, <1>4 DEF UsageInv, UsageTyped, U!Rev
<1> QED
  BY <1>1, <1>3, <1>4, <1>5, SameLevels DEF UsageInv

LEMMA CountsForgetKeeps ==
    ASSUME UsageInv, U!TakeForget
    PROVE  UsageInv'
<1>1. /\ U!Taking("forget") /\ saved' = {}
      /\ UNCHANGED <<grants, installed, date, latest, level, happened, countsAsked>>
  BY DEF U!TakeForget
<1>2. \/ /\ days' = <<>> /\ countFile' = <<>> /\ dirty' = FALSE /\ countsUsable' = TRUE
         /\ counted' = <<>> /\ torn' = FALSE /\ carried' = Place /\ UNCHANGED countFaults
      \/ /\ countFaults < MaxFailure /\ countFaults' = countFaults + 1
         /\ days' = (IF countsUsable THEN <<>> ELSE days)
         /\ countFile' \in {countFile, <<>>} /\ torn' = TRUE
         /\ counted' = (IF countsUsable THEN <<>> ELSE counted)
         /\ carried' = (IF countsUsable THEN Place ELSE carried)
         /\ UNCHANGED <<dirty, countsUsable>>
  BY DEF U!TakeForget
<1>3. DOMAIN <<>> = {}
  OBVIOUS
<1>4. countFaults' \in 0 .. MaxFailure
  <2>1. countFaults \in 0 .. MaxFailure /\ MaxFailure \in Nat
    BY UsageAssumption DEF UsageInv, UsageTyped
  <2> QED
    BY <1>2, <2>1
<1>5. countQueue' \in Seq(Awaited) /\ WaitRight'
  <2>1. DOMAIN counted' \cup saved' \subseteq DOMAIN counted \cup saved
    BY <1>1, <1>2
  <2> QED
    BY <1>1, <2>1, TakenWait
<1>6. UsageTyped'
  BY <1>1, <1>2, <1>4, <1>5 DEF UsageInv, UsageTyped, U!Rev
<1>7. CountsRight'
  <2>1. ~countsUsable => days = <<>>
    BY DEF UsageInv, CountsRight
  <2>2. days' = <<>>
    BY <1>2, <2>1
  <2>3. countFile' \in {countFile, <<>>}
    BY <1>2
  <2>4. Sound(days', happened', latest') /\ Sound(countFile', happened', latest')
    BY <1>1, <1>3, <2>2, <2>3, Nowhere DEF UsageInv, CountsRight
  <2>5. Placed(days', counted')
    BY <1>3, <2>2, Nowhere
  <2>6. counted' = counted \/ counted' = <<>>
    BY <1>2
  <2>7. countsUsable' => counted' = <<>>
    BY <1>2
  <2>8. countsUsable' => Covered(days', counted', latest')
    BY <1>3, <2>7 DEF Covered
  <2>9. \A i \in DOMAIN counted' : counted'[i] \in 0 .. latest'
    BY <1>1, <1>3, <2>6 DEF UsageInv, CountsRight
  <2>10. DOMAIN counted' \cup saved' \subseteq DOMAIN happened'
    BY <1>1, <1>3, <2>6 DEF UsageInv, CountsRight
  <2> QED
    BY <2>2, <2>4, <2>5, <2>8, <2>9, <2>10 DEF CountsRight
<1>8. FlushRight'
  BY <1>1, <1>2 DEF FlushRight, U!FlushSurvives
<1>9. LevelsRight'
  <2>1. CASE carried' = Place
    BY <2>1 DEF LevelsRight, Standing
  <2>2. CASE UNCHANGED <<carried, counted>>
    BY <1>1, <2>2, SameLevels
  <2> QED
    BY <1>2, <2>1, <2>2
<1> QED
  BY <1>5, <1>6, <1>7, <1>8, <1>9 DEF UsageInv

LEMMA MidnightKeeps ==
    ASSUME UsageInv, U!Midnight
    PROVE  UsageInv'
<1>1. UNCHANGED <<grants, installed, countQueue, countsUsable, days, dirty, countFile, level,
                  carried, happened, counted, saved, torn, countsAsked, countFaults>>
  BY DEF U!Midnight
<1>2. date \in Nat /\ latest \in {date, date + 1}
  BY DEF UsageInv, UsageTyped
<1>3. /\ date' \in Nat /\ latest' \in {date', date' + 1}
      /\ latest \in Nat /\ latest' \in {latest, latest + 1}
  BY <1>2 DEF U!Midnight
<1>4. UsageTyped'
  BY <1>1, <1>3 DEF UsageInv, UsageTyped, U!Rev
<1>5. \A i \in DOMAIN counted : /\ counted[i] \in 0 .. latest'
                                /\ counted[i] > latest' - Term => counted[i] > latest - Term
  BY <1>3, UsageAssumption DEF UsageInv, CountsRight
<1>6. CountsRight'
  <2>1. Sound(days, happened, latest') /\ Sound(countFile, happened, latest')
    BY <1>3 DEF UsageInv, CountsRight, Sound
  <2>2. countsUsable => Covered(days, counted, latest')
    BY <1>5 DEF UsageInv, CountsRight, Covered
  <2> QED
    BY <1>1, <1>5, <2>1, <2>2 DEF UsageInv, CountsRight
<1>7. FlushRight'
  BY <1>1, <1>5 DEF UsageInv, FlushRight, U!FlushSurvives, U!Recent
<1> QED
  BY <1>1, <1>4, <1>6, <1>7, SameLevels, SameWait DEF UsageInv

\* A broker that starts finds what the file has.
LEMMA RestartKeeps ==
    ASSUME UsageInv, U!Restart
    PROVE  UsageInv'
<1> DEFINE left == U!Reconciled(countFile)
           when == [i \in U!Ids(countFile) |-> U!DayOf(countFile, i)]
<1>1. /\ countFaults < MaxFailure /\ countFaults' = countFaults + 1
      /\ countQueue' = <<>> /\ installed' = U!Rev /\ counted' = when
      /\ level' = [s \in Place |-> "normal"] /\ carried' = {}
      /\ UNCHANGED <<grants, date, latest, happened, saved, countsAsked>>
  BY DEF U!Restart
<1>2. \/ /\ countsUsable' = TRUE /\ dirty' = FALSE /\ torn' = FALSE
         /\ days' = left /\ countFile' = left
      \/ /\ countsUsable' = FALSE /\ dirty' = FALSE /\ days' = <<>>
         /\ UNCHANGED <<countFile, torn>>
  BY DEF U!Restart
<1>3. Sound(countFile, happened, latest)
  BY DEF UsageInv, CountsRight
<1>4. /\ DOMAIN left \subseteq DOMAIN countFile
      /\ \A d \in DOMAIN left : left[d] = countFile[d]
      /\ \A d \in DOMAIN countFile : d > latest - Term => d \in DOMAIN left
      /\ Sound(left, happened, latest)
  BY <1>3, ReconciledRight DEF UsageInv
<1>5. ASSUME NEW i \in U!Ids(countFile)
      PROVE  when[i] \in DOMAIN countFile /\ i \in U!Total(countFile[when[i]])
  BY InIds DEF U!DayOf
<1>6. DOMAIN when = U!Ids(countFile)
  OBVIOUS
<1> HIDE DEF left, when
<1>7. Placed(left, when)
  <2>1. ASSUME NEW d \in DOMAIN left, NEW i \in U!Total(left[d])
        PROVE  i \in DOMAIN when /\ when[i] = d
    <3>1. d \in DOMAIN countFile /\ i \in U!Total(countFile[d])
      BY <1>4
    <3>2. i \in U!Ids(countFile)
      BY <3>1, InIds
    <3> QED
      BY <1>3, <1>5, <1>6, <3>1, <3>2 DEF Sound
  <2> QED
    BY <2>1 DEF Placed
<1>8. Covered(left, when, latest)
  BY <1>4, <1>5, <1>6 DEF Covered
<1>9. \A i \in DOMAIN when : i \in DOMAIN happened /\ when[i] \in 0 .. latest
  <2> TAKE i \in DOMAIN when
  <2>1. when[i] \in DOMAIN countFile /\ i \in U!Total(countFile[when[i]])
    BY <1>5, <1>6
  <2> QED
    BY <1>3, <2>1, InTotal DEF Sound, FitsDay, About
<1>10. UsageTyped'
  <2>1. grants \in Seq(Consents \cup {Given}) /\ Len(grants) \in 1 .. MaxCommit + 1
        /\ countFaults \in 0 .. MaxFailure /\ MaxFailure \in Nat /\ {torn} \subseteq BOOLEAN
        /\ MaxCommit \in Nat
    BY UsageAssumption DEF UsageInv, UsageTyped
  <2>2. installed' \in Nat /\ installed' = U!Rev' /\ countFaults' \in 0 .. MaxFailure
    BY <1>1, <2>1 DEF U!Rev
  <2>3. {countsUsable', dirty', torn'} \subseteq BOOLEAN /\ countQueue' \in Seq(Awaited)
    <3>1. <<>> \in Seq(Awaited) /\ TRUE \in BOOLEAN /\ FALSE \in BOOLEAN
      OBVIOUS
    <3>2. countsUsable' \in BOOLEAN /\ dirty' \in BOOLEAN /\ torn' \in BOOLEAN
      BY <1>2, <2>1
    <3> QED
      BY <1>1, <3>1, <3>2
  <2>4. level' \in [Place -> Levels] /\ carried' \subseteq Place
    BY <1>1 DEF Levels
  <2> QED
    BY <1>1, <2>2, <2>3, <2>4 DEF UsageInv, UsageTyped
<1>11. CountsRight'
  <2>1. Sound(days', happened', latest') /\ Placed(days', counted')
        /\ Sound(countFile', happened', latest')
    <3>1. DOMAIN <<>> = {}
      OBVIOUS
    <3> QED
      BY <1>1, <1>2, <1>3, <1>4, <1>7, <3>1, Nowhere
  <2>2. countsUsable' => Covered(days', counted', latest')
    BY <1>1, <1>2, <1>8
  <2>3. saved \subseteq DOMAIN happened
    BY DEF UsageInv, CountsRight
  <2> QED
    BY <1>1, <1>2, <1>9, <2>1, <2>2, <2>3 DEF CountsRight
<1>12. FlushRight'
  <2>1. \A i \in DOMAIN when : when[i] > latest - Term => i \in U!Ids(left)
    BY <1>8, InIds DEF Covered
  <2> QED
    BY <1>1, <1>2, <1>6, <2>1 DEF FlushRight, U!FlushSurvives, U!Recent
<1>13. WaitRight'
  BY <1>1 DEF WaitRight
<1>14. LevelsRight'
  BY <1>1 DEF LevelsRight, Standing
<1> QED
  BY <1>10, <1>11, <1>12, <1>13, <1>14 DEF UsageInv

LEMMA UsageInit == U!Init => UsageInv
<1> SUFFICES ASSUME U!Init PROVE UsageInv
  OBVIOUS
<1> DEFINE named == {Earlier[i] : i \in DOMAIN Earlier}
           before == [s \in named |-> {i \in DOMAIN Earlier : Earlier[i] = s}]
           record == [subjects |-> before, other |-> {}]
           said == [i \in DOMAIN Earlier |->
                       [subject |-> Earlier[i], kind |-> "shown", rev |-> 0]]
<1>1. /\ grants = <<Given>> /\ installed = 0 /\ countQueue = <<>> /\ date = 1 /\ latest = 1
      /\ happened = said /\ countFile = [d \in {1} |-> record] /\ days = countFile
      /\ countsUsable = TRUE /\ dirty = FALSE /\ torn = FALSE
      /\ level = [s \in Place |-> "normal"] /\ carried = {}
      /\ counted = [i \in DOMAIN Earlier |-> 1] /\ saved = DOMAIN Earlier
      /\ countsAsked = 0 /\ countFaults = 0
  BY DEF U!Init
<1>2. /\ Earlier \in Seq(Place) /\ Cardinality(named) <= DayLimit /\ Term \in Nat
      /\ DOMAIN Earlier = 1 .. Len(Earlier) /\ Len(Earlier) \in Nat
      /\ \A i \in DOMAIN Earlier : Earlier[i] \in Place
  BY UsageAssumption
<1>3. DOMAIN said = DOMAIN Earlier /\ said \in Seq(Event)
      /\ \A i \in DOMAIN said : said[i].subject = Earlier[i]
  <2>1. \A i \in 1 .. Len(Earlier) :
            [subject |-> Earlier[i], kind |-> "shown", rev |-> 0] \in Event
    BY <1>2 DEF Event
  <2>2. said \in [1 .. Len(Earlier) -> Event]
    BY <1>2, <2>1
  <2> QED
    BY <1>2, <2>2, SeqDef
<1>4. /\ record.subjects = before /\ record.other = {}
      /\ DOMAIN before = named /\ named \in SUBSET Place
      /\ before \in [named -> SUBSET Nat]
      /\ \A s \in named : before[s] = {i \in DOMAIN Earlier : Earlier[i] = s}
  BY <1>2
<1>5. record \in [subjects : [named -> SUBSET Nat], other : SUBSET Nat]
  BY <1>4
<1> HIDE DEF record, before, said
<1>6. FitsDay(record, said)
  <2>1. OfDay(record)
    BY <1>4, <1>5 DEF OfDay
  <2>2. record.other \subseteq DOMAIN said /\ Cardinality(DOMAIN record.subjects) <= DayLimit
    BY <1>2, <1>4
  <2>3. \A s \in DOMAIN record.subjects : record.subjects[s] \subseteq About(said, s)
    BY <1>3, <1>4 DEF About
  <2> QED
    BY <2>1, <2>2, <2>3 DEF FitsDay
<1>7. \A i : i \in U!Total(record) <=> i \in DOMAIN Earlier
  BY <1>4, InTotal
<1> HIDE DEF named
<1>8. DOMAIN days = {1} /\ days[1] = record
  BY <1>1
<1>9. UsageTyped
  <2>1. grants \in Seq(Consents \cup {Given}) /\ Len(grants) = 1 /\ countQueue \in Seq(Awaited)
    BY <1>1
  <2>2. MaxCommit \in Nat /\ MaxAsk \in Nat /\ MaxFailure \in Nat
    BY UsageAssumption
  <2> QED
    <3>1. /\ countsAsked \in 0 .. MaxAsk /\ countFaults \in 0 .. MaxFailure
          /\ {countsUsable, dirty, torn} \subseteq BOOLEAN
          /\ Len(grants) \in 1 .. MaxCommit + 1
      <4>1. countsAsked \in 0 .. MaxAsk /\ countFaults \in 0 .. MaxFailure
            /\ Len(grants) \in 1 .. MaxCommit + 1
        BY <1>1, <2>1, <2>2
      <4>2. countsUsable \in BOOLEAN /\ dirty \in BOOLEAN /\ torn \in BOOLEAN
        BY <1>1
      <4> QED
        BY <4>1, <4>2
    <3>2. level \in [Place -> Levels] /\ carried \subseteq Place
      BY <1>1 DEF Levels
    <3>3. date \in Nat /\ latest \in {date, date + 1}
          /\ installed \in {U!Rev, U!Rev - 1} /\ installed \in Nat
      BY <1>1, <2>1 DEF U!Rev
    <3> QED
      BY <1>1, <1>3, <2>1, <3>1, <3>2, <3>3 DEF UsageTyped
<1>10. CountsRight
  <2>1. Sound(days, happened, latest) /\ Sound(countFile, happened, latest)
    BY <1>1, <1>6, <1>8 DEF Sound
  <2>2. Placed(days, counted) /\ Covered(days, counted, latest)
    BY <1>1, <1>7, <1>8 DEF Placed, Covered
  <2> QED
    BY <1>1, <1>3, <2>1, <2>2 DEF CountsRight
<1>11. FlushRight
  <2>1. DOMAIN Earlier \subseteq U!Ids(countFile)
    BY <1>1, <1>7, <1>8, InIds
  <2> QED
    BY <1>1, <2>1 DEF FlushRight, U!FlushSurvives
<1>12. WaitRight
  BY <1>1 DEF WaitRight
<1>13. LevelsRight
  BY <1>1 DEF LevelsRight, Standing
<1> QED
  BY <1>9, <1>10, <1>11, <1>12, <1>13 DEF UsageInv

\* What the invariant says of the counts.
LEMMA UsageRight == UsageInv => U!UsageSafe
<1> SUFFICES ASSUME UsageInv PROVE U!UsageSafe
  OBVIOUS
<1>1. U!TypeOK
  <2>1. U!Rev \in 0 .. MaxCommit
    BY UsageAssumption DEF UsageInv, UsageTyped, U!Rev
  <2>2. \A d \in DOMAIN days : U!Cardinality(DOMAIN days[d].subjects) <= DayLimit
    BY SameNumber DEF UsageInv, CountsRight, Sound, FitsDay
  <2> QED
    BY <2>1, <2>2 DEF UsageInv, UsageTyped, CountsRight, U!TypeOK, Levels
<1>2. U!CountsExact
  <2>1. U!Ids(days) \subseteq DOMAIN counted
    BY InIds DEF UsageInv, CountsRight, Placed
  <2>2. ASSUME countsUsable, NEW i \in DOMAIN counted, counted[i] > latest - Term
        PROVE  i \in U!Summary.retained
    <3>1. counted[i] \in DOMAIN days /\ i \in U!Total(days[counted[i]])
      BY <2>2 DEF UsageInv, CountsRight, Covered
    <3>2. U!Within(counted[i])
      <4>1. counted[i] \in 0 .. latest /\ date \in Nat /\ latest \in {date, date + 1}
            /\ Term \in Nat
        BY UsageAssumption DEF UsageInv, UsageTyped, CountsRight
      <4> QED
        BY <2>2, <4>1 DEF U!Within
    <3> QED
      BY <3>1, <3>2 DEF U!Summary, U!Kept
  <2> QED
    BY <2>1, <2>2 DEF U!CountsExact, U!Recent
<1>3. U!FlushSurvives
  BY DEF UsageInv, FlushRight
<1>4. U!LeadersNamed
  <2>1. ASSUME NEW window \in {U!Today, U!LastDays \cap U!Kept, U!Kept},
               NEW s \in Place \ U!Summary.named
        PROVE  LET ahead == {t \in U!Summary.named : U!Accepted(U!Of(days, window, t)) >=
                                                      U!Accepted(U!Of(days, window, s))}
               IN  U!Of(days, window, s) = {} \/ U!Cardinality(ahead) >= NameLimit
    <3> DEFINE ahead == {t \in U!Summary.named : U!Accepted(U!Of(days, window, t)) >=
                                                 U!Accepted(U!Of(days, window, s))}
               led == {t \in U!Leading(window) : U!Accepted(U!Of(days, window, t)) >=
                                                 U!Accepted(U!Of(days, window, s))}
    <3>1. U!Leading(window) \subseteq U!Summary.named /\ U!Summary.named \subseteq Place
      BY DEF U!Summary, U!Leading
    <3>2. led \subseteq ahead /\ ahead \subseteq Place
      BY <3>1
    <3>3. CASE U!Of(days, window, s) # {}
      <4>1. Cardinality(led) >= NameLimit
        BY <3>1, <3>3, LeadersAhead DEF UsageInv
      <4> HIDE DEF led, ahead
      <4>2. IsFiniteSet(ahead) /\ IsFiniteSet(led)
        BY <3>2, UsageAssumption, FS_Subset
      <4>3. Cardinality(led) <= Cardinality(ahead) /\ Cardinality(led) \in Nat
            /\ Cardinality(ahead) \in Nat /\ NameLimit \in Nat
        BY <3>2, <4>2, UsageAssumption, FS_Subset, FS_CardinalityType
      <4>4. Cardinality(ahead) >= NameLimit
        BY <4>1, <4>3
      <4> QED
        BY <4>4, SameNumber DEF ahead
    <3> QED
      BY <3>3
  <2> QED
    BY <2>1 DEF U!LeadersNamed
<1>5. U!QuietCause
  <2>1. ASSUME NEW s \in Place
        PROVE  LET next == U!Judged(level[s], s)
               IN  next # level[s] => U!Judged(next, s) # level[s]
    <3> DEFINE ids == U!Of(days, U!LastDays, s)
    <3>1. ids \subseteq DOMAIN happened /\ happened \in Seq(Event)
      BY OfSince DEF UsageInv, UsageTyped
    <3>2. U!Shown(ids) \in Nat /\ U!Accepted(ids) \in Nat /\ level[s] \in Levels
      <4> HIDE DEF ids
      <4> QED
        BY <3>1, Amounts DEF UsageInv, UsageTyped
    <3> HIDE DEF ids
    <3>3. \A l : U!Judged(l, s) = U!NextLevel(l, U!Shown(ids), U!Accepted(ids))
      BY DEF U!Judged, ids
    <3> QED
      BY <3>2, <3>3, NextLevelRight
  <2> QED
    BY <2>1 DEF UsageInv, LevelsRight, Standing, U!QuietCause
<1> QED
  BY <1>1, <1>2, <1>3, <1>4, <1>5 DEF U!UsageSafe

LEMMA UsageKeeps == UsageInv /\ U!Next => UsageInv'
<1> SUFFICES ASSUME UsageInv, U!Next PROVE UsageInv'
  OBVIOUS
<1>1. CASE \E s \in Place, kind \in {"shown", "accepted"} : U!Happen(s, kind)
  BY <1>1, HappenKeeps
<1>2. CASE \E op \in {"flush", "forget"} : U!Ask(op)
  BY <1>2, AskKeeps
<1>3. CASE \E s \in Place : U!ReadLevel(s)
  BY <1>3, ReadLevelKeeps
<1>4. CASE U!Install \/ \E g \in Consents : U!Commit(g)
  BY <1>4, SettingsKeep
<1>5. CASE U!TakeCount
  BY <1>5, TakeCountKeeps
<1>6. CASE U!Sweep
  BY <1>6, CountsSweepKeeps
<1>7. CASE U!TakeFlush
  BY <1>7, CountsFlushKeeps
<1>8. CASE U!TakeForget
  BY <1>8, CountsForgetKeeps
<1>9. CASE U!Midnight
  BY <1>9, MidnightKeeps
<1>10. CASE U!Restart
  BY <1>10, RestartKeeps
<1> QED
  BY <1>1, <1>2, <1>3, <1>4, <1>5, <1>6, <1>7, <1>8, <1>9, <1>10 DEF U!Next

\* In every state a broker can reach, for any subjects, limits, rates and
\* faults: a summary counts each event of the retained days once and none that
\* was forgotten, what an answered flush had counted is on the disk, the
\* subjects named are the leaders, and quieting has its cause (stats.rs,
\* control_plane.rs, engine/quietness.rs).
THEOREM CountsAreKept == AllSpec => []CountsKept
<1>1. AllInit => CountsInv
  BY UsageInit DEF AllInit, CountsInv
<1>2. CountsInv /\ [AllNext]_all => CountsInv'
  <2> SUFFICES ASSUME CountsInv, [AllNext]_all, part' = "counts" PROVE UsageInv'
    BY DEF CountsInv
  <2>1. CASE AllNext
    <3>1. part = "counts" /\ U!Next
      BY <2>1 DEF AllNext
    <3> QED
      BY <3>1, UsageKeeps DEF CountsInv
  <2>2. CASE UNCHANGED all
    <3>1. UNCHANGED <<grants, installed, countQueue, countsUsable, days, dirty, countFile, date,
                      latest, level, carried, happened, counted, saved, torn, countsAsked,
                      countFaults>> /\ UsageInv
      BY <2>2 DEF all, counts, CountsInv
    <3>2. UsageTyped'
      BY <3>1 DEF UsageInv, UsageTyped, U!Rev
    <3> QED
      BY <3>1, <3>2, SameCounts, SameLevels, SameWait DEF UsageInv
  <2> QED
    BY <2>1, <2>2
<1>3. CountsInv => CountsKept
  BY UsageRight DEF CountsInv, CountsKept
<1> QED
  BY <1>1, <1>2, <1>3, PTL DEF AllSpec
=============================================================================
