---------------------------- MODULE TextsProofs ----------------------------
(***************************************************************************)
(* Proofs about the text rules and a request, for every lexicon, text,     *)
(* answer and bound.  First the operators of Words and Prompts: ranks,     *)
(* parts of a text, the order of words, and the bisection of the lexicon's *)
(* text, which finds exactly the words it holds (KnownExactly).  Then what *)
(* of an answer is inserted and what is corrected, and the inductive       *)
(* invariant Requested, from which RequestRight follows; last the steps.   *)
(***************************************************************************)
EXTENDS MCTexts, FiniteSetTheorems, SequenceTheorems, WellFoundedInduction, TLAPS

-----------------------------------------------------------------------------
(* Numbers                                                                 *)

\* The least of some numbers.
LEMMA LeastOf ==
    ASSUME NEW S \in SUBSET Nat, S # {}
    PROVE  Least(S) \in S /\ \A g \in S : Least(S) <= g
<1>1. PICK x \in S : \A y \in S : ~(<<y, x>> \in OpToRel(<, Nat))
  BY NatLessThanWellFounded, WFMin
<1>2. ASSUME NEW y \in S PROVE x <= y
  <2> DEFINE p == <<y, x>>
  <2>1. y \in Nat /\ x \in Nat /\ p \in Nat \X Nat /\ p[1] = y /\ p[2] = x
    OBVIOUS
  <2>2. p \notin OpToRel(<, Nat)
    BY <1>1
  <2> HIDE DEF p
  <2>3. ~(y < x)
    BY <2>1, <2>2 DEF OpToRel
  <2> QED
    BY <2>1, <2>3
<1> QED
  BY <1>2 DEF Least

\* The greatest of some numbers with a bound.
LEMMA GreatestOf ==
    ASSUME NEW n \in Nat, NEW S \in SUBSET (0 .. n), S # {}
    PROVE  /\ Greatest(S) \in S /\ Greatest(S) \in Nat /\ Greatest(S) <= n
           /\ \A g \in S : g <= Greatest(S)
<1> DEFINE T == {n - m : m \in S}
<1>1. T \in SUBSET Nat /\ T # {}
  <2>1. \A m \in S : n - m \in Nat
    OBVIOUS
  <2> QED
    BY <2>1
<1> HIDE DEF T
<1>2. Least(T) \in T /\ \A g \in T : Least(T) <= g
  BY <1>1, LeastOf
<1>3. PICK m \in S : Least(T) = n - m
  BY <1>2 DEF T
<1>4. \A g \in S : n - m <= n - g
  BY <1>2, <1>3 DEF T
<1>5. \A g \in S : g <= m
  BY <1>4
<1>6. Greatest(S) \in S /\ \A g \in S : g <= Greatest(S)
  BY <1>5 DEF Greatest
<1>7. \A g \in S : g \in Nat /\ g <= n
  OBVIOUS
<1> QED
  BY <1>6, <1>7

-----------------------------------------------------------------------------
(* Ranks                                                                   *)

\* In a finite strict total order, given by what is below each member, the
\* members are numbered by how many are below.
LEMMA Ranks ==
    ASSUME NEW S, IsFiniteSet(S), NEW below \in [S -> SUBSET S],
           \A x \in S : x \notin below[x],
           \A x, y \in S : y \in below[x] => below[y] \subseteq below[x],
           \A x, y \in S : x # y => x \in below[y] \/ y \in below[x]
    PROVE  /\ Cardinality(S) \in Nat
           /\ \A x \in S : Cardinality(below[x]) \in 0 .. Cardinality(S) - 1
           /\ \A x, y \in S : y \in below[x] <=> Cardinality(below[y]) < Cardinality(below[x])
           /\ \A x, y \in S : Cardinality(below[x]) = Cardinality(below[y]) => x = y
           /\ \A i \in 1 .. Cardinality(S) : \E x \in S : Cardinality(below[x]) + 1 = i
<1> DEFINE n == Cardinality(S)
           rank == [x \in S |-> Cardinality(below[x]) + 1]
<1>1. n \in Nat
  BY FS_CardinalityType
<1>2. ASSUME NEW x \in S
      PROVE  IsFiniteSet(below[x]) /\ Cardinality(below[x]) \in Nat /\ Cardinality(below[x]) < n
  <2>1. IsFiniteSet(below[x]) /\ Cardinality(below[x]) \in Nat /\ Cardinality(below[x]) <= n
    BY FS_Subset, FS_CardinalityType
  <2>2. below[x] # S
    OBVIOUS
  <2> QED
    BY <1>1, <2>1, <2>2, FS_Subset
<1>3. ASSUME NEW x \in S, NEW y \in S, y \in below[x]
      PROVE  Cardinality(below[y]) < Cardinality(below[x])
  <2>1. below[y] \subseteq below[x] /\ y \notin below[y]
    BY <1>3
  <2>2. below[y] # below[x]
    BY <1>3, <2>1
  <2> QED
    BY <1>2, <2>1, <2>2, FS_Subset
<1>4. ASSUME NEW x \in S, NEW y \in S, Cardinality(below[y]) < Cardinality(below[x])
      PROVE  y \in below[x]
  <2>1. x # y
    BY <1>2, <1>4
  <2>2. ~(x \in below[y])
    BY <1>2, <1>3, <1>4
  <2> QED
    BY <2>1, <2>2
<1>5. ASSUME NEW x \in S, NEW y \in S, Cardinality(below[x]) = Cardinality(below[y])
      PROVE  x = y
  BY <1>2, <1>3, <1>5
<1>6. rank \in Injection(S, 1 .. n)
  <2>1. rank \in [S -> 1 .. n]
    <3>1. \A x \in S : Cardinality(below[x]) + 1 \in 1 .. n
      BY <1>1, <1>2
    <3> QED
      BY <3>1
  <2>2. \A x, y \in S : rank[x] = rank[y] => x = y
    BY <1>2, <1>5
  <2> QED
    BY <2>1, <2>2 DEF Injection, IsInjective
<1>7. IsFiniteSet(1 .. n) /\ Cardinality(1 .. n) = n
  BY <1>1, FS_Interval
<1>8. \A x \in S : rank[x] = Cardinality(below[x]) + 1
  OBVIOUS
<1> HIDE DEF rank
<1>9. rank \in Surjection(S, 1 .. n)
  BY <1>6, <1>7, FS_Injection
<1>10. \A i \in 1 .. n : \E x \in S : rank[x] = i
  BY <1>9 DEF Surjection
<1> QED
  BY <1>1, <1>2, <1>3, <1>4, <1>5, <1>8, <1>10

\* The n-th of some numbers is one of them.
LEMMA NthOf ==
    ASSUME NEW S \in SUBSET Nat, IsFiniteSet(S), NEW n \in 1 .. Cardinality(S)
    PROVE  Nth(S, n) \in S
<1> DEFINE below == [x \in S |-> {y \in S : y < x}]
<1>1. below \in [S -> SUBSET S] /\ \A x \in S : below[x] = {y \in S : y < x}
  OBVIOUS
<1> HIDE DEF below
<1>2. /\ \A x \in S : x \notin below[x]
      /\ \A x, y \in S : y \in below[x] => below[y] \subseteq below[x]
      /\ \A x, y \in S : x # y => x \in below[y] \/ y \in below[x]
  <2>1. \A x \in S : x \in Nat
    OBVIOUS
  <2>2. \A x, y \in S : y \in below[x] <=> y < x
    BY <1>1
  <2>3. \A x, y, z \in S : y < x /\ z < y => z < x
    BY <2>1
  <2>4. \A x, y \in S : y \in below[x] => below[y] \subseteq below[x]
    BY <1>1, <2>2, <2>3
  <2>5. \A x \in S : x \notin below[x]
    BY <2>1, <2>2
  <2>6. \A x, y \in S : x # y => x \in below[y] \/ y \in below[x]
    BY <2>1, <2>2
  <2> QED
    BY <2>4, <2>5, <2>6, Zenon
<1>3. PICK x \in S : Cardinality(below[x]) + 1 = n
  BY <1>1, <1>2, Ranks
<1>4. {d \in S : d <= x} = below[x] \cup {x} /\ x \notin below[x] /\ IsFiniteSet(below[x])
  <2>1. \A d \in S : d <= x <=> d < x \/ d = x
    OBVIOUS
  <2>2. \A d \in S : d \in below[x] <=> d < x
    BY <1>1
  <2>3. below[x] \subseteq S
    BY <1>1
  <2>4. IsFiniteSet(below[x])
    BY <2>3, FS_Subset
  <2>5. {d \in S : d <= x} = below[x] \cup {x}
    BY <2>1, <2>2, <2>3
  <2> QED
    BY <1>2, <2>4, <2>5
<1>5. Cardinality({d \in S : d <= x}) = n
  BY <1>3, <1>4, FS_AddElement
<1> QED
  BY <1>5 DEF Nth

\* What is selected of a list is in the list and in the set.
LEMMA Selected ==
    ASSUME NEW A, NEW list \in Seq(A), NEW S
    PROVE  /\ Select(list, S) \in Seq(A) /\ Len(Select(list, S)) \in Nat
           /\ \A i \in DOMAIN Select(list, S) : Select(list, S)[i] \in S \cap A
<1> DEFINE kept == {i \in DOMAIN list : list[i] \in S}
           m == Cardinality(kept)
<1>1. IsFiniteSet(1 .. Len(list)) /\ kept \in SUBSET (1 .. Len(list)) /\ kept \in SUBSET Nat
      /\ \A i \in kept : list[i] \in S \cap A
  BY FS_Interval
<1> HIDE DEF kept
<1>2. IsFiniteSet(kept) /\ m \in Nat
  BY <1>1, FS_Subset, FS_CardinalityType
<1> HIDE DEF m
<1>3. \A n \in 1 .. m : list[Nth(kept, n)] \in S \cap A
  BY <1>1, <1>2, NthOf DEF m
<1>4. Select(list, S) = [n \in 1 .. m |-> list[Nth(kept, n)]]
  BY DEF Select, m, kept
<1>5. [n \in 1 .. m |-> list[Nth(kept, n)]] \in Seq(A)
  BY <1>2, <1>3
<1>6. DOMAIN Select(list, S) = 1 .. m
  BY <1>4
<1> QED
  BY <1>2, <1>3, <1>4, <1>5, <1>6

-----------------------------------------------------------------------------
(* Parts of a text                                                         *)

\* A part of a text, symbol by symbol.
LEMMA PartOf ==
    ASSUME NEW A, NEW t \in Seq(A), NEW i \in Nat \ {0}, NEW j \in Nat, j <= Len(t)
    PROVE  /\ Part(t, i, j) \in Seq(A) /\ Len(Part(t, i, j)) = IF i <= j THEN j - i + 1 ELSE 0
           /\ \A k \in 1 .. j - i + 1 : Part(t, i, j)[k] = t[i + k - 1]
<1>1. \A k \in i .. j : t[k] \in A
  OBVIOUS
<1> QED
  BY <1>1, SubSeqProperties DEF Part

\* The m symbols after the first n.
LEMMA Slice ==
    ASSUME NEW A, NEW t \in Seq(A), NEW n \in Nat, NEW m \in Nat, n + m <= Len(t)
    PROVE  /\ Part(t, n + 1, n + m) \in Seq(A) /\ Len(Part(t, n + 1, n + m)) = m
           /\ \A k \in 1 .. m : Part(t, n + 1, n + m)[k] = t[n + k]
<1> DEFINE i == n + 1
           j == n + m
           p == Part(t, i, j)
<1>1. i \in Nat \ {0} /\ j \in Nat /\ j <= Len(t) /\ j - i + 1 = m
  OBVIOUS
<1>2. (i <= j => j - i + 1 = m) /\ (~(i <= j) => 0 = m) /\ \A k \in 1 .. m : i + k - 1 = n + k
  OBVIOUS
<1> HIDE DEF i, j
<1>3. p \in Seq(A) /\ Len(p) = (IF i <= j THEN j - i + 1 ELSE 0) /\ \A k \in 1 .. j - i + 1 : p[k] = t[i + k - 1]
  BY <1>1, PartOf
<1> HIDE DEF p
<1>4. p \in Seq(A) /\ Len(p) = m /\ \A k \in 1 .. m : p[k] = t[n + k]
  BY <1>1, <1>2, <1>3
<1> QED
  BY <1>4 DEF p, i, j

\* The rest of a text from a symbol on.
LEMMA FromAt ==
    ASSUME NEW A, NEW t \in Seq(A), NEW i \in Nat \ {0}
    PROVE  /\ From(t, i) \in Seq(A) /\ Len(From(t, i)) = IF i <= Len(t) THEN Len(t) - i + 1 ELSE 0
           /\ \A k \in 1 .. Len(t) - i + 1 : From(t, i)[k] = t[i + k - 1]
<1>1. ASSUME NEW j \in Nat, j <= Len(t)
      PROVE  /\ Part(t, i, j) \in Seq(A) /\ Len(Part(t, i, j)) = IF i <= j THEN j - i + 1 ELSE 0
             /\ \A k \in 1 .. j - i + 1 : Part(t, i, j)[k] = t[i + k - 1]
  <2>1. \A k \in i .. j : t[k] \in A
    BY <1>1
  <2> QED
    BY <1>1, <2>1, SubSeqProperties DEF Part
<1>2. Len(t) \in Nat /\ Len(t) <= Len(t) /\ From(t, i) = Part(t, i, Len(t))
  BY DEF From, Part
<1> QED
  BY <1>1, <1>2

\* The rest of a text after its first n symbols.
LEMMA FromOf ==
    ASSUME NEW A, NEW t \in Seq(A), NEW n \in 0 .. Len(t)
    PROVE  /\ From(t, n + 1) \in Seq(A) /\ Len(From(t, n + 1)) = Len(t) - n
           /\ \A k \in 1 .. Len(t) - n : From(t, n + 1)[k] = t[n + k]
<1> DEFINE i == n + 1
           l == Len(t)
<1>0. n \in Nat /\ n <= l /\ l \in Nat
  OBVIOUS
<1> HIDE DEF l
<1>1. i \in Nat \ {0} /\ l - i + 1 = l - n /\ (~(i <= l) => l - n = 0)
  BY <1>0
<1>3. \A k \in 1 .. l - n : i + k - 1 = n + k
  BY <1>1
<1> HIDE DEF i
<1>2. /\ From(t, i) \in Seq(A) /\ Len(From(t, i)) = IF i <= l THEN l - i + 1 ELSE 0
      /\ \A k \in 1 .. l - i + 1 : From(t, i)[k] = t[i + k - 1]
  BY <1>1, FromAt DEF l
<1>4. Len(From(t, i)) = l - n /\ \A k \in 1 .. l - n : From(t, i)[k] = t[n + k]
  BY <1>1, <1>2, <1>3
<1> QED
  BY <1>2, <1>4 DEF i, l

\* A text begins with another if it has its symbols.
LEMMA PrefixByIndex ==
    ASSUME NEW A, NEW s \in Seq(A), NEW t \in Seq(A)
    PROVE  IsPrefix(s, t) <=> Len(s) <= Len(t) /\ \A i \in 1 .. Len(s) : t[i] = s[i]
<1>1. Len(s) \in Nat /\ Len(t) \in Nat
  OBVIOUS
<1>2. ASSUME Len(s) <= Len(t)
      PROVE  SubSeq(s, 1, Len(s)) = SubSeq(t, 1, Len(s)) <=> \A i \in 1 .. Len(s) : t[i] = s[i]
  <2>1. SubSeq(s, 1, Len(s)) = s
    BY SubSeqFull
  <2> DEFINE u == Part(t, 1, Len(s))
  <2>2. u \in Seq(A) /\ Len(u) = Len(s) /\ \A i \in 1 .. Len(s) : u[i] = t[i]
    BY <1>1, <1>2, PartOf
  <2>3. u = SubSeq(t, 1, Len(s))
    BY DEF Part
  <2> HIDE DEF u
  <2>4. s = u <=> \A i \in 1 .. Len(s) : u[i] = s[i]
    BY <2>2, SeqEqual
  <2> QED
    BY <2>1, <2>2, <2>3, <2>4
<1> QED
  BY <1>2 DEF IsPrefix

-----------------------------------------------------------------------------
(* Symbols and the order of words                                          *)

\* The classes of symbols have nothing in common.
LEMMA SymbolsDiffer ==
    /\ Space \cap Alnum = {} /\ Space \cap Mark = {} /\ Letter \cap Digit = {} /\ Mark \cap Alnum = {}
    /\ (Letter \cup Digit \cup Mark \cup {Blank}) \cap (Markup \cup {"\n"}) = {}
    /\ Blank \in Space /\ Blank \in Symbol /\ "\n" \in Space /\ "\n" \in Symbol
    /\ "." \notin Space /\ Letter \subseteq Symbol /\ "\n" \notin Letter
  BY Zenon DEF Space, Alnum, Letter, Digit, Mark, Markup, Symbol, Blank

\* The order tells symbols apart.
LEMMA OrderOf ==
    \A s, t \in Symbol : Order[s] \in Nat /\ (Order[s] = Order[t] => s = t)
<1>1. \A x \in Symbol : x = Blank \/ x = "\n" \/ x = "!" \/ x = "." \/ x = "1" \/ x = "<" \/ x = "a" \/ x = "b"
  BY DEF Symbol, Space, Letter, Digit, Mark, Markup
<1>2. Blank \notin {"\n", "!", ".", "1", "<", "a", "b"}
  BY Zenon DEF Blank
<1>3. \A x \in Symbol : Order[x] = IF x = "\n" THEN 1 ELSE IF x = Blank THEN 2 ELSE IF x = "!" THEN 3
         ELSE IF x = "." THEN 4 ELSE IF x = "1" THEN 5 ELSE IF x = "<" THEN 6 ELSE IF x = "a" THEN 7 ELSE 8
  BY <1>2 DEF Order
<1> QED
  BY <1>1, <1>2, <1>3

\* Where one word is below the other: at its end, or at a lesser symbol.
Less(s, t, k) == /\ k \in 1 .. Len(t) /\ k <= Len(s) + 1
                 /\ k = Len(s) + 1 \/ Order[s[k]] < Order[t[k]]
                 /\ \A j \in 1 .. k - 1 : s[j] = t[j]

\* A word is below another if it is less, or has ended, at some symbol.
LEMMA BelowAt ==
    ASSUME NEW s \in Seq(Symbol), NEW t \in Seq(Symbol)
    PROVE  Below(s, t) <=> \E k \in 1 .. Len(t) : Less(s, t, k)
<1>1. Len(s) \in Nat /\ Len(t) \in Nat /\ DOMAIN s = 1 .. Len(s) /\ DOMAIN t = 1 .. Len(t)
  OBVIOUS
<1>2. IsPrefix(s, t) <=> Len(s) <= Len(t) /\ \A i \in 1 .. Len(s) : t[i] = s[i]
  BY PrefixByIndex
<1>3. ASSUME s # t, IsPrefix(s, t)
      PROVE  \E k \in 1 .. Len(t) : Less(s, t, k)
  <2>1. Len(s) # Len(t)
    BY <1>2, <1>3, SeqEqual
  <2>2. Len(s) + 1 \in 1 .. Len(t)
    <3> DEFINE n == Len(s)
               m == Len(t)
    <3>1. n \in Nat /\ m \in Nat /\ n <= m /\ n # m
      BY <1>1, <1>2, <1>3, <2>1
    <3> HIDE DEF n, m
    <3>2. n + 1 \in 1 .. m
      BY <3>1
    <3> QED
      BY <3>2 DEF n, m
  <2>3. Less(s, t, Len(s) + 1)
    BY <1>1, <1>2, <1>3, <2>2 DEF Less
  <2> QED
    BY <2>2, <2>3
<1>4. ASSUME NEW k \in 1 .. Len(t), Less(s, t, k), k = Len(s) + 1
      PROVE  s # t /\ IsPrefix(s, t)
  BY <1>1, <1>2, <1>4 DEF Less
<1>5. ASSUME NEW k \in DOMAIN s \cap DOMAIN t, Order[s[k]] < Order[t[k]], \A j \in 1 .. k - 1 : s[j] = t[j]
      PROVE  \E i \in 1 .. Len(t) : Less(s, t, i)
  BY <1>1, <1>5 DEF Less
<1>6. ASSUME NEW k \in 1 .. Len(t), Less(s, t, k), k # Len(s) + 1
      PROVE  k \in DOMAIN s \cap DOMAIN t /\ Order[s[k]] < Order[t[k]] /\ \A j \in 1 .. k - 1 : s[j] = t[j]
  BY <1>1, <1>6 DEF Less
<1> QED
  BY <1>3, <1>4, <1>5, <1>6 DEF Below

\* The order of words is strict and total.
LEMMA BelowOrder ==
    /\ \A s \in Seq(Symbol) : ~Below(s, s)
    /\ \A s, t, u \in Seq(Symbol) : Below(s, t) /\ Below(t, u) => Below(s, u)
    /\ \A s, t \in Seq(Symbol) : s # t => Below(s, t) \/ Below(t, s)
<1>1. ASSUME NEW s \in Seq(Symbol), Below(s, s)
      PROVE  FALSE
  <2>1. PICK k \in 1 .. Len(s) : Less(s, s, k)
    BY <1>1, BelowAt
  <2>2. Order[s[k]] \in Nat
    BY OrderOf
  <2> QED
    BY <2>1, <2>2 DEF Less
<1>2. ASSUME NEW s \in Seq(Symbol), NEW t \in Seq(Symbol), NEW u \in Seq(Symbol), Below(s, t), Below(t, u)
      PROVE  Below(s, u)
  <2>1. PICK k \in 1 .. Len(t) : Less(s, t, k)
    BY <1>2, BelowAt
  <2>2. PICK l \in 1 .. Len(u) : Less(t, u, l)
    BY <1>2, BelowAt
  <2>3. Len(s) \in Nat /\ Len(t) \in Nat /\ Len(u) \in Nat
    OBVIOUS
  <2>4. CASE k < l
    <3>1. k \in 1 .. Len(u) /\ t[k] = u[k] /\ \A j \in 1 .. k - 1 : t[j] = u[j]
      BY <2>2, <2>3, <2>4 DEF Less
    <3>2. Less(s, u, k)
      BY <2>1, <2>3, <3>1 DEF Less
    <3> QED
      BY <3>1, <3>2, BelowAt
  <2>5. CASE l < k
    <3>1. l \in 1 .. Len(s) /\ l \in 1 .. Len(t) /\ s[l] = t[l] /\ \A j \in 1 .. l - 1 : s[j] = t[j]
      BY <2>1, <2>3, <2>5 DEF Less
    <3>2. Less(s, u, l)
      BY <2>2, <2>3, <3>1 DEF Less
    <3> QED
      BY <3>2, BelowAt
  <2>6. CASE k = l
    <3>1. Order[t[k]] < Order[u[k]] /\ \A j \in 1 .. k - 1 : s[j] = u[j]
      <4>1. l # Len(t) + 1
        BY <2>3, <2>6
      <4>2. Order[t[k]] < Order[u[k]]
        BY <2>2, <2>6, <4>1 DEF Less
      <4> QED
        BY <2>1, <2>2, <2>6, <4>2 DEF Less
    <3>2. k # Len(s) + 1 => k \in 1 .. Len(s)
      BY <2>1, <2>3 DEF Less
    <3>3. t[k] \in Symbol /\ u[k] \in Symbol /\ (k # Len(s) + 1 => s[k] \in Symbol)
      BY <2>6, <3>2
    <3>4. k # Len(s) + 1 => Order[s[k]] < Order[u[k]]
      <4>1. k # Len(s) + 1 => Order[s[k]] < Order[t[k]]
        BY <2>1 DEF Less
      <4>2. Order[t[k]] \in Nat /\ Order[u[k]] \in Nat /\ (k # Len(s) + 1 => Order[s[k]] \in Nat)
        BY <3>3, OrderOf
      <4> QED
        BY <3>1, <4>1, <4>2
    <3>5. Less(s, u, k)
      BY <2>1, <2>2, <2>6, <3>1, <3>4 DEF Less
    <3> QED
      BY <2>6, <3>5, BelowAt
  <2> QED
    BY <2>3, <2>4, <2>5, <2>6
<1>3. ASSUME NEW s \in Seq(Symbol), NEW t \in Seq(Symbol), s # t
      PROVE  Below(s, t) \/ Below(t, s)
  <2> DEFINE differ == {k \in Nat \ {0} : k > Len(s) \/ k > Len(t) \/ s[k] # t[k]}
             k == Least(differ)
  <2>1. Len(s) \in Nat /\ Len(t) \in Nat
    OBVIOUS
  <2>2. differ \in SUBSET Nat /\ Len(s) + 1 \in differ
    BY <2>1
  <2>3. \A j : j \in differ <=> j \in Nat \ {0} /\ (j > Len(s) \/ j > Len(t) \/ s[j] # t[j])
    OBVIOUS
  <2> HIDE DEF differ
  <2>4. k \in differ /\ \A j \in differ : k <= j
    BY <2>2, LeastOf
  <2> HIDE DEF k
  <2>5. k \in Nat \ {0}
    BY <2>3, <2>4
  <2>6. \A j \in 1 .. k - 1 : j \notin differ
    BY <2>2, <2>4, <2>5
  <2>7. \A j \in 1 .. k - 1 : j <= Len(s) /\ j <= Len(t) /\ s[j] = t[j]
    BY <2>1, <2>3, <2>5, <2>6
  <2>8. k <= Len(s) + 1 /\ k <= Len(t) + 1
    <3>1. k = 1 \/ k - 1 \in 1 .. k - 1
      BY <2>5
    <3> QED
      BY <2>1, <2>5, <2>7, <3>1
  <2>9. ~(k > Len(s) /\ k > Len(t))
    <3> SUFFICES ASSUME k > Len(s), k > Len(t) PROVE FALSE
      OBVIOUS
    <3>1. Len(s) = k - 1 /\ Len(t) = k - 1
      BY <2>1, <2>5, <2>8
    <3>2. \A j \in 1 .. Len(s) : s[j] = t[j]
      BY <2>7, <3>1
    <3> QED
      BY <1>3, <3>1, <3>2, SeqEqual
  <2>10. CASE k > Len(s)
    <3>1. k \in 1 .. Len(t) /\ k = Len(s) + 1
      BY <2>1, <2>5, <2>8, <2>9, <2>10
    <3>2. Less(s, t, k)
      BY <2>7, <2>8, <3>1 DEF Less
    <3> QED
      BY <3>1, <3>2, BelowAt
  <2>11. CASE k > Len(t)
    <3>1. k \in 1 .. Len(s) /\ k = Len(t) + 1
      BY <2>1, <2>5, <2>8, <2>9, <2>11
    <3>2. Less(t, s, k)
      BY <2>7, <2>8, <3>1 DEF Less
    <3> QED
      BY <3>1, <3>2, BelowAt
  <2>12. CASE ~(k > Len(s)) /\ ~(k > Len(t))
    <3>1. k \in 1 .. Len(s) /\ k \in 1 .. Len(t) /\ s[k] # t[k]
      BY <2>1, <2>3, <2>4, <2>5, <2>12
    <3>2. Order[s[k]] \in Nat /\ Order[t[k]] \in Nat /\ Order[s[k]] # Order[t[k]]
      BY <3>1, OrderOf
    <3>3. Less(s, t, k) \/ Less(t, s, k)
      BY <2>7, <2>8, <3>1, <3>2 DEF Less
    <3> QED
      BY <3>1, <3>3, BelowAt
  <2> QED
    BY <2>10, <2>11, <2>12
<1> QED
  BY <1>1, <1>2, <1>3

-----------------------------------------------------------------------------
(* Recursive functions                                                     *)

\* What holds at zero and one step on, wherever it holds, holds of every number.
LEMMA CountingUp ==
    ASSUME NEW S, 0 \in S, \A n \in Nat : n \in S => n + 1 \in S
    PROVE  Nat \subseteq S
<1> DEFINE missed == Nat \ S
<1> SUFFICES ASSUME missed # {} PROVE FALSE
  OBVIOUS
<1> DEFINE n == Least(missed)
<1>1. n \in missed /\ \A m \in missed : n <= m
  BY LeastOf
<1> HIDE DEF n
<1>2. n \in Nat \ {0}
  BY <1>1
<1>3. n - 1 \in Nat /\ n - 1 \notin missed
  BY <1>1, <1>2
<1>4. n - 1 + 1 = n
  BY <1>2
<1> QED
  BY <1>1, <1>3, <1>4

\* f calls itself last: at an argument of stop it is the base's value, at any
\* other its own at the next argument.
TailCalls(f, Args, stop, base, next) == f = [p \in Args |-> IF p \in stop THEN base[p] ELSE f[next[p]]]

\* Every step to the next argument stays in Args and lowers the measure M.
Descends(Args, M, stop, next) ==
    /\ M \in [Args -> Nat]
    /\ \A p \in Args : p \notin stop => next[p] \in Args /\ M[next[p]] < M[p]

\* A function that calls itself last, on a lesser argument, is defined ...
LEMMA TailRecursion ==
    ASSUME NEW Args, NEW M, NEW stop, NEW base, NEW next, Descends(Args, M, stop, next)
    PROVE  \E f : TailCalls(f, Args, stop, base, next)
<1> USE DEF Descends
<1> DEFINE Body(g, p) == IF p \in stop THEN base[p] ELSE g[next[p]]
           Good(m, g) == \A p \in Args : M[p] < m => g[p] = Body(g, p)
           S == {m \in Nat : \E g : Good(m, g)}
<1>0. \A p \in Args : M[p] \in Nat
  OBVIOUS
<1>1. 0 \in S
  <2>1. Good(0, base)
    BY <1>0
  <2> QED
    BY <2>1
<1>2. ASSUME NEW m \in Nat, m \in S
      PROVE  m + 1 \in S
  <2>1. PICK g : Good(m, g)
    BY <1>2
  <2> DEFINE h == [p \in Args |-> IF M[p] < m THEN g[p] ELSE Body(g, p)]
  <2>2. ASSUME NEW p \in Args, M[p] < m + 1
        PROVE  h[p] = Body(h, p)
    <3>1. p \notin stop => next[p] \in Args /\ M[next[p]] < m
      <4>1. p \notin stop => next[p] \in Args /\ M[next[p]] < M[p]
        OBVIOUS
      <4>2. p \notin stop => M[next[p]] \in Nat
        BY <4>1, <1>0
      <4> QED
        BY <1>0, <2>2, <4>1, <4>2
    <3>2. h[p] = Body(g, p)
      BY <2>1
    <3>3. p \notin stop => h[next[p]] = g[next[p]]
      BY <3>1
    <3> QED
      BY <3>2, <3>3
  <2> HIDE DEF h
  <2>3. Good(m + 1, h)
    BY <2>2
  <2> QED
    BY <2>3
<1> HIDE DEF S
<1>3. Nat \subseteq S
  BY <1>1, <1>2, CountingUp
<1> DEFINE exact == [m \in Nat |-> CHOOSE g : Good(m, g)]
<1>4. \A m \in Nat : \E g : Good(m, g)
  BY <1>3 DEF S
<1>5. \A m \in Nat : Good(m, exact[m])
  <2> SUFFICES ASSUME NEW m \in Nat PROVE Good(m, exact[m])
    OBVIOUS
  <2> HIDE DEF Good
  <2> QED
    BY <1>4
<1> HIDE DEF exact
\* Whatever is right for the arguments up to p agrees on p.
<1> DEFINE Same(m) == \A p \in Args, i, j \in Nat : M[p] < m /\ m <= i /\ m <= j => exact[i][p] = exact[j][p]
           A == {m \in Nat : Same(m)}
<1>6. 0 \in A
  BY <1>0
<1>7. ASSUME NEW m \in Nat, m \in A
      PROVE  m + 1 \in A
  <2>1. ASSUME NEW p \in Args, NEW i \in Nat, NEW j \in Nat, M[p] < m + 1, m + 1 <= i, m + 1 <= j
        PROVE  exact[i][p] = exact[j][p]
    <3>1. exact[i][p] = Body(exact[i], p) /\ exact[j][p] = Body(exact[j], p)
      <4>1. M[p] < i /\ M[p] < j
        BY <1>0, <2>1
      <4> QED
        BY <1>5, <4>1
    <3>2. p \notin stop => exact[i][next[p]] = exact[j][next[p]]
      <4>1. p \notin stop => next[p] \in Args /\ M[next[p]] < M[p] /\ M[next[p]] \in Nat
        BY <1>0
      <4>2. p \notin stop => M[next[p]] < m
        BY <1>0, <2>1, <4>1
      <4>3. m <= i /\ m <= j
        BY <2>1
      <4> QED
        BY <1>7, <4>1, <4>2, <4>3
    <3> QED
      BY <3>1, <3>2
  <2> QED
    BY <2>1
<1> HIDE DEF A
<1>8. \A m \in Nat : Same(m)
  BY <1>6, <1>7, CountingUp DEF A
<1> DEFINE f == [p \in Args |-> exact[M[p] + 1][p]]
<1>9. ASSUME NEW p \in Args
      PROVE  f[p] = Body(f, p)
  <2>1. M[p] + 1 \in Nat /\ M[p] < M[p] + 1
    BY <1>0
  <2>2. f[p] = Body(exact[M[p] + 1], p)
    BY <1>5, <2>1
  <2>3. p \notin stop => exact[M[p] + 1][next[p]] = f[next[p]]
    <3> SUFFICES ASSUME p \notin stop PROVE exact[M[p] + 1][next[p]] = f[next[p]]
      OBVIOUS
    <3>1. next[p] \in Args /\ M[next[p]] \in Nat /\ M[next[p]] < M[p]
      BY <1>0
    <3> DEFINE q == next[p]
               l == M[next[p]] + 1
               k == M[p] + 1
    <3>2. l \in Nat /\ k \in Nat /\ M[q] < l /\ l <= l /\ l <= k /\ q \in Args
      BY <1>0, <3>1
    <3>3. f[q] = exact[l][q]
      BY <3>1
    <3> HIDE DEF q, l, k
    <3>4. exact[k][q] = exact[l][q]
      BY <1>8, <3>2
    <3> QED
      BY <3>3, <3>4 DEF q, k
  <2> HIDE DEF f
  <2> QED
    BY <2>2, <2>3
<1>10. f = [p \in Args |-> f[p]]
  OBVIOUS
<1> HIDE DEF f
<1>11. f = [p \in Args |-> Body(f, p)]
  BY <1>9, <1>10
<1> QED
  BY <1>11 DEF TailCalls

\* ... and where its calls stay among some arguments, its result is that of one
\* of them that calls no more.
LEMMA TailResult ==
    ASSUME NEW Args, NEW M, NEW stop, NEW base, NEW next, Descends(Args, M, stop, next),
           NEW f, TailCalls(f, Args, stop, base, next),
           NEW I \in SUBSET Args, \A p \in I : p \notin stop => next[p] \in I
    PROVE  \A p \in I : \E q \in I \cap stop : f[p] = base[q]
<1> USE DEF Descends
<1> DEFINE Ends_(p) == \E q \in I \cap stop : f[p] = base[q]
           S == {m \in Nat : \A p \in I : M[p] < m => Ends_(p)}
<1>0. \A p \in Args : M[p] \in Nat
  OBVIOUS
<1>1. \A p \in Args : f[p] = IF p \in stop THEN base[p] ELSE f[next[p]]
  BY DEF TailCalls
<1>2. 0 \in S
  BY <1>0
<1>3. ASSUME NEW m \in Nat, m \in S
      PROVE  m + 1 \in S
  <2>1. ASSUME NEW p \in I, M[p] < m + 1
        PROVE  Ends_(p)
    <3>1. CASE p \in stop
      BY <1>1, <3>1
    <3>2. CASE p \notin stop
      <4>1. next[p] \in I /\ M[next[p]] < M[p] /\ M[next[p]] \in Nat /\ M[p] \in Nat
        BY <1>0, <3>2
      <4>2. M[next[p]] < m
        BY <2>1, <4>1
      <4>3. Ends_(next[p])
        BY <1>3, <4>1, <4>2
      <4> QED
        BY <1>1, <3>2, <4>3
    <3> QED
      BY <3>1, <3>2
  <2> HIDE DEF Ends_
  <2> QED
    BY <2>1
<1> HIDE DEF S
<1>4. Nat \subseteq S
  BY <1>2, <1>3, CountingUp
<1>5. ASSUME NEW p \in I
      PROVE  Ends_(p)
  <2>1. M[p] + 1 \in S /\ M[p] < M[p] + 1
    BY <1>0, <1>4
  <2> HIDE DEF Ends_
  <2> QED
    BY <2>1 DEF S
<1> QED
  BY <1>5

-----------------------------------------------------------------------------
(* The lexicon as a text of lines                                          *)

Size == Cardinality(Lexicon)

\* The words of the lexicon are finitely many texts of letters.
LEMMA LexiconWords ==
    /\ IsFiniteSet(Lexicon) /\ Size \in Nat
    /\ \A w \in Lexicon : w \in Seq(Letter) /\ w \in Seq(Symbol) /\ w # <<>> /\ \A i \in 1 .. Len(w) : w[i] # "\n"
<1>1. ASSUME NEW w \in Lexicon
      PROVE  w \in Seq(Letter) /\ w \in Seq(Symbol) /\ w # <<>> /\ \A i \in 1 .. Len(w) : w[i] # "\n"
  <2>1. w \in Seq(Letter) /\ w # <<>>
    BY WordsAssumption
  <2>2. w \in Seq(Symbol)
    BY <2>1, SymbolsDiffer, SeqMonotonic
  <2>3. \A i \in 1 .. Len(w) : w[i] \in Letter
    BY <2>1
  <2> QED
    BY <2>1, <2>2, <2>3, SymbolsDiffer
<1> QED
  BY <1>1, WordsAssumption, FS_CardinalityType DEF Size

\* The entries are the words, in order.
LEMMA Entries ==
    /\ \A i \in 1 .. Size : Entry(i) \in Lexicon
    /\ \A i, j \in 1 .. Size : i < j => Below(Entry(i), Entry(j))
    /\ \A w \in Lexicon : \E i \in 1 .. Size : w = Entry(i)
<1> DEFINE under == [w \in Lexicon |-> {v \in Lexicon : Below(v, w)}]
<1>1. \A w \in Lexicon : under[w] = {v \in Lexicon : Below(v, w)}
  OBVIOUS
<1>2. under \in [Lexicon -> SUBSET Lexicon]
  OBVIOUS
<1> HIDE DEF under
<1>3. \A v, w \in Lexicon : v \in under[w] <=> Below(v, w)
  BY <1>1
<1>4. /\ \A x \in Lexicon : x \notin under[x]
      /\ \A x, y \in Lexicon : y \in under[x] => under[y] \subseteq under[x]
      /\ \A x, y \in Lexicon : x # y => x \in under[y] \/ y \in under[x]
  <2>1. \A w \in Lexicon : w \in Seq(Symbol)
    BY LexiconWords
  <2>2. \A x \in Lexicon : x \notin under[x]
    BY <1>3, <2>1, BelowOrder
  <2>3. \A x, y \in Lexicon : x # y => x \in under[y] \/ y \in under[x]
    BY <1>3, <2>1, BelowOrder
  <2>4. ASSUME NEW x \in Lexicon, NEW y \in Lexicon, y \in under[x], NEW z \in under[y]
        PROVE  z \in under[x]
    <3>1. z \in Lexicon
      BY <1>2
    <3>2. Below(z, y) /\ Below(y, x)
      BY <1>3, <2>4, <3>1
    <3>3. Below(z, x)
      BY <2>1, <3>1, <3>2, BelowOrder
    <3> QED
      BY <1>3, <3>1, <3>3
  <2> QED
    BY <2>2, <2>3, <2>4
<1>5. /\ \A x \in Lexicon : Cardinality(under[x]) \in 0 .. Size - 1
      /\ \A x, y \in Lexicon : y \in under[x] <=> Cardinality(under[y]) < Cardinality(under[x])
      /\ \A x, y \in Lexicon : Cardinality(under[x]) = Cardinality(under[y]) => x = y
      /\ \A i \in 1 .. Size : \E x \in Lexicon : Cardinality(under[x]) + 1 = i
  BY <1>2, <1>4, LexiconWords, Ranks DEF Size
<1>6. \A i : Entry(i) = CHOOSE w \in Lexicon : Cardinality({v \in Lexicon : Below(v, w)}) = i - 1
  BY DEF Entry
<1>7. ASSUME NEW i \in 1 .. Size
      PROVE  Entry(i) \in Lexicon /\ Cardinality(under[Entry(i)]) = i - 1
  <2>1. PICK x \in Lexicon : Cardinality(under[x]) + 1 = i
    BY <1>5
  <2> DEFINE n == Cardinality(under[x])
  <2>0. n \in Int /\ n + 1 = i
    BY <1>5, <2>1, LexiconWords
  <2> HIDE DEF n
  <2>4. n = i - 1
    BY <2>0
  <2>2. Cardinality({v \in Lexicon : Below(v, x)}) = i - 1
    BY <1>1, <2>4 DEF n
  <2>3. Entry(i) \in Lexicon /\ Cardinality({v \in Lexicon : Below(v, Entry(i))}) = i - 1
    BY <1>6, <2>2
  <2> QED
    BY <1>1, <2>3
<1>8. ASSUME NEW i \in 1 .. Size, NEW j \in 1 .. Size, i < j
      PROVE  Below(Entry(i), Entry(j))
  <2>1. i - 1 < j - 1
    BY <1>8
  <2> QED
    BY <1>3, <1>5, <1>7, <2>1
<1>9. ASSUME NEW w \in Lexicon
      PROVE  \E i \in 1 .. Size : w = Entry(i)
  <2> DEFINE i == Cardinality(under[w]) + 1
  <2>1. Cardinality(under[w]) \in 0 .. Size - 1
    BY <1>5
  <2>2. i \in 1 .. Size /\ i - 1 = Cardinality(under[w])
    BY <2>1, LexiconWords
  <2> HIDE DEF i
  <2>3. Entry(i) \in Lexicon /\ Cardinality(under[Entry(i)]) = Cardinality(under[w])
    BY <1>7, <2>2
  <2> QED
    BY <1>5, <2>2, <2>3
<1> QED
  BY <1>7, <1>8, <1>9

\* The texts of the first lines.
Joined(T) ==
    /\ T \in [0 .. Size -> Seq(Symbol)] /\ T[0] = <<>>
    /\ \A k \in 1 .. Size : T[k] = T[k - 1] \o Append(Entry(k), "\n")

\* Every entry is a word, and so has no line break.
LEMMA EntryTyped ==
    ASSUME NEW k \in 1 .. Size
    PROVE  /\ Entry(k) \in Seq(Symbol) /\ Len(Entry(k)) \in Nat /\ Append(Entry(k), "\n") \in Seq(Symbol)
           /\ \A i \in 1 .. Len(Entry(k)) : Entry(k)[i] # "\n"
<1>1. Entry(k) \in Lexicon
  BY Entries
<1> QED
  BY <1>1, LexiconWords, SymbolsDiffer

\* The text of the lexicon is its lines, one after the other.
LEMMA TextJoined == \E T : Joined(T) /\ LexiconText = T[Size]
<1> DEFINE lines == [i \in 1 .. Size |-> Append(Entry(i), "\n")]
           Upto(m, g) == /\ g \in [0 .. m -> Seq(Symbol)] /\ g[0] = <<>>
                         /\ \A k \in 1 .. m : g[k] = g[k - 1] \o lines[k]
           S == {m \in Nat : m <= Size => \E g : Upto(m, g)}
<1>0. Size \in Nat
  BY LexiconWords
<1>1. \A i \in 1 .. Size : lines[i] = Append(Entry(i), "\n") /\ lines[i] \in Seq(Symbol)
  BY EntryTyped
<1>2. Len(lines) = Size /\ DOMAIN lines = 1 .. Size /\ lines \in Seq(Seq(Symbol))
  BY <1>0, <1>1
<1> HIDE DEF lines
<1>3. 0 \in S
  <2> DEFINE g == [i \in 0 .. 0 |-> <<>>]
  <2>1. Upto(0, g)
    OBVIOUS
  <2> QED
    BY <2>1
<1>4. ASSUME NEW m \in Nat, m \in S
      PROVE  m + 1 \in S
  <2> SUFFICES ASSUME m + 1 <= Size PROVE \E g : Upto(m + 1, g)
    <3> HIDE DEF Upto
    <3> QED
      OBVIOUS
  <2>1. m <= Size /\ m + 1 \in 1 .. Size
    BY <1>0
  <2>2. PICK g : Upto(m, g)
    BY <1>4, <2>1
  <2> DEFINE h == [k \in 0 .. m + 1 |-> IF k <= m THEN g[k] ELSE g[m] \o lines[m + 1]]
  <2>3. g[m] \in Seq(Symbol) /\ lines[m + 1] \in Seq(Symbol)
    BY <1>1, <2>1, <2>2
  <2>4. g[m] \o lines[m + 1] \in Seq(Symbol)
    BY <2>3, ConcatProperties
  <2>5. h \in [0 .. m + 1 -> Seq(Symbol)] /\ h[0] = <<>>
    BY <2>2, <2>4
  <2>6. ASSUME NEW k \in 1 .. m + 1
        PROVE  h[k] = h[k - 1] \o lines[k]
    <3>1. CASE k <= m
      <4>1. k \in 1 .. m /\ k - 1 \in 0 .. m + 1 /\ k - 1 <= m /\ k \in 0 .. m + 1
        BY <3>1
      <4>2. h[k] = g[k] /\ h[k - 1] = g[k - 1]
        BY <3>1, <4>1
      <4> QED
        BY <2>2, <4>1, <4>2
    <3>2. CASE ~(k <= m)
      <4>1. k = m + 1 /\ k - 1 = m /\ m \in 0 .. m + 1 /\ m <= m /\ m + 1 \in 0 .. m + 1 /\ ~(m + 1 <= m)
        BY <3>2
      <4>2. h[m + 1] = g[m] \o lines[m + 1] /\ h[m] = g[m]
        BY <4>1
      <4> QED
        BY <4>1, <4>2
    <3> QED
      BY <3>1, <3>2
  <2> HIDE DEF h
  <2>7. Upto(m + 1, h)
    BY <2>5, <2>6
  <2> QED
    BY <2>7
<1> HIDE DEF S
<1>5. \E g : Upto(Size, g)
  <2> HIDE DEF S
  <2>1. Size \in S
    BY <1>0, <1>3, <1>4, CountingUp
  <2> HIDE DEF Upto
  <2> QED
    BY <1>0, <2>1 DEF S
<1>6. PICK T : Upto(Size, T)
  BY <1>5
<1>7. Joined(T)
  BY <1>1, <1>6 DEF Joined
<1>8. CASE Size = 0
  <2>1. lines = <<>>
    BY <1>2, <1>8, EmptySeq
  <2>2. LexiconText = FlattenSeq(lines)
    BY DEF LexiconText, lines, Size
  <2>3. LexiconText = <<>>
    BY <1>2, <1>8, <2>1, <2>2 DEF FlattenSeq
  <2> QED
    BY <1>6, <1>7, <1>8, <2>3
<1>9. CASE Size # 0
  <2> DEFINE IsIt(g) == g = [i \in 1 .. Len(lines) |-> IF i = 1 THEN lines[i] ELSE g[i - 1] \o lines[i]]
             flatten == CHOOSE g : IsIt(g)
             known == [i \in 1 .. Len(lines) |-> T[i]]
  <2>1. ASSUME NEW i \in 1 .. Len(lines)
        PROVE  known[i] = IF i = 1 THEN lines[i] ELSE known[i - 1] \o lines[i]
    <3>1. T[i] = T[i - 1] \o lines[i] /\ lines[i] \in Seq(Symbol) /\ i \in 1 .. Size
      BY <1>1, <1>2, <1>6
    <3>2. CASE i = 1
      <4>1. T[i] = <<>> \o lines[i]
        <5>1. T[i - 1] = <<>>
          BY <1>6, <3>2
        <5> QED
          BY <3>1, <5>1
      <4> QED
        BY <3>1, <3>2, <4>1, ConcatEmptySeq
    <3>3. CASE i # 1
      <4>1. i - 1 \in 1 .. Len(lines)
        BY <1>0, <1>2, <3>1, <3>3
      <4> QED
        BY <3>1, <3>3, <4>1
    <3> QED
      BY <3>2, <3>3
  <2>2. known = [i \in 1 .. Len(lines) |-> known[i]]
    OBVIOUS
  <2>3. \A i \in 1 .. Len(lines) : known[i] = T[i]
    OBVIOUS
  <2> HIDE DEF known
  <2>4. IsIt(known)
    BY <2>1, <2>2
  <2>5. IsIt(flatten)
    <3> HIDE DEF IsIt
    <3> QED
      BY <2>4
  <2>6. FlattenSeq(lines) = flatten[Len(lines)]
    BY <1>2, <1>9 DEF FlattenSeq
  <2> HIDE DEF flatten
  <2> DEFINE Q == {m \in Nat : m + 1 <= Size => flatten[m + 1] = T[m + 1]}
  <2>7. ASSUME NEW i \in 1 .. Size
        PROVE  flatten[i] = IF i = 1 THEN lines[i] ELSE flatten[i - 1] \o lines[i]
    BY <1>2, <2>5
  <2>8. ASSUME NEW i \in 1 .. Size
        PROVE  T[i] = IF i = 1 THEN lines[i] ELSE T[i - 1] \o lines[i]
    <3>1. known[i] = T[i] /\ (i # 1 => i - 1 \in 1 .. Size /\ known[i - 1] = T[i - 1])
      BY <1>0, <1>2, <2>3
    <3> QED
      BY <1>2, <2>1, <3>1
  <2>9. 0 \in Q
    BY <1>0, <2>7, <2>8
  <2>10. ASSUME NEW m \in Nat, m \in Q
         PROVE  m + 1 \in Q
    <3> SUFFICES ASSUME m + 1 + 1 <= Size PROVE flatten[m + 1 + 1] = T[m + 1 + 1]
      OBVIOUS
    <3>1. m + 1 + 1 \in 1 .. Size /\ m + 1 + 1 # 1 /\ m + 1 + 1 - 1 = m + 1 /\ m + 1 <= Size
      BY <1>0
    <3>2. flatten[m + 1] = T[m + 1]
      BY <2>10, <3>1
    <3> QED
      BY <2>7, <2>8, <3>1, <3>2
  <2> HIDE DEF Q
  <2>11. Size - 1 \in Q /\ Size - 1 + 1 = Size
    BY <1>0, <1>9, <2>9, <2>10, CountingUp
  <2>12. flatten[Size] = T[Size]
    BY <1>0, <2>11 DEF Q
  <2>13. LexiconText = FlattenSeq(lines)
    BY DEF LexiconText, lines, Size
  <2> QED
    BY <1>2, <1>7, <2>6, <2>12, <2>13
<1> QED
  BY <1>8, <1>9

\* Each line follows those before it, which stay.
LEMMA LinesFollow ==
    ASSUME NEW T, Joined(T)
    PROVE  /\ \A k \in 0 .. Size : T[k] \in Seq(Symbol) /\ Len(T[k]) \in Nat
           /\ Len(T[0]) = 0
           /\ \A k \in 1 .. Size : /\ Len(T[k]) = Len(T[k - 1]) + Len(Entry(k)) + 1
                                   /\ \A i \in 1 .. Len(T[k - 1]) : T[k][i] = T[k - 1][i]
                                   /\ \A i \in 1 .. Len(Entry(k)) : T[k][Len(T[k - 1]) + i] = Entry(k)[i]
                                   /\ T[k][Len(T[k])] = "\n"
           /\ \A k, m \in 0 .. Size : k < m => Len(T[k]) < Len(T[m])
           /\ \A k \in 0 .. Size : \A i \in 1 .. Len(T[k]) : T[Size][i] = T[k][i]
<1>0. Size \in Nat
  BY LexiconWords
<1>1. \A k \in 0 .. Size : T[k] \in Seq(Symbol) /\ Len(T[k]) \in Nat
  BY DEF Joined
<1>2. Len(T[0]) = 0
  BY DEF Joined
<1>3. ASSUME NEW k \in 1 .. Size
      PROVE  /\ Len(T[k]) = Len(T[k - 1]) + Len(Entry(k)) + 1
             /\ \A i \in 1 .. Len(T[k - 1]) : T[k][i] = T[k - 1][i]
             /\ \A i \in 1 .. Len(Entry(k)) : T[k][Len(T[k - 1]) + i] = Entry(k)[i]
             /\ T[k][Len(T[k])] = "\n"
  <2> DEFINE line == Append(Entry(k), "\n")
             t == T[k - 1]
             e == Entry(k)
  <2>1. T[k] = t \o line /\ k - 1 \in 0 .. Size
    <3>1. k - 1 \in 0 .. Size
      BY <1>0
    <3> QED
      BY <3>1 DEF Joined
  <2>2. t \in Seq(Symbol) /\ Len(t) \in Nat
    BY <1>1, <2>1
  <2>3. e \in Seq(Symbol) /\ Len(e) \in Nat /\ line \in Seq(Symbol)
    BY EntryTyped
  <2>4. Len(line) = Len(e) + 1 /\ line[Len(e) + 1] = "\n" /\ \A i \in 1 .. Len(e) : line[i] = e[i]
    BY <2>3, SymbolsDiffer, AppendProperties
  <2> HIDE DEF line, t, e
  <2>5. /\ Len(t \o line) = Len(t) + Len(line)
        /\ \A i \in 1 .. Len(t) + Len(line) : (t \o line)[i] = IF i <= Len(t) THEN t[i] ELSE line[i - Len(t)]
    BY <2>2, <2>3, ConcatProperties
  <2>6. Len(T[k]) = Len(t) + Len(e) + 1
    BY <2>1, <2>2, <2>3, <2>4, <2>5
  <2>7. \A i \in 1 .. Len(t) : T[k][i] = t[i]
    BY <2>1, <2>2, <2>3, <2>4, <2>5
  <2>8. \A i \in 1 .. Len(e) : T[k][Len(t) + i] = e[i]
    <3> SUFFICES ASSUME NEW i \in 1 .. Len(e) PROVE T[k][Len(t) + i] = e[i]
      OBVIOUS
    <3>1. Len(t) + i \in 1 .. Len(t) + Len(line) /\ ~(Len(t) + i <= Len(t)) /\ Len(t) + i - Len(t) = i
      BY <2>2, <2>3, <2>4
    <3> QED
      BY <2>1, <2>4, <2>5, <3>1
  <2>9. T[k][Len(t) + Len(e) + 1] = "\n"
    <3>1. /\ Len(t) + Len(e) + 1 \in 1 .. Len(t) + Len(line) /\ ~(Len(t) + Len(e) + 1 <= Len(t))
          /\ Len(t) + Len(e) + 1 - Len(t) = Len(e) + 1
      BY <2>2, <2>3, <2>4
    <3> QED
      BY <2>1, <2>4, <2>5, <3>1
  <2> QED
    BY <2>6, <2>7, <2>8, <2>9 DEF t, e
<1>4. ASSUME NEW k \in 0 .. Size
      PROVE  \A d \in Nat : k + d <= Size => /\ Len(T[k]) + d <= Len(T[k + d])
                                             /\ \A i \in 1 .. Len(T[k]) : T[k + d][i] = T[k][i]
  <2> DEFINE Kept(d) == k + d <= Size => /\ Len(T[k]) + d <= Len(T[k + d])
                                         /\ \A i \in 1 .. Len(T[k]) : T[k + d][i] = T[k][i]
             S == {d \in Nat : Kept(d)}
  <2>1. Kept(0)
    <3>1. k + 0 = k /\ Len(T[k]) \in Nat
      BY <1>1
    <3> QED
      BY <3>1
  <2>2. ASSUME NEW d \in Nat, Kept(d)
        PROVE  Kept(d + 1)
    <3> SUFFICES ASSUME k + (d + 1) <= Size
                 PROVE  /\ Len(T[k]) + (d + 1) <= Len(T[k + (d + 1)])
                        /\ \A i \in 1 .. Len(T[k]) : T[k + (d + 1)][i] = T[k][i]
      OBVIOUS
    <3> DEFINE l == k + (d + 1)
    <3>1. l \in 1 .. Size /\ l - 1 = k + d /\ k + d <= Size /\ k + d \in 0 .. Size
      BY <1>0
    <3>2. Len(T[k]) + d <= Len(T[k + d]) /\ \A i \in 1 .. Len(T[k]) : T[k + d][i] = T[k][i]
      BY <2>2, <3>1
    <3> HIDE DEF l
    <3>3. Len(T[l]) = Len(T[k + d]) + Len(Entry(l)) + 1 /\ \A i \in 1 .. Len(T[k + d]) : T[l][i] = T[k + d][i]
      BY <1>3, <3>1
    <3>4. Len(T[k]) \in Nat /\ Len(T[k + d]) \in Nat /\ Len(Entry(l)) \in Nat
      BY <1>1, <3>1, EntryTyped
    <3>5. \A i \in 1 .. Len(T[k]) : i \in 1 .. Len(T[k + d])
      BY <3>2, <3>4
    <3>6. Len(T[k]) + (d + 1) <= Len(T[l])
      <4> DEFINE x == Len(T[k])
                 y == Len(T[k + d])
                 z == Len(Entry(l))
      <4>1. x \in Nat /\ y \in Nat /\ z \in Nat /\ x + d <= y /\ Len(T[l]) = y + z + 1
        BY <3>2, <3>3, <3>4
      <4> HIDE DEF x, y, z
      <4>2. x + (d + 1) <= Len(T[l])
        BY <4>1
      <4> QED
        BY <4>2 DEF x
    <3>7. \A i \in 1 .. Len(T[k]) : T[l][i] = T[k][i]
      BY <3>2, <3>3, <3>5
    <3> QED
      BY <3>6, <3>7 DEF l
  <2> HIDE DEF Kept
  <2>3. 0 \in S /\ \A d \in Nat : d \in S => d + 1 \in S
    BY <2>1, <2>2
  <2>4. Nat \subseteq S
    <3> HIDE DEF S
    <3> QED
      BY <2>3, CountingUp
  <2> QED
    BY <2>4 DEF Kept
<1>5. ASSUME NEW k \in 0 .. Size, NEW m \in 0 .. Size, k < m
      PROVE  Len(T[k]) < Len(T[m])
  <2>1. m - k \in Nat /\ m - k > 0 /\ k + (m - k) = m /\ m <= Size
    BY <1>0, <1>5
  <2>2. Len(T[k]) + (m - k) <= Len(T[m])
    BY <1>4, <2>1
  <2> QED
    BY <1>1, <2>1, <2>2
<1>6. ASSUME NEW k \in 0 .. Size
      PROVE  \A i \in 1 .. Len(T[k]) : T[Size][i] = T[k][i]
  <2>1. Size - k \in Nat /\ k + (Size - k) = Size /\ Size <= Size
    BY <1>0
  <2> QED
    BY <1>4, <2>1
<1> QED
  BY <1>1, <1>2, <1>3, <1>5, <1>6

\* A line break ends every line, and there is no other.
LEMMA LineBreaks ==
    ASSUME NEW T, Joined(T)
    PROVE  /\ \A k \in 1 .. Size : /\ \A i \in 1 .. Len(Entry(k)) : T[Size][Len(T[k - 1]) + i] = Entry(k)[i]
                                   /\ T[Size][Len(T[k])] = "\n"
           /\ \A i \in 1 .. Len(T[Size]) : T[Size][i] = "\n" => \E k \in 1 .. Size : i = Len(T[k])
<1>0. Size \in Nat
  BY LexiconWords
<1>1. ASSUME NEW k \in 1 .. Size
      PROVE  /\ \A i \in 1 .. Len(Entry(k)) : T[Size][Len(T[k - 1]) + i] = Entry(k)[i]
             /\ T[Size][Len(T[k])] = "\n"
  <2>1. k \in 0 .. Size /\ k - 1 \in 0 .. Size
    BY <1>0
  <2>2. /\ Len(T[k]) \in Nat /\ Len(T[k - 1]) \in Nat /\ Len(Entry(k)) \in Nat
        /\ Len(T[k]) = Len(T[k - 1]) + Len(Entry(k)) + 1
    BY <2>1, LinesFollow, EntryTyped
  <2>3. Len(T[k]) \in 1 .. Len(T[k])
    BY <2>2
  <2>4. \A i \in 1 .. Len(Entry(k)) : Len(T[k - 1]) + i \in 1 .. Len(T[k])
    BY <2>2
  <2>5. /\ \A i \in 1 .. Len(T[k]) : T[Size][i] = T[k][i]
        /\ \A i \in 1 .. Len(Entry(k)) : T[k][Len(T[k - 1]) + i] = Entry(k)[i]
        /\ T[k][Len(T[k])] = "\n"
    BY <2>1, LinesFollow
  <2> QED
    BY <2>3, <2>4, <2>5
<1>2. ASSUME NEW i \in 1 .. Len(T[Size]), T[Size][i] = "\n"
      PROVE  \E k \in 1 .. Size : i = Len(T[k])
  <2> DEFINE past == {k \in 0 .. Size : i <= Len(T[k])}
             k == Least(past)
  <2>1. past \in SUBSET Nat /\ Size \in past
    BY <1>0
  <2>2. \A l : l \in past <=> l \in 0 .. Size /\ i <= Len(T[l])
    OBVIOUS
  <2> HIDE DEF past
  <2>3. k \in past /\ \A l \in past : k <= l
    BY <2>1, LeastOf
  <2> HIDE DEF k
  <2>4. k # 0
    <3>1. Len(T[0]) = 0
      BY LinesFollow
    <3> QED
      BY <2>2, <2>3, <3>1
  <2>5. k \in 1 .. Size /\ k \in 0 .. Size /\ k - 1 \in 0 .. Size /\ i <= Len(T[k])
    BY <1>0, <2>2, <2>3, <2>4
  <2>6. ~(i <= Len(T[k - 1]))
    <3>1. k - 1 \notin past
      BY <2>1, <2>3, <2>5
    <3> QED
      BY <2>2, <2>5, <3>1
  <2>7. /\ Len(T[k]) \in Nat /\ Len(T[k - 1]) \in Nat /\ Len(Entry(k)) \in Nat
        /\ Len(T[k]) = Len(T[k - 1]) + Len(Entry(k)) + 1
    BY <2>5, LinesFollow, EntryTyped
  <2> DEFINE j == i - Len(T[k - 1])
  <2>8. j \in 1 .. Len(Entry(k)) + 1 /\ i = Len(T[k - 1]) + j
    BY <2>5, <2>6, <2>7
  <2> HIDE DEF j
  <2>9. j \notin 1 .. Len(Entry(k))
    BY <1>1, <1>2, <2>5, <2>8, EntryTyped
  <2>10. j = Len(Entry(k)) + 1
    BY <2>7, <2>8, <2>9
  <2>11. i = Len(T[k])
    <3> DEFINE x == Len(T[k - 1])
               z == Len(Entry(k))
    <3>1. x \in Nat /\ z \in Nat /\ Len(T[k]) = x + z + 1 /\ i = x + j /\ j = z + 1
      BY <2>7, <2>8, <2>10
    <3> HIDE DEF x, z
    <3> QED
      BY <3>1
  <2> QED
    BY <2>5, <2>11
<1> QED
  BY <1>1, <1>2

\* The line that starts after k others is the next entry.
LEMMA LineAtStart ==
    ASSUME NEW T, Joined(T), NEW k \in 1 .. Size
    PROVE  LineAt(T[Size], Len(T[k - 1]) + 1) = Entry(k)
<1> DEFINE all_ == T[Size]
           n == Len(T[k - 1])
           e == Entry(k)
           m == Len(e)
           l == Len(all_)
           ends == {j \in n + 1 .. l + 1 : j > l \/ all_[j] = "\n"}
<1>1. Size \in Nat /\ k \in 0 .. Size /\ k - 1 \in 0 .. Size /\ Size \in 0 .. Size
  BY LexiconWords
<1>2. /\ n \in Nat /\ m \in Nat /\ l \in Nat /\ all_ \in Seq(Symbol) /\ e \in Seq(Symbol)
      /\ Len(T[k]) = n + m + 1 /\ \A i \in 1 .. m : e[i] # "\n"
  BY <1>1, LinesFollow, EntryTyped
<1>3. n + m + 1 <= l
  <2>1. k = Size \/ k < Size
    BY <1>1
  <2>2. Len(T[k]) \in Nat /\ (k < Size => Len(T[k]) < l)
    BY <1>1, LinesFollow
  <2>3. Len(T[k]) <= l
    BY <1>2, <2>1, <2>2
  <2> QED
    BY <1>2, <2>3
<1>4. all_[n + m + 1] = "\n" /\ \A i \in 1 .. m : all_[n + i] = e[i]
  BY <1>2, LineBreaks
<1>5. LineAt(all_, n + 1) = Part(all_, n + 1, Least(ends) - 1)
  BY DEF LineAt
<1>6. \A j : j \in ends <=> j \in n + 1 .. l + 1 /\ (j > l \/ all_[j] = "\n")
  OBVIOUS
<1> HIDE DEF n, m, l, e, all_, ends
<1>7. n + m + 1 \in ends /\ ends \in SUBSET Nat
  BY <1>2, <1>3, <1>4, <1>6
<1>8. ASSUME NEW j \in ends, j < n + m + 1
      PROVE  FALSE
  <2>1. j \in n + 1 .. l + 1 /\ j <= l
    BY <1>2, <1>3, <1>6, <1>8
  <2>2. j - n \in 1 .. m /\ n + (j - n) = j
    BY <1>2, <1>8, <2>1
  <2>3. all_[j] = "\n"
    BY <1>2, <1>6, <2>1
  <2> QED
    BY <1>2, <1>4, <2>2, <2>3
<1>9. Least(ends) = n + m + 1
  <2>1. Least(ends) \in ends /\ Least(ends) <= n + m + 1
    BY <1>7, LeastOf
  <2>2. Least(ends) \in Nat /\ ~(Least(ends) < n + m + 1)
    BY <1>7, <1>8, <2>1
  <2> QED
    BY <1>2, <2>1, <2>2
<1> DEFINE line == Part(all_, n + 1, n + m)
<1>10. line \in Seq(Symbol) /\ Len(line) = m /\ \A i \in 1 .. m : line[i] = all_[n + i]
  <2>1. n + m <= Len(all_)
    BY <1>2, <1>3 DEF l
  <2> QED
    BY <1>2, <2>1, Slice
<1>11. Least(ends) - 1 = n + m
  BY <1>2, <1>9
<1> HIDE DEF line
<1>12. line = e
  BY <1>2, <1>4, <1>10, SeqEqual DEF m
<1>13. LineAt(all_, n + 1) = e
  BY <1>5, <1>11, <1>12, Zenon DEF line
<1> QED
  BY <1>13 DEF e, all_, n

-----------------------------------------------------------------------------
(* The bisection                                                           *)

\* The line that holds the middle starts between the lower bound and it.
LEMMA LineStartIn ==
    ASSUME NEW t, NEW low \in Nat \ {0}, NEW middle \in Nat, low <= middle
    PROVE  LET start == LineStart(t, low, middle) IN
           /\ start \in Nat /\ low <= start /\ start <= middle
           /\ start # low => start - 1 \in low .. middle - 1 /\ t[start - 1] = "\n"
<1> DEFINE breaks == {i \in low .. middle - 1 : t[i] = "\n"}
           S == {low - 1} \cup breaks
           g == Greatest(S)
<1>1. S \in SUBSET (0 .. middle) /\ S # {} /\ low - 1 \in S
  OBVIOUS
<1>2. \A i \in S : i = low - 1 \/ (i \in low .. middle - 1 /\ t[i] = "\n")
  OBVIOUS
<1>3. LineStart(t, low, middle) = 1 + g
  BY DEF LineStart
<1> HIDE DEF S
<1>4. g \in S /\ g \in Nat /\ low - 1 <= g
  BY <1>1, GreatestOf
<1>5. g = low - 1 \/ (g \in low .. middle - 1 /\ t[g] = "\n")
  BY <1>2, <1>4
<1> HIDE DEF g
<1>6. 1 + g \in Nat /\ low <= 1 + g /\ 1 + g <= middle /\ 1 + g - 1 = g
  BY <1>4, <1>5
<1> QED
  BY <1>3, <1>4, <1>5, <1>6

\* A line that starts in a text of whole lines ends in it.
LEMMA LineEndsBy ==
    ASSUME NEW t \in Seq(Symbol), Len(t) > 0, t[Len(t)] = "\n", NEW start \in 1 .. Len(t)
    PROVE  Len(LineAt(t, start)) \in Nat /\ start + Len(LineAt(t, start)) <= Len(t)
<1> DEFINE l == Len(t)
           ends == {j \in start .. l + 1 : j > l \/ t[j] = "\n"}
           q == Least(ends)
<1>1. l \in Nat /\ start \in Nat \ {0} /\ start <= l
  OBVIOUS
<1>2. l \in ends /\ ends \in SUBSET Nat /\ \A j \in ends : start <= j
  BY <1>1
<1>3. LineAt(t, start) = Part(t, start, q - 1)
  BY DEF LineAt
<1> HIDE DEF ends
<1>4. q \in ends /\ q <= l
  BY <1>2, LeastOf
<1> HIDE DEF q
<1>5. q \in Nat /\ start <= q
  BY <1>2, <1>4
<1> DEFINE n == start - 1
           m == q - start
<1>6. n \in Nat /\ m \in Nat /\ n + m <= l /\ n + 1 = start /\ n + m = q - 1 /\ start + m <= l
  BY <1>1, <1>4, <1>5
<1> HIDE DEF n, m
<1>7. Len(Part(t, n + 1, n + m)) = m
  BY <1>6, Slice DEF l
<1>8. LineAt(t, start) = Part(t, n + 1, n + m)
  BY <1>3, <1>6, Zenon
<1> QED
  BY <1>6, <1>7, <1>8 DEF l

\* The bisection finds the first entry that is not below the target.
LEMMA Searched ==
    ASSUME NEW target \in Seq(Symbol)
    PROVE  \E k \in 1 .. Size + 1 :
             /\ \A j \in 1 .. Size : j < k => Below(Entry(j), target)
             /\ \A j \in 1 .. Size : k <= j => ~Below(Entry(j), target)
             /\ FirstFrom(target) = IF k = Size + 1 THEN None ELSE Entry(k)
<1>0. Size \in Nat
  BY LexiconWords
<1>1. PICK T : Joined(T) /\ LexiconText = T[Size]
  BY TextJoined
<1> DEFINE txt == T[Size]
           l == Len(txt)
           spots == 1 .. l + 1
           Args == spots \X spots
           stop == {p \in Args : p[1] >= p[2]}
           base == [p \in Args |-> p[1]]
           next == [p \in Args |-> Halved(txt, target, p)]
           M == [p \in Args |-> (l + 1 - p[1]) + p[2]]
<1>2. txt \in Seq(Symbol) /\ l \in Nat
  BY <1>0, <1>1, LinesFollow
<1>3. l > 0 => txt[l] = "\n" /\ Size \in 1 .. Size
  <2> SUFFICES ASSUME l > 0 PROVE txt[l] = "\n" /\ Size \in 1 .. Size
    OBVIOUS
  <2>1. Size # 0
    BY <1>1, LinesFollow
  <2>2. Size \in 1 .. Size
    BY <1>0, <2>1
  <2> QED
    BY <1>1, <2>2, LineBreaks
<1>4. \A p \in Args : p[1] \in 1 .. l + 1 /\ p[2] \in 1 .. l + 1 /\ p[1] \in Nat /\ p[2] \in Nat
  BY <1>2
<1>5. \A p \in Args : M[p] \in Nat /\ M[p] = (l + 1 - p[1]) + p[2] /\ base[p] = p[1]
          /\ next[p] = Halved(txt, target, p) /\ (p \in stop <=> p[1] >= p[2])
  BY <1>2, <1>4
<1>6. M \in [Args -> Nat]
  <2> HIDE DEF Args
  <2> QED
    BY <1>5
<1> HIDE DEF txt, l, stop, base, next, M
\* Where a halving looks.
<1>7. ASSUME NEW p \in Args, p \notin stop
      PROVE  \E middle \in p[1] .. p[2] - 1 :
                LET start == LineStart(txt, p[1], middle)
                    line == LineAt(txt, start)
                IN /\ next[p] = IF Below(line, target) THEN <<start + Len(line) + 1, p[2]>> ELSE <<p[1], start>>
                   /\ start \in p[1] .. middle /\ start \in 1 .. l
                   /\ Len(line) \in Nat /\ start + Len(line) + 1 <= l + 1
                   /\ start # p[1] => start - 1 \in 1 .. l /\ txt[start - 1] = "\n"
  <2> DEFINE low == p[1]
             high == p[2]
             middle == low + (high - low) \div 2
             start == LineStart(txt, low, middle)
             line == LineAt(txt, start)
  <2>1. low \in Nat \ {0} /\ high \in Nat /\ high <= l + 1 /\ low < high
    BY <1>2, <1>4, <1>5, <1>7
  <2>2. next[p] = IF Below(line, target) THEN <<start + Len(line) + 1, high>> ELSE <<low, start>>
    BY <1>5 DEF Halved
  <2> HIDE DEF low, high
  <2>3. middle \in low .. high - 1 /\ middle \in Nat /\ low <= middle
    BY <2>1
  <2> HIDE DEF middle
  <2>4. /\ start \in Nat /\ low <= start /\ start <= middle
        /\ start # low => start - 1 \in low .. middle - 1 /\ txt[start - 1] = "\n"
    BY <2>1, <2>3, LineStartIn
  <2> HIDE DEF start
  <2>5. start \in 1 .. l /\ start \in low .. middle /\ l > 0
    BY <1>2, <2>1, <2>3, <2>4
  <2>6. Len(line) \in Nat /\ start + Len(line) <= l
    BY <1>2, <1>3, <2>5, LineEndsBy DEF l
  <2> HIDE DEF line
  <2>7. start + Len(line) + 1 <= l + 1
    BY <1>2, <2>5, <2>6
  <2>8. start # low => start - 1 \in 1 .. l /\ txt[start - 1] = "\n"
    BY <1>2, <2>1, <2>4, <2>5
  <2> QED
    BY <2>2, <2>3, <2>5, <2>6, <2>7, <2>8 DEF start, line, low, high
<1>8. ASSUME NEW p \in Args, p \notin stop
      PROVE  next[p] \in Args /\ M[next[p]] < M[p]
  <2>1. PICK middle \in p[1] .. p[2] - 1 :
                LET start == LineStart(txt, p[1], middle)
                    line == LineAt(txt, start)
                IN /\ next[p] = IF Below(line, target) THEN <<start + Len(line) + 1, p[2]>> ELSE <<p[1], start>>
                   /\ start \in p[1] .. middle /\ start \in 1 .. l
                   /\ Len(line) \in Nat /\ start + Len(line) + 1 <= l + 1
                   /\ start # p[1] => start - 1 \in 1 .. l /\ txt[start - 1] = "\n"
    BY <1>7, <1>8
  <2> DEFINE start == LineStart(txt, p[1], middle)
             line == LineAt(txt, start)
             far == start + Len(line) + 1
             low == p[1]
             high == p[2]
  <2>2. /\ next[p] = (IF Below(line, target) THEN <<far, high>> ELSE <<low, start>>)
        /\ start \in low .. middle /\ start \in 1 .. l /\ middle \in low .. high - 1
        /\ Len(line) \in Nat /\ far = start + Len(line) + 1 /\ far <= l + 1
    BY <2>1
  <2>3. low \in 1 .. l + 1 /\ high \in 1 .. l + 1 /\ low \in Nat /\ high \in Nat
    BY <1>4
  <2>4. M[p] = (l + 1 - low) + high
    BY <1>5
  <2> HIDE DEF start, line, far, low, high
  <2>5. far \in 1 .. l + 1 /\ far > low /\ start \in 1 .. l + 1 /\ start < high
    BY <1>2, <2>2, <2>3
  <2>6. <<far, high>> \in Args /\ <<low, start>> \in Args
    BY <2>3, <2>5
  <2>7. M[<<far, high>>] = (l + 1 - far) + high /\ M[<<low, start>>] = (l + 1 - low) + start
    BY <1>5, <2>6
  <2>8. M[<<far, high>>] < M[p] /\ M[<<low, start>>] < M[p]
    <3> DEFINE x == M[<<far, high>>]
               y == M[<<low, start>>]
               z == M[p]
    <3>1. x = (l + 1 - far) + high /\ y = (l + 1 - low) + start /\ z = (l + 1 - low) + high
      BY <2>4, <2>7
    <3>2. l \in Nat /\ far \in Nat /\ low \in Nat /\ high \in Nat /\ start \in Nat /\ far > low /\ start < high
      BY <1>2, <2>3, <2>5
    <3> HIDE DEF x, y, z
    <3>3. x < z /\ y < z
      BY <3>1, <3>2
    <3> QED
      BY <3>3 DEF x, y, z
  <2>9. next[p] = <<far, high>> \/ next[p] = <<low, start>>
    BY <2>2
  <2> QED
    BY <2>6, <2>8, <2>9, Zenon
<1> HIDE DEF Args
<1> DEFINE IsIt(f) == f = [p \in spots \X spots |-> IF p[1] >= p[2] THEN p[1] ELSE f[Halved(txt, target, p)]]
           search == CHOOSE f : IsIt(f)
<1>28. Descends(Args, M, stop, next)
  BY <1>6, <1>8 DEF Descends
<1>9. \A f : IsIt(f) <=> TailCalls(f, Args, stop, base, next)
  <2> SUFFICES ASSUME NEW f PROVE IsIt(f) <=> TailCalls(f, Args, stop, base, next)
    OBVIOUS
  <2>1. \A p \in Args : (IF p \in stop THEN base[p] ELSE f[next[p]])
                        = (IF p[1] >= p[2] THEN p[1] ELSE f[Halved(txt, target, p)])
    BY <1>5
  <2>2. [p \in Args |-> IF p \in stop THEN base[p] ELSE f[next[p]]]
        = [p \in Args |-> IF p[1] >= p[2] THEN p[1] ELSE f[Halved(txt, target, p)]]
    BY <2>1
  <2>3. Args = spots \X spots
    BY DEF Args
  <2> QED
    BY <2>2, <2>3 DEF TailCalls
<1>10. \E f : IsIt(f)
  <2>1. \E f : TailCalls(f, Args, stop, base, next)
    BY <1>28, TailRecursion
  <2> HIDE DEF IsIt
  <2> QED
    BY <1>9, <2>1
<1>11. IsIt(search)
  <2> HIDE DEF IsIt
  <2> QED
    BY <1>10
<1>12. FirstFrom(target) = LET found == search[<<1, l + 1>>] IN IF found > l THEN None ELSE LineAt(txt, found)
  BY <1>1 DEF FirstFrom, txt, l
<1> HIDE DEF search
<1>13. TailCalls(search, Args, stop, base, next)
  BY <1>9, <1>11
<1> HIDE DEF IsIt
<1> DEFINE Held(p, a, b) == /\ p = <<Len(T[a]) + 1, Len(T[b]) + 1>> /\ a <= b
                            /\ \A j \in 1 .. Size : j <= a => Below(Entry(j), target)
                            /\ \A j \in 1 .. Size : b < j => ~Below(Entry(j), target)
           I == {p \in Args : \E a, b \in 0 .. Size : Held(p, a, b)}
<1>14. \A k \in 0 .. Size : Len(T[k]) \in Nat /\ Len(T[k]) <= l
  <2> SUFFICES ASSUME NEW k \in 0 .. Size PROVE Len(T[k]) \in Nat /\ Len(T[k]) <= l
    OBVIOUS
  <2>1. Size \in 0 .. Size /\ (k = Size \/ k < Size)
    BY <1>0
  <2>2. Len(T[k]) \in Nat /\ (k < Size => Len(T[k]) < Len(T[Size]))
    BY <1>1, <2>1, LinesFollow
  <2> QED
    BY <1>2, <2>1, <2>2 DEF l, txt
<1>15. \A j, k \in 0 .. Size : Len(T[j]) <= Len(T[k]) => j <= k
  <2> SUFFICES ASSUME NEW j \in 0 .. Size, NEW k \in 0 .. Size, k < j PROVE ~(Len(T[j]) <= Len(T[k]))
    BY <1>0
  <2>1. Len(T[k]) < Len(T[j])
    BY <1>1, LinesFollow
  <2> QED
    BY <1>14, <2>1
<1>16. ASSUME NEW p \in I, p \notin stop
       PROVE  next[p] \in I
  <2>0. p \in Args
    OBVIOUS
  <2>1. PICK a \in 0 .. Size, b \in 0 .. Size : Held(p, a, b)
    OBVIOUS
  <2> DEFINE low == Len(T[a]) + 1
             high == Len(T[b]) + 1
  <2>2. p[1] = low /\ p[2] = high /\ a <= b
    BY <2>1
  <2>3. low < high /\ low \in Nat /\ high \in Nat
    <3>1. ~(low >= high)
      BY <1>5, <1>16, <2>0, <2>2
    <3> QED
      BY <1>14, <3>1
  <2>4. PICK middle \in low .. high - 1 :
                LET start == LineStart(txt, low, middle)
                    line == LineAt(txt, start)
                IN /\ next[p] = IF Below(line, target) THEN <<start + Len(line) + 1, high>> ELSE <<low, start>>
                   /\ start \in low .. middle /\ start \in 1 .. l
                   /\ Len(line) \in Nat /\ start + Len(line) + 1 <= l + 1
                   /\ start # low => start - 1 \in 1 .. l /\ txt[start - 1] = "\n"
    BY <1>7, <1>16, <2>0, <2>2
  <2> DEFINE start == LineStart(txt, low, middle)
             line == LineAt(txt, start)
  <2>5. /\ next[p] = (IF Below(line, target) THEN <<start + Len(line) + 1, high>> ELSE <<low, start>>)
        /\ start \in low .. middle /\ start \in 1 .. l
        /\ start # low => start - 1 \in 1 .. l /\ txt[start - 1] = "\n"
    BY <2>4
  <2> HIDE DEF start, line
  <2>6. start \in Nat /\ low <= start /\ start < high
    BY <2>3, <2>5
  <2>7. PICK c \in 0 .. Size : start = Len(T[c]) + 1
    <3>1. CASE start = low
      BY <3>1
    <3>2. CASE start # low
      <4>1. PICK k \in 1 .. Size : start - 1 = Len(T[k])
        BY <1>1, <2>5, <3>2, LineBreaks DEF txt, l
      <4>2. k \in 0 .. Size /\ start = Len(T[k]) + 1
        BY <1>0, <1>14, <2>6, <4>1
      <4> QED
        BY <4>2
    <3> QED
      BY <3>1, <3>2
  <2>8. a <= c /\ c < b
    <3>1. Len(T[a]) <= Len(T[c]) /\ ~(Len(T[b]) <= Len(T[c]))
      BY <1>14, <2>6, <2>7
    <3>2. a <= c /\ b # c
      BY <1>14, <1>15, <3>1
    <3>3. Len(T[c]) <= Len(T[b])
      BY <1>14, <3>1
    <3> QED
      BY <1>0, <1>15, <3>2, <3>3
  <2>9. c + 1 \in 1 .. Size /\ c + 1 \in 0 .. Size /\ c + 1 - 1 = c
    BY <1>0, <2>8
  <2>10. line = Entry(c + 1)
    <3>1. LineAt(T[Size], Len(T[c + 1 - 1]) + 1) = Entry(c + 1)
      BY <1>1, <2>9, LineAtStart
    <3> QED
      BY <2>7, <2>9, <3>1 DEF line, txt
  <2>11. start + Len(line) + 1 = Len(T[c + 1]) + 1
    <3>0. \A k \in 1 .. Size : Len(T[k]) = Len(T[k - 1]) + Len(Entry(k)) + 1
      BY <1>1, LinesFollow, Zenon
    <3>1. Len(T[c + 1]) = Len(T[c]) + Len(Entry(c + 1)) + 1
      <4> DEFINE k == c + 1
      <4>1. k \in 1 .. Size /\ k - 1 = c
        BY <2>9
      <4> HIDE DEF k
      <4>2. Len(T[k]) = Len(T[c]) + Len(Entry(k)) + 1
        BY <3>0, <4>1, Zenon
      <4> QED
        BY <4>2 DEF k
    <3>2. Len(T[c]) \in Nat /\ Len(Entry(c + 1)) \in Nat
      BY <1>14, <2>9, EntryTyped
    <3> DEFINE m == Len(T[c])
               e == Len(Entry(c + 1))
               o == Len(T[c + 1])
    <3>3. o = m + e + 1 /\ m \in Nat /\ e \in Nat /\ start = m + 1 /\ Len(line) = e
      BY <2>7, <2>10, <3>1, <3>2, Zenon
    <3> HIDE DEF m, e, o
    <3>4. start + Len(line) + 1 = o + 1
      BY <3>3
    <3> QED
      BY <3>4 DEF o
  <2>12. \A j \in 1 .. Size : Entry(j) \in Seq(Symbol)
    BY EntryTyped
  <2>13. CASE Below(line, target)
    <3>1. \A j \in 1 .. Size : j <= c + 1 => Below(Entry(j), target)
      <4> SUFFICES ASSUME NEW j \in 1 .. Size, j <= c + 1 PROVE Below(Entry(j), target)
        OBVIOUS
      <4>1. j = c + 1 \/ j < c + 1
        BY <2>9
      <4>2. j < c + 1 => Below(Entry(j), Entry(c + 1))
        BY <2>9, Entries
      <4> QED
        BY <2>9, <2>10, <2>12, <2>13, <4>1, <4>2, BelowOrder
    <3>2. next[p] = <<Len(T[c + 1]) + 1, high>>
      BY <2>5, <2>11, <2>13
    <3>3. c + 1 <= b
      BY <2>8
    <3>4. Held(next[p], c + 1, b)
      BY <2>1, <3>1, <3>2, <3>3
    <3>5. next[p] \in Args
      BY <1>8, <1>16, <2>0
    <3> HIDE DEF Held
    <3> QED
      BY <2>9, <3>4, <3>5
  <2>14. CASE ~Below(line, target)
    <3>1. \A j \in 1 .. Size : c < j => ~Below(Entry(j), target)
      <4> SUFFICES ASSUME NEW j \in 1 .. Size, c < j, Below(Entry(j), target) PROVE FALSE
        OBVIOUS
      <4>1. j = c + 1 \/ c + 1 < j
        BY <2>9
      <4>2. c + 1 < j => Below(Entry(c + 1), Entry(j))
        BY <2>9, Entries
      <4> QED
        BY <2>9, <2>10, <2>12, <2>14, <4>1, <4>2, BelowOrder
    <3>2. next[p] = <<low, Len(T[c]) + 1>>
      BY <2>5, <2>7, <2>14
    <3>3. Held(next[p], a, c)
      BY <2>1, <2>8, <3>1, <3>2
    <3>4. next[p] \in Args
      BY <1>8, <1>16, <2>0
    <3> HIDE DEF Held
    <3> QED
      BY <3>3, <3>4
  <2> QED
    BY <2>13, <2>14
<1>17. <<1, l + 1>> \in I
  <2>1. Len(T[0]) = 0 /\ Size \in 0 .. Size /\ 0 \in 0 .. Size /\ 0 <= Size
    BY <1>0, <1>1, LinesFollow
  <2>2. <<1, l + 1>> \in Args
    BY <1>2 DEF Args
  <2>3. <<1, l + 1>> = <<Len(T[0]) + 1, Len(T[Size]) + 1>>
    BY <2>1 DEF l, txt
  <2>4. /\ \A j \in 1 .. Size : j <= 0 => Below(Entry(j), target)
        /\ \A j \in 1 .. Size : Size < j => ~Below(Entry(j), target)
    BY <1>0
  <2>5. Held(<<1, l + 1>>, 0, Size)
    BY <2>1, <2>3, <2>4
  <2> HIDE DEF Held
  <2> QED
    BY <2>1, <2>2, <2>5
<1>18. \E q \in I \cap stop : search[<<1, l + 1>>] = base[q]
  <2>1. I \in SUBSET Args /\ (\A p \in I : p \notin stop => next[p] \in I)
    BY <1>16
  <2> HIDE DEF I
  <2>2. \A p \in I : \E q \in I \cap stop : search[p] = base[q]
    BY <1>28, <1>13, <2>1, TailResult
  <2> QED
    BY <1>17, <2>2
<1>19. PICK q \in I \cap stop : search[<<1, l + 1>>] = base[q]
  BY <1>18
<1>20. PICK a \in 0 .. Size, b \in 0 .. Size : Held(q, a, b)
  OBVIOUS
<1>21. a = b /\ search[<<1, l + 1>>] = Len(T[a]) + 1
  <2>1. q[1] = Len(T[a]) + 1 /\ q[2] = Len(T[b]) + 1 /\ a <= b
    BY <1>20
  <2>2. q[1] >= q[2] /\ base[q] = q[1]
    BY <1>5
  <2>3. Len(T[b]) <= Len(T[a])
    BY <1>14, <2>1, <2>2
  <2>4. b <= a
    BY <1>15, <2>3
  <2> QED
    BY <1>19, <2>1, <2>2, <2>4
<1>22. a + 1 \in 1 .. Size + 1 /\ a + 1 - 1 = a
  BY <1>0
<1>23. CASE a = Size
  <2>1. FirstFrom(target) = None
    <3>1. search[<<1, l + 1>>] = l + 1 /\ l + 1 > l
      BY <1>2, <1>21, <1>23 DEF l, txt
    <3> QED
      BY <1>12, <3>1
  <2>2. \A j \in 1 .. Size : j < a + 1 => Below(Entry(j), target)
    BY <1>20, <1>22
  <2>3. \A j \in 1 .. Size : ~(a + 1 <= j)
    BY <1>0, <1>23
  <2> QED
    BY <1>22, <1>23, <2>1, <2>2, <2>3
<1>24. CASE a # Size
  <2>1. a + 1 \in 1 .. Size
    BY <1>0, <1>24
  <2>2. LineAt(T[Size], Len(T[a + 1 - 1]) + 1) = Entry(a + 1)
    BY <1>1, <2>1, LineAtStart
  <2>3. ~(Len(T[a]) + 1 > l)
    <3>1. Len(T[a]) < Len(T[Size]) /\ Len(T[a]) \in Nat
      BY <1>0, <1>1, <1>24, LinesFollow
    <3> QED
      BY <1>2, <3>1 DEF l, txt
  <2>4. FirstFrom(target) = Entry(a + 1)
    <3>1. FirstFrom(target) = LineAt(txt, Len(T[a]) + 1)
      BY <1>12, <1>21, <2>3
    <3> QED
      BY <1>22, <2>2, <3>1 DEF txt
  <2>5. \A j \in 1 .. Size : j < a + 1 => Below(Entry(j), target)
    BY <1>20, <1>22
  <2>6. \A j \in 1 .. Size : a + 1 <= j => ~Below(Entry(j), target)
    BY <1>20, <1>21
  <2>7. a + 1 # Size + 1
    BY <1>0, <1>24
  <2> QED
    BY <1>22, <2>4, <2>5, <2>6, <2>7
<1> QED
  BY <1>23, <1>24

\* A lookup knows the words of the lexicon and no other.
LEMMA KnownExactly ==
    ASSUME NEW w \in Seq(Symbol)
    PROVE  KnownWord(w) <=> w \in Lexicon
<1>1. PICK k \in 1 .. Size + 1 :
             /\ \A j \in 1 .. Size : j < k => Below(Entry(j), w)
             /\ \A j \in 1 .. Size : k <= j => ~Below(Entry(j), w)
             /\ FirstFrom(w) = IF k = Size + 1 THEN None ELSE Entry(k)
  BY Searched
<1>2. Size \in Nat /\ (k # Size + 1 => k \in 1 .. Size)
  BY LexiconWords
<1>3. ASSUME KnownWord(w)
      PROVE  w \in Lexicon
  BY <1>1, <1>2, <1>3, Entries DEF KnownWord
<1>4. ASSUME w \in Lexicon
      PROVE  KnownWord(w)
  <2>1. PICK i \in 1 .. Size : w = Entry(i)
    BY <1>4, Entries
  <2>2. ~Below(w, w)
    BY BelowOrder
  <2>3. k <= i
    BY <1>1, <1>2, <2>1, <2>2
  <2>4. k \in 1 .. Size
    BY <1>2, <2>3
  <2>5. k = i
    <3>1. k < i => Below(Entry(k), Entry(i))
      BY <2>4, Entries
    <3>2. ~Below(Entry(k), w)
      BY <1>1, <2>4
    <3> QED
      BY <2>1, <2>3, <3>1, <3>2
  <2>6. w # None
    BY <1>4, LexiconWords DEF None
  <2> QED
    BY <1>1, <1>2, <2>1, <2>4, <2>5, <2>6 DEF KnownWord
<1> QED
  BY <1>3, <1>4

-----------------------------------------------------------------------------
(* What of an answer is shown                                              *)

\* The first n symbols of a text.
LEMMA StartOf ==
    ASSUME NEW A, NEW t \in Seq(A), NEW n \in 0 .. Len(t)
    PROVE  /\ Part(t, 1, n) \in Seq(A) /\ Len(Part(t, 1, n)) = n /\ n \in Nat /\ n <= Len(t) /\ Len(t) \in Nat
           /\ \A k \in 1 .. n : Part(t, 1, n)[k] = t[k]
<1> DEFINE z == 0
<1>1. z \in Nat /\ n \in Nat /\ z + n <= Len(t) /\ n <= Len(t) /\ Len(t) \in Nat /\ z + 1 = 1 /\ z + n = n
      /\ \A k \in 1 .. n : z + k = k
  OBVIOUS
<1> HIDE DEF z
<1>2. /\ Part(t, z + 1, z + n) \in Seq(A) /\ Len(Part(t, z + 1, z + n)) = n
      /\ \A k \in 1 .. n : Part(t, z + 1, z + n)[k] = t[z + k]
  <2>1. t \in Seq(A) /\ z \in Nat /\ n \in Nat /\ z + n <= Len(t)
    BY <1>1
  <2> QED
    BY <2>1, Slice
<1> QED
  BY <1>1, <1>2, Zenon

\* The part of a part that starts where the text does is the text's.
LEMMA PartOfStart ==
    ASSUME NEW A, NEW t \in Seq(A), NEW n \in 0 .. Len(t), NEW i \in 1 .. n + 1, NEW j \in 0 .. n
    PROVE  Part(Part(t, 1, n), i, j) = Part(t, i, j)
<1> DEFINE p == Part(t, 1, n)
           x == Part(p, i, j)
           y == Part(t, i, j)
<1>1. n \in Nat /\ n <= Len(t) /\ 1 \in Nat \ {0} /\ i \in Nat \ {0} /\ j \in Nat /\ j <= n /\ Len(t) \in Nat
  OBVIOUS
<1>2. p \in Seq(A) /\ Len(p) = n /\ \A k \in 1 .. n : p[k] = t[k]
  BY StartOf
<1> HIDE DEF p
<1> HIDE DEF x, y
<1>3. /\ x \in Seq(A) /\ Len(x) = (IF i <= j THEN j - i + 1 ELSE 0)
      /\ \A k \in 1 .. j - i + 1 : x[k] = p[i + k - 1]
  <2>1. j <= Len(p) /\ i \in Nat \ {0} /\ j \in Nat /\ p \in Seq(A)
    BY <1>1, <1>2
  <2>2. /\ Part(p, i, j) \in Seq(A) /\ Len(Part(p, i, j)) = (IF i <= j THEN j - i + 1 ELSE 0)
        /\ \A k \in 1 .. j - i + 1 : Part(p, i, j)[k] = p[i + k - 1]
    BY <2>1, PartOf, SMTT(60)
  <2> QED
    BY <2>2 DEF x
<1>4. /\ y \in Seq(A) /\ Len(y) = (IF i <= j THEN j - i + 1 ELSE 0)
      /\ \A k \in 1 .. j - i + 1 : y[k] = t[i + k - 1]
  <2>1. j <= Len(t) /\ i \in Nat \ {0} /\ j \in Nat
    BY <1>1
  <2>2. /\ Part(t, i, j) \in Seq(A) /\ Len(Part(t, i, j)) = (IF i <= j THEN j - i + 1 ELSE 0)
        /\ \A k \in 1 .. j - i + 1 : Part(t, i, j)[k] = t[i + k - 1]
    BY <2>1, PartOf, SMTT(60)
  <2> QED
    BY <2>2 DEF y
<1>5. \A k \in 1 .. j - i + 1 : i + k - 1 \in 1 .. n
  BY <1>1
<1>6. \A k \in 1 .. Len(x) : k \in 1 .. j - i + 1
  BY <1>1, <1>3
<1>7. \A k \in 1 .. Len(x) : x[k] = y[k]
  BY <1>2, <1>3, <1>4, <1>5, <1>6
<1>8. Len(x) = Len(y)
  BY <1>3, <1>4
<1>9. x = y
  BY <1>3, <1>4, <1>7, <1>8, SeqEqual
<1> QED
  BY <1>9 DEF x, y, p

\* A text of letters has no digits.
LEMMA LettersOnly ==
    ASSUME NEW t \in Seq(Symbol), Only(t, Letter)
    PROVE  DigitRuns(t) = {} /\ ~Some(t, Markup \cup {"\n"})
<1>1. \A i \in 1 .. Len(t) : t[i] \in Letter
  BY DEF Only
<1>2. Letter \cap Digit = {} /\ Letter \cap (Markup \cup {"\n"}) = {}
  BY SymbolsDiffer
<1>3. ASSUME NEW r \in Spans(t), r[1] <= r[2], \A k \in r[1] .. r[2] : t[k] \in Digit
      PROVE  FALSE
  <2>1. r[1] \in 1 .. Len(t) /\ r[1] \in r[1] .. r[2]
    BY <1>3 DEF Spans
  <2> QED
    BY <1>1, <1>2, <1>3, <2>1
<1> QED
  BY <1>1, <1>2, <1>3 DEF DigitRuns, Some

\* A start of a text that cuts no number has no other numbers.
LEMMA NumbersOfStart ==
    ASSUME NEW t \in Seq(Symbol), NEW n \in 0 .. Len(t),
           n \in 1 .. Len(t) - 1 => ~(t[n] \in Digit /\ t[n + 1] \in Digit)
    PROVE  DigitRuns(Part(t, 1, n)) \subseteq DigitRuns(t)
<1> DEFINE p == Part(t, 1, n)
<1>1. p \in Seq(Symbol) /\ Len(p) = n /\ (\A k \in 1 .. n : p[k] = t[k]) /\ n \in Nat /\ Len(t) \in Nat /\ n <= Len(t)
  BY StartOf
<1>2. ASSUME NEW r \in Spans(p),
             r[1] <= r[2], \A k \in r[1] .. r[2] : p[k] \in Digit,
             r[1] - 1 \in DOMAIN p => p[r[1] - 1] \notin Digit,
             r[2] + 1 \in DOMAIN p => p[r[2] + 1] \notin Digit
      PROVE  Part(p, r[1], r[2]) \in DigitRuns(t)
  <2> DEFINE i == r[1]
             j == r[2]
  <2>1. i \in 1 .. n /\ j \in 1 .. n /\ r = <<i, j>> /\ i <= j
    BY <1>1, <1>2 DEF Spans
  <2>2. /\ \A k \in i .. j : p[k] \in Digit
        /\ (i - 1 \in 1 .. n => p[i - 1] \notin Digit) /\ (j + 1 \in 1 .. n => p[j + 1] \notin Digit)
    BY <1>1, <1>2
  <2> HIDE DEF i, j, p
  <2>3. \A k \in i .. j : t[k] \in Digit
    BY <1>1, <2>1, <2>2
  <2>4. i - 1 \in 1 .. Len(t) => t[i - 1] \notin Digit
    <3>1. i - 1 \in 1 .. Len(t) => i - 1 \in 1 .. n
      BY <1>1, <2>1
    <3> QED
      BY <1>1, <2>2, <3>1
  <2>5. j + 1 \in 1 .. Len(t) => t[j + 1] \notin Digit
    <3>1. CASE j < n
      BY <1>1, <2>1, <2>2, <3>1
    <3>2. CASE j = n
      <4>1. t[n] \in Digit
        BY <2>1, <2>3, <3>2
      <4> QED
        BY <1>1, <2>1, <3>2, <4>1
    <3> QED
      BY <1>1, <2>1, <3>1, <3>2
  <2>6. r \in Spans(t)
    BY <1>1, <2>1 DEF Spans
  <2>7. Part(t, i, j) \in DigitRuns(t)
    <3>1. r[1] = i /\ r[2] = j /\ DOMAIN t = 1 .. Len(t)
      BY <2>1
    <3> QED
      BY <2>1, <2>3, <2>4, <2>5, <2>6, <3>1 DEF DigitRuns
  <2>8. Part(p, i, j) = Part(t, i, j)
    <3>1. i \in 1 .. n + 1 /\ j \in 0 .. n
      BY <1>1, <2>1
    <3> QED
      BY <3>1, PartOfStart DEF p
  <2> QED
    BY <2>7, <2>8 DEF i, j
<1> QED
  BY <1>2 DEF DigitRuns

\* A symbol of a word is in one of the text's words.
LEMMA WordAround ==
    ASSUME NEW t \in Seq(Symbol), NEW i \in 1 .. Len(t), InWord(t, i)
    PROVE  \E s \in WordSpans(t) : s[1] <= i /\ i <= s[2]
<1> DEFINE l == Len(t)
           B == {0} \cup {k \in 1 .. i - 1 : ~InWord(t, k)}
           E == {k \in i + 1 .. l + 1 : ~InWord(t, k)}
           g == Greatest(B)
           e == Least(E)
<1>1. l \in Nat /\ i \in Nat /\ 1 <= i /\ i <= l /\ DOMAIN t = 1 .. l
  OBVIOUS
<1>2. \A k : InWord(t, k) => k \in 1 .. l
  BY <1>1 DEF InWord
<1>3. B \in SUBSET (0 .. i) /\ B # {} /\ E \in SUBSET Nat /\ l + 1 \in E
  BY <1>1, <1>2
<1>4. /\ \A k : k \in B <=> k = 0 \/ (k \in 1 .. i - 1 /\ ~InWord(t, k))
      /\ \A k : k \in E <=> k \in i + 1 .. l + 1 /\ ~InWord(t, k)
  BY <1>1
<1> HIDE DEF B, E, l
<1>5. g \in B /\ g \in Nat /\ \A k \in B : k <= g
  BY <1>1, <1>3, GreatestOf
<1>6. e \in E /\ \A k \in E : e <= k
  BY <1>3, LeastOf
<1> HIDE DEF g, e
<1>7. g < i /\ i < e /\ e \in Nat /\ e <= l + 1 /\ ~InWord(t, g) /\ ~InWord(t, e)
  BY <1>1, <1>2, <1>4, <1>5, <1>6
<1>8. \A k \in g + 1 .. e - 1 : InWord(t, k)
  <2> SUFFICES ASSUME NEW k \in g + 1 .. e - 1, ~InWord(t, k) PROVE FALSE
    OBVIOUS
  <2>1. k \in Nat /\ g < k /\ k < e
    BY <1>5, <1>7
  <2>2. k # i /\ (k < i \/ k > i)
    BY <1>1, <2>1
  <2>3. k < i => k \in B
    BY <1>1, <1>4, <1>5, <2>1
  <2>4. k > i => k \in E
    BY <1>1, <1>4, <1>7, <2>1
  <2> QED
    BY <1>5, <1>6, <1>7, <2>1, <2>2, <2>3, <2>4
<1> DEFINE s == <<g + 1, e - 1>>
<1>9. s \in Spans(t) /\ s[1] = g + 1 /\ s[2] = e - 1 /\ s[1] - 1 = g /\ s[2] + 1 = e
  BY <1>1, <1>5, <1>7 DEF Spans, l
<1>10. s[1] <= s[2] /\ s[1] <= i /\ i <= s[2]
  BY <1>1, <1>5, <1>7, <1>9
<1>11. s \in WordSpans(t)
  BY <1>7, <1>8, <1>9, <1>10 DEF WordSpans
<1> QED
  BY <1>10, <1>11

\* The first of some words of a text.
LEMMA FirstOf ==
    ASSUME NEW t \in Seq(Symbol), NEW S \in SUBSET WordSpans(t), S # {},
           NEW first, first = CHOOSE s \in S : \A r \in S : s[1] <= r[1]
    PROVE  first \in S /\ first[1] \in 1 .. Len(t) /\ first[2] \in 1 .. Len(t)
<1> DEFINE N == {s[1] : s \in S}
<1>1. \A s \in WordSpans(t) : s[1] \in 1 .. Len(t) /\ s[2] \in 1 .. Len(t)
  BY DEF WordSpans, Spans
<1>2. N \in SUBSET Nat /\ N # {}
  BY <1>1
<1>3. Least(N) \in N /\ \A n \in N : Least(N) <= n
  BY <1>2, LeastOf
<1>4. \E s \in S : \A r \in S : s[1] <= r[1]
  BY <1>3
<1>5. first \in S
  BY <1>4
<1> QED
  BY <1>1, <1>5

\* Where the text after its leading space starts.
LEMMA TrimmedAt ==
    ASSUME NEW t \in Seq(Symbol), ~Only(t, Space)
    PROVE  \E n \in 0 .. Len(t) - 1 :
             /\ TrimStart(t) = From(t, n + 1) /\ Len(TrimStart(t)) = Len(t) - n
             /\ t[n + 1] \notin Space /\ \A k \in 1 .. n : t[k] \in Space
<1> DEFINE l == Len(t)
           S == {i \in 1 .. l + 1 : i > l \/ t[i] \notin Space}
           e == Least(S)
<1>1. l \in Nat /\ DOMAIN t = 1 .. l
  OBVIOUS
<1>2. PICK j \in 1 .. l : t[j] \notin Space
  BY <1>1 DEF Only
<1>3. S \in SUBSET Nat /\ j \in S /\ S # {}
  BY <1>1, <1>2
<1>4. \A i : i \in S <=> i \in 1 .. l + 1 /\ (i > l \/ t[i] \notin Space)
  BY <1>1
<1>5. TrimStart(t) = From(t, e)
  BY DEF TrimStart
<1> HIDE DEF l, S
<1>6. e \in S /\ \A k \in S : e <= k
  BY <1>3, LeastOf
<1> HIDE DEF e
<1>7. e \in 1 .. l /\ t[e] \notin Space
  BY <1>1, <1>2, <1>3, <1>4, <1>6
<1>8. \A k \in 1 .. e - 1 : t[k] \in Space
  <2> SUFFICES ASSUME NEW k \in 1 .. e - 1, t[k] \notin Space PROVE FALSE
    OBVIOUS
  <2>1. k \in S
    BY <1>1, <1>4, <1>7
  <2> QED
    BY <1>1, <1>6, <1>7, <2>1
<1> DEFINE n == e - 1
<1>9. n \in 0 .. Len(t) - 1 /\ n \in 0 .. Len(t) /\ n + 1 = e
  BY <1>1, <1>7 DEF l
<1> HIDE DEF n
<1>10. Len(From(t, n + 1)) = Len(t) - n
  BY <1>9, FromOf
<1>11. \A k \in 1 .. n : t[k] \in Space
  BY <1>8 DEF n
<1> QED
  BY <1>5, <1>7, <1>9, <1>10, <1>11

\* What a continuation reproduces of a line is some of it.
LEMMA HeadThere ==
    ASSUME NEW line \in Seq(Symbol), ~Only(line, Space)
    PROVE  LineHead(line) \in Seq(Symbol) /\ Len(LineHead(line)) \in Nat \ {0}
<1>1. PICK n \in 0 .. Len(line) - 1 :
             /\ Len(TrimStart(line)) = Len(line) - n
             /\ line[n + 1] \notin Space /\ \A k \in 1 .. n : line[k] \in Space
  BY TrimmedAt
<1> DEFINE l == Len(line)
           start == Len(line) - Len(TrimStart(line))
           spans == {s \in WordSpans(line) : s[1] > start}
           first == CHOOSE s \in spans : \A r \in spans : s[1] <= r[1]
           later == {s \in spans : \E r \in spans : r[1] < s[1]}
           second == CHOOSE s \in later : \A r \in later : s[1] <= r[1]
           end == IF line[start + 1] \in Alnum THEN first[2] ELSE start + 1
           length == first[2] - first[1] + 1
<1>2. l \in Nat /\ n \in Nat /\ n < l /\ start = n /\ DOMAIN line = 1 .. l
  BY <1>1
<1>3. LineHead(line) = IF later # {} /\ end - start = length /\ length <= ShortWord
       THEN Part(line, 1, second[2]) ELSE Part(line, 1, end)
  BY DEF LineHead
<1>4. \A k \in 1 .. l : Part(line, 1, k) \in Seq(Symbol) /\ Len(Part(line, 1, k)) \in Nat \ {0}
  <2> SUFFICES ASSUME NEW k \in 1 .. l PROVE Part(line, 1, k) \in Seq(Symbol) /\ Len(Part(line, 1, k)) \in Nat \ {0}
    OBVIOUS
  <2>1. k \in 0 .. Len(line) /\ k \in Nat \ {0}
    BY <1>2
  <2>2. Part(line, 1, k) \in Seq(Symbol) /\ Len(Part(line, 1, k)) = k
    BY <2>1, StartOf
  <2> QED
    BY <2>1, <2>2
<1>5. later # {} => second[2] \in 1 .. l
  <2>1. later \in SUBSET WordSpans(line)
    OBVIOUS
  <2> HIDE DEF later
  <2> QED
    BY <2>1, FirstOf
<1>6. end \in 1 .. l
  <2>1. CASE line[start + 1] \notin Alnum
    BY <1>2, <2>1
  <2>2. CASE line[start + 1] \in Alnum
    <3>1. InWord(line, n + 1) /\ n + 1 \in 1 .. Len(line)
      BY <1>2, <2>2 DEF InWord
    <3>2. PICK s \in WordSpans(line) : s[1] <= n + 1 /\ n + 1 <= s[2]
      BY <3>1, WordAround
    <3>3. s[1] \in 1 .. l /\ s[2] \in 1 .. l /\ \A k \in s[1] .. s[2] : InWord(line, k)
      BY DEF WordSpans, Spans
    <3>4. s[1] > start
      <4> SUFFICES ASSUME s[1] <= n PROVE FALSE
        BY <1>2, <3>3
      <4>1. s[1] \in 1 .. n /\ s[1] \in s[1] .. s[2]
        BY <1>2, <3>2, <3>3
      <4>2. line[s[1]] \in Space /\ InWord(line, s[1])
        BY <1>1, <3>3, <4>1
      <4> QED
        BY <4>2, SymbolsDiffer DEF InWord
    <3>5. spans \in SUBSET WordSpans(line) /\ spans # {}
      BY <3>4
    <3> HIDE DEF spans
    <3>6. first[2] \in 1 .. l
      BY <3>5, FirstOf
    <3> HIDE DEF first
    <3> QED
      BY <2>2, <3>6
  <2> QED
    BY <2>1, <2>2
<1> HIDE DEF later, second, end, length
<1> QED
  BY <1>3, <1>4, <1>5, <1>6

\* x begins as t does, and ends between two digits of t nowhere.
StartsAs(x, t) == \E n \in 0 .. Len(t) :
    /\ x = Part(t, 1, n)
    /\ n \in 1 .. Len(t) - 1 => ~(t[n] \in Digit /\ t[n + 1] \in Digit)

\* Such a start has no symbol and no number the text lacks.
LEMMA StartKeeps ==
    ASSUME NEW t \in Seq(Symbol), NEW x, StartsAs(x, t)
    PROVE  DigitRuns(x) \subseteq DigitRuns(t) /\ \A S : Only(t, S) => Only(x, S)
<1>1. PICK n \in 0 .. Len(t) : x = Part(t, 1, n) /\ (n \in 1 .. Len(t) - 1 => ~(t[n] \in Digit /\ t[n + 1] \in Digit))
  BY DEF StartsAs
<1>2. /\ x \in Seq(Symbol) /\ Len(x) = n /\ n \in Nat /\ n <= Len(t) /\ Len(t) \in Nat
      /\ \A k \in 1 .. n : x[k] = t[k]
  BY <1>1, StartOf
<1>3. DigitRuns(x) \subseteq DigitRuns(t)
  BY <1>1, NumbersOfStart
<1>4. DOMAIN x = 1 .. n /\ DOMAIN t = 1 .. Len(t) /\ \A k \in 1 .. n : k \in 1 .. Len(t)
  BY <1>2
<1> QED
  BY <1>2, <1>3, <1>4 DEF Only

\* What of a line is left of its trailing space, and of its first letters.
LEMMA TrimmedEnd ==
    ASSUME NEW t \in Seq(Symbol)
    PROVE  \E n \in 0 .. Len(t) :
             /\ TrimEnd(t) = Part(t, 1, n) /\ (n > 0 => t[n] \notin Space)
             /\ \A k \in n + 1 .. Len(t) : t[k] \in Space
<1> DEFINE l == Len(t)
           S == {0} \cup {i \in DOMAIN t : t[i] \notin Space}
<1>1. l \in Nat /\ DOMAIN t = 1 .. l /\ S \in SUBSET (0 .. l) /\ S # {}
  OBVIOUS
<1>2. TrimEnd(t) = Part(t, 1, Greatest(S))
  BY DEF TrimEnd
<1>3. \A i : i \in S <=> i = 0 \/ (i \in 1 .. l /\ t[i] \notin Space)
  BY <1>1
<1> HIDE DEF S
<1>4. Greatest(S) \in S /\ Greatest(S) \in 0 .. l /\ \A g \in S : g <= Greatest(S)
  BY <1>1, GreatestOf
<1> DEFINE n == Greatest(S)
<1> HIDE DEF n, l
<1>5. n \in 0 .. l /\ (n > 0 => t[n] \notin Space) /\ \A i \in 1 .. l : t[i] \notin Space => i <= n
  BY <1>3, <1>4 DEF n
<1>6. \A k \in n + 1 .. l : t[k] \in Space
  BY <1>1, <1>5
<1> QED
  BY <1>2, <1>5, <1>6 DEF n, l

\* The letters a text begins with are a start of it.
LEMMA OpeningOf ==
    ASSUME NEW t \in Seq(Symbol)
    PROVE  \E n \in 0 .. Len(t) : Opening(t) = Part(t, 1, n) /\ (n > 0 => t[n] \in Letter)
<1> DEFINE l == Len(t)
           S == {i \in 1 .. l + 1 : i > l \/ t[i] \notin Letter}
           n == Least(S) - 1
<1>1. l \in Nat /\ S \in SUBSET Nat /\ l + 1 \in S
  OBVIOUS
<1>2. Opening(t) = Part(t, 1, n)
  BY DEF Opening
<1>3. \A i : i \in S <=> i \in 1 .. l + 1 /\ (i > l \/ t[i] \notin Letter)
  BY <1>1
<1> HIDE DEF S
<1>4. Least(S) \in S /\ \A i \in S : Least(S) <= i
  BY <1>1, LeastOf
<1>5. n \in 0 .. l /\ n + 1 = Least(S)
  BY <1>1, <1>3, <1>4
<1> HIDE DEF n, l
<1>6. n > 0 => t[n] \in Letter
  <2> SUFFICES ASSUME n > 0, t[n] \notin Letter PROVE FALSE
    OBVIOUS
  <2>1. n \in S
    BY <1>1, <1>3, <1>5
  <2>2. n + 1 <= n
    BY <1>4, <1>5, <2>1
  <2> QED
    BY <1>1, <1>5, <2>2
<1> QED
  BY <1>2, <1>5, <1>6 DEF l

\* What goes into a line is how the answer starts.
LEMMA MidLine ==
    ASSUME NEW ahead, NEW line \in Seq(Symbol), ~Only(line, Space), NEW t \in Seq(Symbol)
    PROVE  StartsAs(MidLineInsertion(ahead, line, t), t)
<1> DEFINE head == LineHead(line)
           rejoin == Rejoins(head, t)
           closed == TrimEnd(t)
           phrase == Part(closed, 1, Len(closed) - 1)
           l == Len(t)
<1>0. l \in Nat /\ Letter \cap Digit = {} /\ Mark \cap Digit = {} /\ Space \cap Alnum = {} /\ Digit \subseteq Alnum
  BY SymbolsDiffer DEF Alnum
<1>1. MidLineInsertion(ahead, line, t) =
       IF rejoin # {} THEN Fits(ahead, line, Part(t, 1, Least(rejoin) - 1))
       ELSE IF Starts(TrimStart(line), Mark) /\ Ends(closed, Mark) /\ Ends(phrase, Alnum) THEN phrase
       ELSE IF Opening(t) # <<>> /\ Ends(ahead, Letter) THEN Fits(ahead, line, Opening(t))
       ELSE None
  BY DEF MidLineInsertion
<1>2. StartsAs(None, t)
  <2>1. 0 \in 0 .. Len(t) /\ Part(t, 1, 0) = <<>>
    <3>1. 0 \in 0 .. Len(t)
      BY <1>0
    <3>2. Part(t, 1, 0) \in Seq(Symbol) /\ Len(Part(t, 1, 0)) = 0
      BY <3>1, StartOf
    <3> QED
      BY <3>1, <3>2, EmptySeq
  <2> QED
    BY <2>1 DEF StartsAs, None
<1>3. \A x : StartsAs(x, t) => StartsAs(Fits(ahead, line, x), t)
  BY <1>2 DEF Fits
<1>4. ASSUME rejoin # {}
      PROVE  StartsAs(Part(t, 1, Least(rejoin) - 1), t)
  <2>1. rejoin \in SUBSET Nat
    BY <1>0 DEF Rejoins
  <2>2. Least(rejoin) \in rejoin
    BY <1>4, <2>1, LeastOf
  <2> DEFINE i == Least(rejoin)
             n == i - 1
             h == Len(head)
  <2>3. h \in Nat \ {0} /\ head \in Seq(Symbol)
    BY HeadThere
  <2>4. /\ i \in 2 .. l /\ i + h - 1 <= l /\ Part(t, i, i + h - 1) = head
        /\ (t[i - 1] \in Space) <=> (head[1] \in Alnum)
    BY <2>2 DEF Rejoins
  <2> HIDE DEF i, h, l, head
  <2>5. n \in 0 .. l /\ n + 1 = i /\ n \in Nat /\ i + h - 1 = n + h /\ n + h <= l
    <3>1. i \in 2 .. l /\ i + h - 1 <= l /\ l \in Nat /\ h \in Nat \ {0}
      BY <1>0, <2>3, <2>4, Zenon
    <3>2. i \in Nat /\ 2 <= i /\ i <= l
      BY <3>1
    <3> QED
      BY <3>1, <3>2
  <2> HIDE DEF n
  <2>6. head[1] = t[n + 1]
    <3>1. Part(t, n + 1, n + h)[1] = t[n + 1]
      <4>1. \A k \in 1 .. h : Part(t, n + 1, n + h)[k] = t[n + k]
        BY <2>3, <2>5, Slice DEF l
      <4> QED
        BY <2>3, <4>1
    <3>2. Part(t, n + 1, n + h) = head
      BY <2>4, <2>5
    <3> QED
      BY <3>1, <3>2
  <2>7. ~(t[n] \in Digit /\ t[n + 1] \in Digit)
    BY <1>0, <2>4, <2>6 DEF n
  <2> QED
    BY <2>5, <2>7 DEF StartsAs, l, i, n
<1>5. ASSUME Ends(closed, Mark)
      PROVE  StartsAs(phrase, t)
  <2>1. PICK g \in 0 .. Len(t) : closed = Part(t, 1, g)
    BY TrimmedEnd
  <2>2. closed \in Seq(Symbol) /\ Len(closed) = g /\ g \in Nat /\ g <= l /\ \A k \in 1 .. g : closed[k] = t[k]
    BY <2>1, StartOf
  <2> HIDE DEF closed
  <2>3. closed # <<>> /\ closed[g] \in Mark
    BY <1>5, <2>2 DEF Ends
  <2>4. g # 0
    BY <2>2, <2>3, EmptySeq
  <2> DEFINE n == g - 1
  <2>5. n \in 0 .. Len(t) /\ n + 1 = g /\ t[g] \in Mark /\ n \in 0 .. g
    BY <2>2, <2>3, <2>4 DEF l
  <2>6. phrase = Part(t, 1, n)
    <3>1. 1 \in 1 .. g + 1
      BY <2>2
    <3>2. Part(Part(t, 1, g), 1, n) = Part(t, 1, n)
      BY <2>5, <3>1, PartOfStart
    <3> QED
      BY <2>1, <2>2, <3>2
  <2> HIDE DEF phrase, n
  <2>7. ~(t[n + 1] \in Digit)
    BY <1>0, <2>5
  <2> QED
    BY <2>5, <2>6, <2>7 DEF StartsAs
<1>6. StartsAs(Opening(t), t)
  <2>1. PICK n \in 0 .. Len(t) : Opening(t) = Part(t, 1, n) /\ (n > 0 => t[n] \in Letter)
    BY OpeningOf
  <2>2. n \in 1 .. Len(t) - 1 => ~(t[n] \in Digit)
    BY <1>0, <2>1
  <2> QED
    BY <2>1, <2>2 DEF StartsAs
<1> HIDE DEF closed, phrase, rejoin
<1> QED
  BY <1>1, <1>2, <1>3, <1>4, <1>5, <1>6

\* The rest of the caret's line is a text that is not blank.
LEMMA RestOfLine ==
    ASSUME NEW t \in Seq(Symbol)
    PROVE  LineRest(t) \in Seq(Symbol) /\ (LineRest(t) # None => ~Only(LineRest(t), Space))
<1> DEFINE l == Len(t)
           S == {i \in 1 .. l + 1 : i > l \/ t[i] = "\n"}
           n == Least(S) - 1
           line == Part(t, 1, n)
<1>1. l \in Nat /\ S \in SUBSET Nat /\ l + 1 \in S /\ \A i \in S : i \in 1 .. l + 1
  OBVIOUS
<1>2. LineRest(t) = IF Only(line, Space) THEN None ELSE line
  BY DEF LineRest
<1> HIDE DEF S
<1>3. Least(S) \in S
  BY <1>1, LeastOf
<1> HIDE DEF l
<1>4. n \in 0 .. l
  <2>1. Least(S) \in 1 .. l + 1
    BY <1>1, <1>3
  <2> QED
    BY <1>1, <2>1
<1> HIDE DEF n
<1>5. line \in Seq(Symbol)
  BY <1>4, StartOf DEF l
<1> HIDE DEF line
<1>6. None \in Seq(Symbol)
  BY DEF None
<1> QED
  BY <1>2, <1>5, <1>6

-----------------------------------------------------------------------------
(* What is inserted                                                        *)

\* Text that reads well at the caret of a, and says nothing the draft does not.
Inserted(a, t) ==
    /\ SuggestionShape(a.before, a.after, t)
    /\ ~CaretInsideWord(a.before, a.after) /\ ~Some(t, Markup \cup {"\n"})
    /\ DigitRuns(t) \subseteq DigitRuns(a.before)

\* The texts of a request, and of an answer.
LEMMA AskTyped ==
    ASSUME NEW a \in Asks
    PROVE  a.before \in Seq(Symbol) /\ a.after \in Seq(Symbol) /\ a.vocabulary \subseteq Seq(Symbol)
  BY ProposalAssumption

\* The texts of an answer.
LEMMA SeenTyped ==
    ASSUME NEW seen \in Seens
    PROVE  seen.output \in Seq(Symbol) /\ seen.raw \in Seq(Symbol)
<1>1. CASE seen \in Observed
  BY <1>1, ProposalAssumption
<1>2. CASE seen = OutOfBudget
  BY <1>2 DEF OutOfBudget, None
<1> QED
  BY <1>1, <1>2 DEF Seens

\* An answer that passes has symbols and numbers that may be shown.
LEMMA PassesSays ==
    ASSUME NEW a, NEW t, Accepts(t), ~UnsupportedFact(a.before, t)
    PROVE  /\ Only(t, Letter \cup Digit \cup Mark \cup {Blank}) /\ ~Some(t, Markup \cup {"\n"})
           /\ DigitRuns(t) \subseteq DigitRuns(a.before)
<1>1. Only(t, Letter \cup Digit \cup Mark \cup {Blank})
  BY DEF Accepts
<1>2. (Letter \cup Digit \cup Mark \cup {Blank}) \cap (Markup \cup {"\n"}) = {}
  BY SymbolsDiffer
<1>3. ~Some(t, Markup \cup {"\n"})
  <2> DEFINE good == Letter \cup Digit \cup Mark \cup {Blank}
             bad == Markup \cup {"\n"}
  <2>1. good \cap bad = {} /\ Only(t, good)
    BY <1>1, <1>2
  <2> HIDE DEF good, bad
  <2>2. ~Some(t, bad)
    BY <2>1 DEF Only, Some
  <2> QED
    BY <2>2 DEF bad
<1> QED
  BY <1>1, <1>3 DEF UnsupportedFact

\* What a continuation's answer comes to, if it is a proposal, is inserted.
LEMMA ShownInserts ==
    ASSUME NEW a \in Asks, Eligible(a), NEW seen \in Seens, Shown(a, seen).kind = "proposal"
    PROVE  Shown(a, seen).replaces = None /\ Inserted(a, Shown(a, seen).text)
<1> DEFINE t == seen.output
           line == LineRest(a.after)
           x == IF line = None THEN t ELSE MidLineInsertion(a.before, line, t)
<1>1. t \in Seq(Symbol) /\ a.after \in Seq(Symbol)
  BY SeenTyped, AskTyped
<1>2. Passes(a, t) /\ Shown(a, seen) = Placed(a, t) /\ Placed(a, t).kind = "proposal"
  BY DEF Shown, Nothing
<1>3. Placed(a, t) = Offer(x, None) /\ ValidateProposal(a.before, a.after, x)
  BY <1>2 DEF Placed, Nothing
<1>4. Accepts(t) /\ ~UnsupportedFact(a.before, t)
  BY <1>2 DEF Passes
<1>5. Only(t, Letter \cup Digit \cup Mark \cup {Blank}) /\ DigitRuns(t) \subseteq DigitRuns(a.before)
  BY <1>4, PassesSays
<1>6. line \in Seq(Symbol) /\ (line # None => ~Only(line, Space))
  BY <1>1, RestOfLine
<1> HIDE DEF line, t
<1>7. DigitRuns(x) \subseteq DigitRuns(t) /\ Only(x, Letter \cup Digit \cup Mark \cup {Blank})
  <2>1. CASE line = None
    BY <1>5, <2>1
  <2>2. CASE line # None
    <3>1. x = MidLineInsertion(a.before, line, t)
      BY <2>2
    <3>2. StartsAs(x, t)
      BY <1>1, <1>6, <2>2, <3>1, MidLine
    <3> HIDE DEF x
    <3> QED
      BY <1>1, <1>5, <3>2, StartKeeps
  <2> QED
    BY <2>1, <2>2
<1> HIDE DEF x
<1>8. ~Some(x, Markup \cup {"\n"})
  <2> DEFINE good == Letter \cup Digit \cup Mark \cup {Blank}
             bad == Markup \cup {"\n"}
  <2>1. good \cap bad = {} /\ Only(x, good)
    BY <1>7, SymbolsDiffer
  <2> HIDE DEF good, bad
  <2>2. ~Some(x, bad)
    BY <2>1 DEF Only, Some
  <2> QED
    BY <2>2 DEF bad
<1>9. SuggestionShape(a.before, a.after, x) /\ ~CaretInsideWord(a.before, a.after)
  BY <1>3 DEF ValidateProposal, Eligible
<1>10. Shown(a, seen).replaces = None /\ Shown(a, seen).text = x
  BY <1>2, <1>3 DEF Offer
<1> QED
  BY <1>5, <1>7, <1>8, <1>9, <1>10 DEF Inserted

\* So is what an alternative comes to, at the end of its line.
LEMMA GrownInserts ==
    ASSUME NEW a \in Asks, Eligible(a), NEW echo, NEW t, NEW grown \in Grown(a, echo, t),
           grown.offer.kind = "proposal"
    PROVE  /\ grown.offer.replaces = None /\ grown.offer.text = grown.text
           /\ Inserted(a, grown.text) /\ LineRest(a.after) = None
<1> DEFINE x == Composed(a, echo, t)
<1>1. grown.text = x /\ grown.offer = IF x = None THEN Nothing("abstained") ELSE OfferedAlternative(a, x)
  BY DEF Grown
<1> HIDE DEF x
<1>2. grown.offer = OfferedAlternative(a, x)
  BY <1>1 DEF Nothing
<1>3. /\ LineRest(a.after) = None /\ Accepts(x) /\ ~UnsupportedFact(a.before, x)
      /\ ValidateProposal(a.before, a.after, x) /\ grown.offer = Offer(x, None)
  BY <1>2 DEF OfferedAlternative, Nothing
<1>4. ~Some(x, Markup \cup {"\n"}) /\ DigitRuns(x) \subseteq DigitRuns(a.before)
  BY <1>3, PassesSays
<1>5. SuggestionShape(a.before, a.after, x) /\ ~CaretInsideWord(a.before, a.after)
  BY <1>3 DEF ValidateProposal, Eligible
<1> QED
  BY <1>1, <1>3, <1>4, <1>5 DEF Offer, Inserted

\* The last word of a text.
LEMMA LastThere ==
    ASSUME NEW t \in Seq(Symbol), WordSpans(t) # {}
    PROVE  /\ LastSpan(t) \in WordSpans(t) /\ LastSpan(t)[1] \in 1 .. Len(t) /\ LastSpan(t)[2] \in 1 .. Len(t)
           /\ \A r \in WordSpans(t) : LastSpan(t)[1] >= r[1]
<1> DEFINE N == {s[1] : s \in WordSpans(t)}
<1>1. \A s \in WordSpans(t) : s[1] \in 1 .. Len(t) /\ s[2] \in 1 .. Len(t)
  BY DEF WordSpans, Spans
<1>2. Len(t) \in Nat /\ N \in SUBSET (0 .. Len(t)) /\ N # {}
  BY <1>1
<1>3. Greatest(N) \in N /\ \A n \in N : n <= Greatest(N)
  BY <1>2, GreatestOf
<1>4. \E s \in WordSpans(t) : \A r \in WordSpans(t) : s[1] >= r[1]
  <2>1. PICK s \in WordSpans(t) : s[1] = Greatest(N)
    BY <1>3
  <2>2. \A r \in WordSpans(t) : s[1] >= r[1]
    BY <1>1, <1>3, <2>1
  <2> QED
    BY <2>2
<1>5. LastSpan(t) \in WordSpans(t) /\ \A r \in WordSpans(t) : LastSpan(t)[1] >= r[1]
  BY <1>4 DEF LastSpan
<1> QED
  BY <1>1, <1>5

\* A word of a text is a text.
LEMMA SpanTyped ==
    ASSUME NEW t \in Seq(Symbol), NEW s \in WordSpans(t)
    PROVE  Span(t, s) \in Seq(Symbol)
<1>1. s[1] \in Nat \ {0} /\ s[2] \in Nat /\ s[2] <= Len(t)
  BY DEF WordSpans, Spans
<1> QED
  BY <1>1, PartOf DEF Span

\* The words that may finish a stem are texts.
LEMMA CandidatesTyped ==
    ASSUME NEW t \in Seq(Symbol), StemSpan(t) # None, NEW listed \in SUBSET Seq(Symbol),
           NEW w \in Candidates(t, listed)
    PROVE  w \in Seq(Symbol)
<1> DEFINE s == StemSpan(t)
           early == Part(t, 1, s[1] - 1)
           drafted == {Span(early, r) : r \in {q \in WordSpans(early) : q[1] > 1 /\ Bounded(early, q)}}
<1>1. w \in listed \cup drafted
  BY DEF Candidates
<1>2. early \in Seq(Symbol)
  <2>1. s = LastSpan(t) /\ WordSpans(t) # {}
    BY DEF StemSpan
  <2>2. s[1] \in 1 .. Len(t) /\ Len(t) \in Nat
    BY <2>1, LastThere
  <2>3. s[1] - 1 \in 0 .. Len(t)
    BY <2>2
  <2> QED
    BY <2>3, StartOf
<1> HIDE DEF early
<1>3. \A r \in WordSpans(early) : Span(early, r) \in Seq(Symbol)
  BY <1>2, SpanTyped
<1> QED
  BY <1>1, <1>3

\* The rest of a word that the writer's own words finish is inserted too.
LEMMA VocabularyInserts ==
    ASSUME NEW a \in Asks, VocabularyFor(a) # None
    PROVE  Inserted(a, VocabularyFor(a))
<1> DEFINE s == StemSpan(a.before)
           stem == Span(a.before, s)
           fitting == BeginsAll(Candidates(a.before, a.vocabulary))
           w == CHOOSE v \in fitting : TRUE
           rest == From(w, Len(stem) + 1)
<1>1. /\ a.before \in Seq(Symbol) /\ a.vocabulary \subseteq Seq(Symbol)
      /\ Eligible(a) /\ VocabularyFor(a) = VocabularyCompletion(a.before, a.after, a.vocabulary)
  BY AskTyped DEF VocabularyFor
<1>2. /\ VocabularyFor(a) = rest /\ s # None /\ fitting # {}
      /\ SuggestionShape(a.before, a.after, rest)
  BY <1>1 DEF VocabularyCompletion, None
<1>3. Len(stem) \in Nat
  <2>1. Len(Span(a.before, s)) \in MinStem .. MaxWordLen - 1
    BY <1>2 DEF StemSpan
  <2>2. MinStem \in Nat /\ MaxWordLen \in Nat
    BY WordsAssumption
  <2> QED
    BY <2>1, <2>2
<1>4. w \in Candidates(a.before, a.vocabulary)
  BY <1>2 DEF BeginsAll
<1> HIDE DEF w, stem
<1>5. w \in Seq(Symbol)
  BY <1>1, <1>2, <1>4, CandidatesTyped
<1>6. Only(w, Letter) /\ Len(stem) < Len(w)
  BY <1>4 DEF Candidates, stem
<1>7. rest \in Seq(Symbol) /\ Only(rest, Letter)
  <2> DEFINE n == Len(stem)
             l == Len(w)
  <2>1. n \in 0 .. Len(w) /\ l \in Nat /\ n \in Nat /\ n < l
    BY <1>3, <1>5, <1>6
  <2>2. DOMAIN w = 1 .. l
    BY <1>5
  <2> HIDE DEF n
  <2>3. /\ From(w, n + 1) \in Seq(Symbol) /\ Len(From(w, n + 1)) = l - n
        /\ \A k \in 1 .. l - n : From(w, n + 1)[k] = w[n + k]
    BY <1>5, <2>1, FromOf
  <2> HIDE DEF l
  <2>4. \A k \in 1 .. l - n : n + k \in 1 .. l
    BY <2>1
  <2>5. DOMAIN From(w, n + 1) = 1 .. l - n
    BY <2>3
  <2>6. Only(From(w, n + 1), Letter)
    BY <1>6, <2>2, <2>3, <2>4, <2>5 DEF Only
  <2> QED
    BY <2>3, <2>6 DEF n
<1> HIDE DEF rest
<1>8. DigitRuns(rest) = {} /\ ~Some(rest, Markup \cup {"\n"})
  BY <1>7, LettersOnly
<1>9. ~CaretInsideWord(a.before, a.after)
  BY <1>1 DEF Eligible
<1> QED
  BY <1>2, <1>8, <1>9 DEF Inserted

-----------------------------------------------------------------------------
(* What is corrected                                                       *)

\* The greatest of some positions, or none.
LEMMA LastAmong ==
    ASSUME NEW l \in Nat, NEW B \in SUBSET (1 .. l)
    PROVE  LET g == Greatest({0} \cup B) IN
           g \in 0 .. l /\ (g > 0 => g \in B) /\ \A k \in g + 1 .. l : k \notin B
<1> DEFINE S == {0} \cup B
           g == Greatest(S)
<1>1. S \in SUBSET (0 .. l) /\ S # {} /\ \A k : k \in S <=> k = 0 \/ k \in B
  OBVIOUS
<1> HIDE DEF S
<1>2. g \in S /\ g \in Nat /\ g <= l /\ \A k \in S : k <= g
  BY <1>1, GreatestOf
<1> HIDE DEF g
<1>3. g \in 0 .. l /\ (g > 0 => g \in B) /\ \A k \in g + 1 .. l : k \notin B
  BY <1>1, <1>2
<1> QED
  BY <1>3 DEF g, S

\* The letters of t after g, up to n, are the last word: a space or nothing is
\* before them, a blank or nothing after.
WordEnds(t, g, n) ==
    /\ n \in 1 .. Len(t) /\ g \in 0 .. n - 1
    /\ \A k \in g + 1 .. n : t[k] \in Letter
    /\ g = 0 \/ t[g] \in Space
    /\ n = Len(t) \/ (n + 1 = Len(t) /\ t[n + 1] = Blank)

\* The last word of a text that ends in one.
LEMMA LastRun ==
    ASSUME NEW t \in Seq(Symbol), NEW g, NEW n, WordEnds(t, g, n)
    PROVE  LastWord(t) = Part(t, g + 1, n)
<1> DEFINE l == Len(t)
           s == <<g + 1, n>>
<1>1. /\ n \in 1 .. l /\ g \in 0 .. n - 1 /\ l \in Nat /\ n \in Nat /\ g \in Nat /\ g < n /\ n <= l
      /\ \A k \in g + 1 .. n : t[k] \in Letter
      /\ g = 0 \/ t[g] \in Space
      /\ n = l \/ (n + 1 = l /\ t[n + 1] = Blank)
  BY DEF WordEnds
<1>2. Letter \subseteq Alnum /\ Space \cap Alnum = {} /\ "." \notin Space /\ Blank \in Space /\ DOMAIN t = 1 .. l
  BY SymbolsDiffer DEF Alnum
<1>3. \A k \in g + 1 .. n : InWord(t, k)
  <2> SUFFICES ASSUME NEW k \in g + 1 .. n PROVE InWord(t, k)
    OBVIOUS
  <2>1. k \in 1 .. l
    BY <1>1
  <2> QED
    BY <1>1, <1>2, <2>1 DEF InWord
<1> HIDE DEF l
<1>4. \A k : InWord(t, k) => k \in 1 .. l /\ t[k] \notin Space
  BY <1>2 DEF InWord
<1>5. ~InWord(t, g) /\ ~InWord(t, n + 1)
  BY <1>1, <1>2, <1>4
<1>6. \A r \in WordSpans(t) : /\ r = <<r[1], r[2]>> /\ r[1] \in 1 .. l /\ r[2] \in 1 .. l /\ r[1] <= r[2]
                              /\ \A k \in r[1] .. r[2] : InWord(t, k)
                              /\ ~InWord(t, r[1] - 1) /\ ~InWord(t, r[2] + 1)
  BY DEF WordSpans, Spans, l
<1>7. s \in WordSpans(t) /\ s[1] = g + 1
  <2>1. s \in Spans(t) /\ s[1] = g + 1 /\ s[2] = n /\ s[1] - 1 = g /\ s[1] <= s[2]
    BY <1>1 DEF Spans, l
  <2> QED
    BY <1>3, <1>5, <2>1 DEF WordSpans
<1>8. LastSpan(t) = s
  <2> DEFINE r == LastSpan(t)
             i == r[1]
             j == r[2]
  <2>1. r \in WordSpans(t) /\ r[1] >= s[1]
    BY <1>7, LastThere
  <2> HIDE DEF r
  <2>2. /\ r = <<i, j>> /\ i \in 1 .. l /\ j \in 1 .. l /\ i <= j /\ i >= g + 1
        /\ (\A k \in i .. j : InWord(t, k)) /\ ~InWord(t, i - 1) /\ ~InWord(t, j + 1)
    BY <1>6, <1>7, <2>1
  <2> HIDE DEF i, j
  <2>3. i <= n
    <3> SUFFICES ASSUME i > n PROVE FALSE
      BY <1>1, <2>2
    <3>1. i = n + 1 /\ i \in i .. j
      BY <1>1, <2>2
    <3> QED
      BY <1>5, <2>2, <3>1
  <2>4. i = g + 1
    <3> SUFFICES ASSUME i # g + 1 PROVE FALSE
      OBVIOUS
    <3>1. i - 1 \in g + 1 .. n
      BY <1>1, <2>2, <2>3
    <3> QED
      BY <1>3, <2>2, <3>1
  <2>5. j >= n
    <3> SUFFICES ASSUME j < n PROVE FALSE
      BY <1>1, <2>2
    <3>1. j + 1 \in g + 1 .. n
      BY <1>1, <2>2
    <3> QED
      BY <1>3, <2>2, <3>1
  <2>6. j <= n
    <3> SUFFICES ASSUME j > n PROVE FALSE
      BY <1>1, <2>2
    <3>1. n + 1 \in i .. j
      BY <1>1, <2>2, <2>3
    <3> QED
      BY <1>5, <2>2, <3>1
  <2>7. j = n
    BY <1>1, <2>2, <2>5, <2>6
  <2> QED
    BY <2>2, <2>4, <2>7 DEF r
<1>9. LastWord(t) = Span(t, s)
  BY <1>7, <1>8 DEF LastWord
<1> QED
  BY <1>9 DEF Span

\* A text ends in what follows any position of it.
LEMMA SuffixThere ==
    ASSUME NEW t \in Seq(Symbol), NEW g \in 0 .. Len(t)
    PROVE  IsSuffix(From(t, g + 1), t)
<1> DEFINE u == From(t, g + 1)
           l == Len(t)
           x == Reverse(u)
           y == Reverse(t)
           m == l - g
<1>1. u \in Seq(Symbol) /\ Len(u) = l - g /\ \A k \in 1 .. l - g : u[k] = t[g + k]
  BY FromOf
<1> HIDE DEF u
<1>2. l \in Nat /\ g \in Nat /\ g <= l /\ m \in Nat /\ \A k \in 1 .. l : t[k] \in Symbol
  OBVIOUS
<1>3. Len(u) = m /\ \A k \in 1 .. m : u[k] \in Symbol
  BY <1>1
<1> HIDE DEF l
<1>4. x = [i \in 1 .. m |-> u[(m - i) + 1]] /\ y = [i \in 1 .. l |-> t[(l - i) + 1]]
  BY <1>3 DEF Reverse, l
<1> HIDE DEF x, y, m
<1>5. (\A i \in 1 .. m : (m - i) + 1 \in 1 .. m) /\ \A i \in 1 .. l : (l - i) + 1 \in 1 .. l
  BY <1>2
<1>6. x \in Seq(Symbol) /\ Len(x) = m /\ \A i \in 1 .. m : x[i] = u[(m - i) + 1]
  BY <1>2, <1>3, <1>4, <1>5
<1>7. y \in Seq(Symbol) /\ Len(y) = l /\ \A i \in 1 .. l : y[i] = t[(l - i) + 1]
  BY <1>2, <1>4, <1>5
<1>8. \A i \in 1 .. m : i \in 1 .. l /\ (m - i) + 1 \in 1 .. m /\ g + ((m - i) + 1) = (l - i) + 1
  BY <1>2 DEF m
<1>9. \A i \in 1 .. m : u[(m - i) + 1] = t[g + ((m - i) + 1)]
  BY <1>1, <1>8 DEF m
<1>10. \A i \in 1 .. Len(x) : y[i] = x[i]
  <2> SUFFICES ASSUME NEW i \in 1 .. m PROVE y[i] = x[i]
    BY <1>6
  <2>1. y[i] = t[(l - i) + 1] /\ x[i] = u[(m - i) + 1]
    BY <1>6, <1>7, <1>8
  <2>2. g + ((m - i) + 1) = (l - i) + 1 /\ u[(m - i) + 1] = t[g + ((m - i) + 1)]
    BY <1>8, <1>9
  <2> QED
    BY <2>1, <2>2, Zenon
<1>11. Len(x) <= Len(y)
  BY <1>2, <1>6, <1>7 DEF m
<1>12. IsPrefix(x, y)
  BY <1>6, <1>7, <1>10, <1>11, PrefixByIndex
<1> QED
  BY <1>12 DEF IsSuffix, x, y, u

\* A word of letters is what is left of it and of a blank after it.
LEMMA TrimmedWord ==
    ASSUME NEW x \in Seq(Symbol), x # <<>>, Only(x, Letter), NEW d \in {<<>>, <<Blank>>}
    PROVE  TrimEnd(x \o d) = x /\ (Ends(x \o d, {Blank}) <=> d = <<Blank>>)
<1> DEFINE t == x \o d
           l == Len(x)
<1>1. l \in Nat \ {0} /\ DOMAIN x = 1 .. l
  BY EmptySeq
<1>2. d \in Seq(Symbol) /\ Len(d) \in {0, 1} /\ (Len(d) = 1 <=> d = <<Blank>>) /\ (Len(d) = 1 => d[1] = Blank)
  <2>1. Blank \in Symbol
    BY SymbolsDiffer
  <2>2. CASE d = <<>>
    <3>1. <<>> # <<Blank>> /\ Len(<<>>) = 0 /\ <<>> \in Seq(Symbol)
      <4>1. Len(<<Blank>>) = 1 /\ Len(<<>>) = 0 /\ <<>> \in Seq(Symbol)
        OBVIOUS
      <4> QED
        BY <4>1, Zenon
    <3> QED
      BY <2>2, <3>1
  <2>3. CASE d = <<Blank>>
    BY <2>1, <2>3
  <2> QED
    BY <2>2, <2>3
<1>3. /\ t \in Seq(Symbol) /\ Len(t) = l + Len(d)
      /\ (\A i \in 1 .. l : t[i] = x[i]) /\ (Len(d) = 1 => t[l + 1] = Blank)
  <2>1. /\ t \in Seq(Symbol) /\ Len(t) = l + Len(d)
        /\ \A i \in 1 .. l + Len(d) : t[i] = IF i <= l THEN x[i] ELSE d[i - l]
    BY <1>2, ConcatProperties
  <2> HIDE DEF t, l
  <2>2. Len(d) = 1 => l + 1 \in 1 .. l + Len(d) /\ ~(l + 1 <= l) /\ l + 1 - l = 1
    BY <1>1
  <2>3. Len(d) = 1 => t[l + 1] = Blank
    <3> SUFFICES ASSUME Len(d) = 1 PROVE t[l + 1] = Blank
      OBVIOUS
    <3> DEFINE k == l + 1
    <3>1. k \in 1 .. l + Len(d) /\ ~(k <= l) /\ k - l = 1
      BY <1>1, <2>2
    <3> HIDE DEF k
    <3>2. t[k] = IF k <= l THEN x[k] ELSE d[k - l]
      BY <2>1, <3>1, Zenon
    <3>3. t[k] = d[1]
      BY <3>1, <3>2, Zenon
    <3> QED
      BY <1>2, <3>3, Zenon DEF k
  <2>4. \A i \in 1 .. l : i <= l /\ i \in 1 .. l + Len(d)
    BY <1>1, <1>2
  <2> QED
    BY <2>1, <2>3, <2>4
<1>4. \A i \in 1 .. l : x[i] \in Letter
  BY <1>1 DEF Only
<1>5. Letter \cap Space = {} /\ Blank \in Space /\ Blank \notin Letter
  BY SymbolsDiffer DEF Alnum
<1> HIDE DEF t, l
<1>6. PICK n \in 0 .. Len(t) :
             /\ TrimEnd(t) = Part(t, 1, n) /\ (n > 0 => t[n] \notin Space)
             /\ \A k \in n + 1 .. Len(t) : t[k] \in Space
  BY <1>3, TrimmedEnd
<1>7. n = l
  <2>1. n >= l
    <3> SUFFICES ASSUME n < l PROVE FALSE
      BY <1>1, <1>2, <1>3
    <3>1. l \in n + 1 .. Len(t) /\ l \in 1 .. l
      BY <1>1, <1>2, <1>3
    <3> QED
      BY <1>3, <1>4, <1>5, <1>6, <3>1
  <2>2. n <= l
    <3> SUFFICES ASSUME n > l PROVE FALSE
      BY <1>1, <1>2, <1>3
    <3> DEFINE e == Len(d)
               f == Len(t)
    <3>0. e \in {0, 1} /\ l \in Nat /\ f = l + e /\ n \in 0 .. f
      BY <1>1, <1>2, <1>3, Zenon
    <3> HIDE DEF e, f
    <3>1. e = 1 /\ n = l + 1 /\ n > 0
      BY <3>0
    <3> USE DEF e
    <3> QED
      BY <1>3, <1>5, <1>6, <3>1
  <2> QED
    BY <1>1, <1>2, <1>3, <2>1, <2>2
<1> DEFINE p == Part(t, 1, l)
<1>8. p = x
  <2>1. l \in 0 .. Len(t)
    BY <1>1, <1>2, <1>3
  <2>2. p \in Seq(Symbol) /\ Len(p) = l /\ \A i \in 1 .. l : p[i] = t[i]
    BY <1>3, <2>1, StartOf
  <2> HIDE DEF p
  <2>3. Len(x) = l
    BY DEF l
  <2> QED
    BY <1>3, <2>2, <2>3, SeqEqual
<1>9. Ends(t, {Blank}) <=> d = <<Blank>>
  <2>1. t # <<>>
    BY <1>1, <1>2, <1>3
  <2>2. Ends(t, {Blank}) <=> t[Len(t)] = Blank
    BY <2>1 DEF Ends
  <2>3. CASE Len(d) = 1
    BY <1>2, <1>3, <2>2, <2>3
  <2>4. CASE Len(d) = 0
    <3>1. t[Len(t)] = x[l] /\ x[l] \in Letter
      BY <1>1, <1>3, <1>4, <2>4
    <3> QED
      BY <1>2, <1>5, <2>2, <2>4, <3>1
  <2> QED
    BY <1>2, <2>3, <2>4
<1> QED
  BY <1>6, <1>7, <1>8, <1>9 DEF t

\* What is before a blank at the end, or all there is.
Bare(t) == IF Ends(t, {Blank}) THEN Front(t) ELSE t

\* A text without the space it may end in is a start of it.
LEMMA BareIs ==
    ASSUME NEW t \in Seq(Symbol)
    PROVE  \E n \in 0 .. Len(t) :
             /\ Bare(t) = Part(t, 1, n)
             /\ Ends(t, {Blank}) => n + 1 = Len(t) /\ t[n + 1] = Blank /\ From(t, n + 1) = <<Blank>>
             /\ ~Ends(t, {Blank}) => n = Len(t) /\ From(t, n + 1) = <<>>
<1> DEFINE l == Len(t)
<1>1. l \in Nat /\ l \in 0 .. Len(t)
  OBVIOUS
<1>2. CASE Ends(t, {Blank})
  <2>1. l # 0 /\ t[l] = Blank
    BY <1>2, EmptySeq DEF Ends
  <2> DEFINE n == l - 1
             u == From(t, n + 1)
  <2>2. n \in 0 .. Len(t) /\ n + 1 = l /\ l - n = 1 /\ 1 \in 1 .. l - n /\ n + 1 = Len(t)
    BY <1>1, <2>1 DEF l
  <2>3. Bare(t) = Part(t, 1, n)
    BY <1>2 DEF Bare, Front, Part
  <2>4. u \in Seq(Symbol) /\ Len(u) = 1 /\ u[1] = t[n + 1]
    <3>1. u \in Seq(Symbol) /\ Len(u) = l - n /\ \A k \in 1 .. l - n : u[k] = t[n + k]
      BY <2>2, FromOf
    <3> HIDE DEF u, n
    <3> QED
      BY <2>2, <3>1
  <2>5. u = <<Blank>>
    <3> HIDE DEF u, n
    <3>1. u[1] = Blank
      BY <2>1, <2>2, <2>4
    <3> QED
      BY <2>4, <3>1
  <2> HIDE DEF n
  <2>6. t[n + 1] = Blank
    BY <2>1, <2>2
  <2> QED
    BY <1>2, <2>2, <2>3, <2>5, <2>6
<1>3. CASE ~Ends(t, {Blank})
  <2>1. Bare(t) = t /\ Part(t, 1, l) = t
    BY <1>3, SubSeqFull DEF Bare, Part
  <2>2. From(t, l + 1) \in Seq(Symbol) /\ Len(From(t, l + 1)) = l - l
    BY <1>1, FromOf
  <2>3. From(t, l + 1) = <<>>
    <3>1. Len(From(t, l + 1)) = 0
      BY <1>1, <2>2
    <3> QED
      BY <2>2, <3>1, EmptySeq
  <2> QED
    BY <1>1, <1>3, <2>1, <2>3
<1> QED
  BY <1>2, <1>3

\* Letters after a space, up to a blank or the end, are the last word.
LEMMA WordOfBare ==
    ASSUME NEW t \in Seq(Symbol), NEW g \in 0 .. Len(Bare(t)) - 1,
           \A k \in g + 1 .. Len(Bare(t)) : Bare(t)[k] \in Letter,
           g = 0 \/ Bare(t)[g] \in Space
    PROVE  \E n : /\ WordEnds(t, g, n) /\ From(Bare(t), g + 1) = Part(t, g + 1, n)
                  /\ From(t, n + 1) = IF Ends(t, {Blank}) THEN <<Blank>> ELSE <<>>
<1>1. PICK n \in 0 .. Len(t) :
             /\ Bare(t) = Part(t, 1, n)
             /\ Ends(t, {Blank}) => n + 1 = Len(t) /\ t[n + 1] = Blank /\ From(t, n + 1) = <<Blank>>
             /\ ~Ends(t, {Blank}) => n = Len(t) /\ From(t, n + 1) = <<>>
  BY BareIs
<1> DEFINE c == Bare(t)
<1>2. /\ c \in Seq(Symbol) /\ Len(c) = n /\ n \in Nat /\ n <= Len(t) /\ Len(t) \in Nat
      /\ \A k \in 1 .. n : c[k] = t[k]
  BY <1>1, StartOf
<1>3. c = Part(t, 1, n)
  BY <1>1
<1>4. (\A k \in g + 1 .. n : c[k] \in Letter) /\ (g = 0 \/ c[g] \in Space) /\ g \in 0 .. n - 1
  BY <1>2, Zenon
<1> HIDE DEF c
<1>5. g \in Nat /\ g < n /\ g \in 0 .. n
  BY <1>2, <1>4
<1>6. \A k \in g + 1 .. n : t[k] \in Letter
  <2>1. \A k \in g + 1 .. n : k \in 1 .. n
    BY <1>2, <1>5
  <2> QED
    BY <1>2, <1>4, <2>1
<1>7. g = 0 \/ t[g] \in Space
  <2>1. g = 0 \/ g \in 1 .. n
    BY <1>2, <1>5
  <2> QED
    BY <1>2, <1>4, <2>1
<1>8. WordEnds(t, g, n)
  <2>1. n \in 1 .. Len(t) /\ g \in 0 .. n - 1
    BY <1>2, <1>4, <1>5
  <2>2. n = Len(t) \/ (n + 1 = Len(t) /\ t[n + 1] = Blank)
    BY <1>1
  <2> QED
    BY <1>6, <1>7, <2>1, <2>2 DEF WordEnds
<1>9. From(c, g + 1) = Part(t, g + 1, n)
  <2>1. From(c, g + 1) = Part(c, g + 1, n)
    BY <1>2 DEF From, Part
  <2>2. g + 1 \in 1 .. n + 1 /\ n \in 0 .. n
    BY <1>2, <1>5
  <2> QED
    BY <1>3, <2>1, <2>2, PartOfStart
<1> QED
  BY <1>1, <1>8, <1>9 DEF c

\* The word that the English rule or a dictionary would correct.
LEMMA TypedWord ==
    ASSUME NEW t \in Seq(Symbol), CorrectionTarget(t).word # None
    PROVE  \E g, n : /\ WordEnds(t, g, n) /\ CorrectionTarget(t).word = Part(t, g + 1, n)
                     /\ CorrectionTarget(t).delimiter = From(t, n + 1)
                     /\ From(t, n + 1) = (IF Ends(t, {Blank}) THEN <<Blank>> ELSE <<>>)
                     /\ ~KnownWord(Part(t, g + 1, n))
<1> DEFINE c == Bare(t)
           l == Len(c)
           B == {i \in DOMAIN c : c[i] \in Space}
           g == Greatest({0} \cup B)
           w == Typed(c)
<1>1. c \in Seq(Symbol)
  <2>1. PICK n \in 0 .. Len(t) : c = Part(t, 1, n)
    BY BareIs
  <2> QED
    BY <2>1, StartOf
<1>2. /\ CorrectionTarget(t).word = CorrectionWord(c)
      /\ CorrectionTarget(t).delimiter = IF Ends(t, {Blank}) THEN <<Blank>> ELSE <<>>
  BY DEF CorrectionTarget, Bare
<1> HIDE DEF c
<1>3. CorrectionWord(c) = w /\ Len(w) \in MinFixed .. MaxWordLen /\ Only(w, Letter) /\ ~KnownWord(w)
  BY <1>2 DEF CorrectionWord, Sized, None
<1>4. l \in Nat /\ B \in SUBSET (1 .. l) /\ \A i \in B : c[i] \in Space
  BY <1>1
<1>5. w = From(c, 1 + g)
  BY DEF Typed
<1> HIDE DEF w, l, B
<1>6. g \in 0 .. l /\ (g > 0 => g \in B)
  BY <1>4, LastAmong
<1> HIDE DEF g
<1>7. w = From(c, g + 1)
  BY <1>5, <1>6
<1>8. Len(w) = l - g /\ \A k \in 1 .. l - g : w[k] = c[g + k]
  BY <1>1, <1>6, <1>7, FromOf DEF l
<1>9. Len(w) >= 1 /\ Len(w) \in Nat /\ w \in Seq(Symbol)
  <2>1. MinFixed \in Nat \ {0} /\ MaxWordLen \in Nat
    BY WordsAssumption
  <2>2. w \in Seq(Symbol)
    BY <1>1, <1>6, <1>7, FromOf DEF l
  <2> QED
    BY <1>3, <2>1, <2>2
<1>10. g \in 0 .. l - 1
  BY <1>4, <1>6, <1>8, <1>9
<1>11. \A k \in g + 1 .. l : c[k] \in Letter
  <2> SUFFICES ASSUME NEW k \in g + 1 .. l PROVE c[k] \in Letter
    OBVIOUS
  <2> DEFINE j == k - g
  <2>1. j \in 1 .. l - g /\ g + j = k /\ j \in 1 .. Len(w)
    BY <1>4, <1>8, <1>10
  <2> HIDE DEF j
  <2>2. w[j] \in Letter
    BY <1>3, <1>9, <2>1 DEF Only
  <2> QED
    BY <1>8, <2>1, <2>2
<1>12. g = 0 \/ c[g] \in Space
  BY <1>4, <1>6
<1>13. PICK n : /\ WordEnds(t, g, n) /\ From(c, g + 1) = Part(t, g + 1, n)
                /\ From(t, n + 1) = IF Ends(t, {Blank}) THEN <<Blank>> ELSE <<>>
  BY <1>10, <1>11, <1>12, WordOfBare DEF c, l
<1> QED
  BY <1>2, <1>3, <1>7, <1>13

\* The word looked up in a dictionary ends the text, at most a space aside.
LEMMA DictionaryWord ==
    ASSUME NEW t \in Seq(Symbol), DictionaryTarget(t) # None
    PROVE  \E g, n : /\ WordEnds(t, g, n) /\ DictionaryTarget(t) = Part(t, g + 1, n)
                     /\ From(t, n + 1) = IF Ends(t, {Blank}) THEN <<Blank>> ELSE <<>>
<1> DEFINE c == Bare(t)
           l == Len(c)
           B == {i \in DOMAIN c : c[i] \notin Letter}
           g == Greatest({0} \cup B)
           w == Stem(c)
           ahead == Part(c, 1, l - Len(w))
<1>1. c \in Seq(Symbol)
  <2>1. PICK n \in 0 .. Len(t) : c = Part(t, 1, n)
    BY BareIs
  <2> QED
    BY <2>1, StartOf
<1>2. DictionaryTarget(t) = w /\ Len(w) \in MinHealed .. MaxWordLen /\ (ahead = <<>> \/ Ends(ahead, Space))
  BY DEF DictionaryTarget, Bare, Sized, None
<1> HIDE DEF c
<1>4. l \in Nat /\ B \in SUBSET (1 .. l) /\ \A i \in 1 .. l : i \notin B => c[i] \in Letter
  BY <1>1
<1>5. w = From(c, 1 + g)
  BY DEF Stem
<1> HIDE DEF w, l, B
<1>6. g \in 0 .. l /\ (g > 0 => g \in B) /\ \A k \in g + 1 .. l : k \notin B
  BY <1>4, LastAmong
<1> HIDE DEF g
<1>7. w = From(c, g + 1)
  BY <1>5, <1>6
<1>8. Len(w) = l - g
  BY <1>1, <1>6, <1>7, FromOf DEF l
<1>9. Len(w) >= 1
  <2>1. MinHealed \in Nat \ {0} /\ MaxWordLen \in Nat
    BY WordsAssumption
  <2> QED
    BY <1>2, <2>1
<1>10. g \in 0 .. l - 1 /\ l - Len(w) = g
  BY <1>4, <1>6, <1>8, <1>9
<1>11. \A k \in g + 1 .. l : c[k] \in Letter
  <2>1. \A k \in g + 1 .. l : k \in 1 .. l
    BY <1>4, <1>6
  <2> QED
    BY <1>4, <1>6, <2>1
<1>12. g = 0 \/ c[g] \in Space
  <2>1. ahead = Part(c, 1, g)
    BY <1>10
  <2>2. ahead \in Seq(Symbol) /\ Len(ahead) = g /\ \A k \in 1 .. g : ahead[k] = c[k]
    BY <1>1, <1>6, <2>1, StartOf DEF l
  <2> HIDE DEF ahead
  <2>3. CASE ahead = <<>>
    BY <2>2, <2>3, EmptySeq
  <2>4. CASE Ends(ahead, Space)
    <3>1. ahead[g] \in Space
      BY <2>2, <2>4 DEF Ends
    <3>2. g = 0 \/ g \in 1 .. g
      BY <1>6
    <3> QED
      BY <2>2, <3>1, <3>2
  <2> QED
    BY <1>2, <2>3, <2>4
<1>13. PICK n : /\ WordEnds(t, g, n) /\ From(c, g + 1) = Part(t, g + 1, n)
                /\ From(t, n + 1) = IF Ends(t, {Blank}) THEN <<Blank>> ELSE <<>>
  BY <1>10, <1>11, <1>12, WordOfBare DEF c, l
<1> QED
  BY <1>2, <1>7, <1>13

\* What is misspelled ends the text, and is not known.
LEMMA Located ==
    ASSUME NEW a \in Asks, Locate(a).word # None
    PROVE  \E g, n : /\ WordEnds(a.before, g, n) /\ Locate(a).word = Part(a.before, g + 1, n)
                     /\ Locate(a).delimiter = From(a.before, n + 1)
                     /\ From(a.before, n + 1) = (IF Ends(a.before, {Blank}) THEN <<Blank>> ELSE <<>>)
                     /\ IF a.spelling = "en" THEN ~KnownWord(Locate(a).word)
                        ELSE Locate(a).word \notin DictWords
<1> DEFINE t == a.before
<1>1. t \in Seq(Symbol)
  BY AskTyped
<1> HIDE DEF t
<1>2. CASE a.spelling = "en"
  <2>1. Locate(a) = CorrectionTarget(t)
    BY <1>2 DEF Locate, t
  <2>2. CorrectionTarget(t).word # None
    BY <2>1
  <2>3. PICK g, n : /\ WordEnds(t, g, n) /\ CorrectionTarget(t).word = Part(t, g + 1, n)
                    /\ CorrectionTarget(t).delimiter = From(t, n + 1)
                    /\ From(t, n + 1) = (IF Ends(t, {Blank}) THEN <<Blank>> ELSE <<>>)
                    /\ ~KnownWord(Part(t, g + 1, n))
    BY <1>1, <2>2, TypedWord
  <2> QED
    BY <1>2, <2>1, <2>3 DEF t
<1>3. CASE a.spelling # "en"
  <2>1. /\ DictionaryTarget(t) # None /\ DictionaryTarget(t) \notin DictWords
        /\ Locate(a).word = DictionaryTarget(t)
        /\ Locate(a).delimiter = IF Ends(t, {Blank}) THEN <<Blank>> ELSE <<>>
    BY <1>3 DEF Locate, t
  <2>2. PICK g, n : /\ WordEnds(t, g, n) /\ DictionaryTarget(t) = Part(t, g + 1, n)
                    /\ From(t, n + 1) = IF Ends(t, {Blank}) THEN <<Blank>> ELSE <<>>
    BY <1>1, <2>1, DictionaryWord
  <2> QED
    BY <1>3, <2>1, <2>2 DEF t
<1> QED
  BY <1>2, <1>3

\* What a correction must be: of the last word, into a known one.
Corrects(a, r) ==
    /\ a.replaces /\ a.after = <<>> /\ IsSuffix(r.replaces, a.before)
    /\ LastWord(a.before) = TrimEnd(r.replaces)
    /\ TrimEnd(r.text) \in IF a.spelling = "en" THEN Lexicon ELSE UNION {ToSet(l) : l \in Suggestions}
    /\ Ends(r.replaces, {Blank}) <=> Ends(r.text, {Blank})
    /\ TrimEnd(r.replaces) \notin IF a.spelling = "en" THEN Lexicon ELSE DictWords

\* A word that may take the place of what is located in a.
Replaces(a, x) ==
    /\ x \in Seq(Symbol) /\ x # <<>> /\ Only(x, Letter)
    /\ x \in IF a.spelling = "en" THEN Lexicon ELSE UNION {ToSet(l) : l \in Suggestions}

\* The word put in the place of what is located is a correction.
LEMMA CorrectedFits ==
    ASSUME NEW a \in Asks, MayCorrect(a), Locate(a).word # None, NEW x, Replaces(a, x)
    PROVE  LET d == Locate(a).delimiter
               r == Offer(x \o d, Locate(a).word \o d)
           IN Corrects(a, r) /\ r.kind = "proposal" /\ r.replaces # None
<1> DEFINE t == a.before
           w == Locate(a).word
           d == Locate(a).delimiter
           r == Offer(x \o d, w \o d)
<1>0. t \in Seq(Symbol) /\ Len(t) \in Nat
  BY AskTyped
<1>1. PICK g, n : /\ WordEnds(t, g, n) /\ w = Part(t, g + 1, n) /\ d = From(t, n + 1)
                  /\ From(t, n + 1) = (IF Ends(t, {Blank}) THEN <<Blank>> ELSE <<>>)
                  /\ IF a.spelling = "en" THEN ~KnownWord(w) ELSE w \notin DictWords
  BY Located
<1> HIDE DEF t, w, d
<1>2. d \in {<<>>, <<Blank>>}
  BY <1>1
<1>3. LastWord(t) = w
  BY <1>0, <1>1, LastRun
<1>4. g \in Nat /\ n \in Nat /\ g < n /\ n <= Len(t) /\ \A k \in g + 1 .. n : t[k] \in Letter
  <2>1. n \in 1 .. Len(t) /\ g \in 0 .. n - 1 /\ \A k \in g + 1 .. n : t[k] \in Letter
    BY <1>1 DEF WordEnds
  <2> QED
    BY <1>0, <2>1
<1>5. w \in Seq(Symbol) /\ Len(w) = n - g /\ Only(w, Letter) /\ w # <<>>
  <2> DEFINE m == n - g
  <2>1. m \in Nat /\ g + m = n /\ m # 0 /\ \A k \in 1 .. m : g + k \in g + 1 .. n
    BY <1>4
  <2> HIDE DEF m
  <2>2. /\ Part(t, g + 1, g + m) \in Seq(Symbol) /\ Len(Part(t, g + 1, g + m)) = m
        /\ \A k \in 1 .. m : Part(t, g + 1, g + m)[k] = t[g + k]
    BY <1>0, <1>4, <2>1, Slice
  <2>3. w \in Seq(Symbol) /\ Len(w) = m /\ \A k \in 1 .. m : w[k] = t[g + k]
    BY <1>1, <2>1, <2>2
  <2>4. DOMAIN w = 1 .. m /\ w # <<>>
    BY <2>1, <2>3, EmptySeq
  <2>5. Only(w, Letter)
    BY <1>4, <2>1, <2>3, <2>4 DEF Only
  <2> QED
    BY <2>3, <2>4, <2>5 DEF m
<1>6. w \o d = From(t, g + 1)
  <2>1. g + 1 \in 1 .. Len(t) + 1 /\ n \in (g + 1) - 1 .. Len(t) /\ Len(t) \in n .. Len(t)
    BY <1>0, <1>4
  <2>2. SubSeq(t, g + 1, n) \o SubSeq(t, n + 1, Len(t)) = SubSeq(t, g + 1, Len(t))
    BY <1>0, <2>1, ConcatAdjacentSubSeq
  <2> QED
    BY <1>1, <2>2 DEF Part, From
<1>7. IsSuffix(w \o d, t)
  <2>1. g \in 0 .. Len(t)
    BY <1>0, <1>4
  <2> QED
    BY <1>0, <1>6, <2>1, SuffixThere
<1>8. TrimEnd(w \o d) = w /\ (Ends(w \o d, {Blank}) <=> d = <<Blank>>)
  BY <1>2, <1>5, TrimmedWord
<1>9. TrimEnd(x \o d) = x /\ (Ends(x \o d, {Blank}) <=> d = <<Blank>>)
  BY <1>2, TrimmedWord DEF Replaces
<1>10. w \notin IF a.spelling = "en" THEN Lexicon ELSE DictWords
  BY <1>1, <1>5, KnownExactly
<1>11. r.text = x \o d /\ r.replaces = w \o d /\ r.kind = "proposal"
  BY DEF Offer
<1>12. w \o d # None
  <2>1. Len(w \o d) = Len(w) + Len(d) /\ Len(d) \in Nat
    BY <1>2, <1>5
  <2>2. Len(w) \in Nat /\ Len(w) # 0
    BY <1>4, <1>5
  <2>3. Len(w \o d) # 0
    BY <2>1, <2>2
  <2> QED
    BY <2>3 DEF None
<1> HIDE DEF r
<1>13. Corrects(a, r)
  BY <1>3, <1>7, <1>8, <1>9, <1>10, <1>11 DEF Corrects, MayCorrect, Replaces, t
<1> QED
  BY <1>11, <1>12, <1>13 DEF r, w, d

\* A valid correction is a known word of letters.
LEMMA ValidWord ==
    ASSUME NEW a, a.spelling = "en", NEW w, NEW x \in Seq(Symbol), ValidCorrection(w, x)
    PROVE  Replaces(a, x)
<1>1. KnownWord(x)
  BY DEF ValidCorrection
<1>2. x \in Lexicon
  BY <1>1, KnownExactly
<1>3. x \in Seq(Letter) /\ x # <<>>
  BY <1>2, LexiconWords
<1> QED
  BY <1>2, <1>3 DEF Replaces, Only

\* So is the one correction that no call is needed for ...
LEMMA SingleWord ==
    ASSUME NEW a, a.spelling = "en", NEW w \in Seq(Symbol), Unambiguous(w) # None
    PROVE  Replaces(a, Unambiguous(w))
<1> DEFINE S == {c \in Edits(w) : ValidCorrection(w, c)}
           x == CHOOSE c \in S : TRUE
           n == Len(w)
<1>1. Unambiguous(w) = x /\ Cardinality(S) = 1
  BY DEF Unambiguous
<1>2. S # {}
  BY <1>1, FS_EmptySet
<1>3. x \in Edits(w) /\ ValidCorrection(w, x)
  BY <1>2
<1> HIDE DEF x
<1>4. n \in Nat /\ Letter \subseteq Symbol /\ \A i \in 1 .. n : w[i] \in Symbol
  BY SymbolsDiffer
<1>5. \A i \in 1 .. n : /\ Part(w, 1, i) \in Seq(Symbol) /\ Part(w, 1, i - 1) \in Seq(Symbol)
                        /\ From(w, i + 1) \in Seq(Symbol)
  <2> SUFFICES ASSUME NEW i \in 1 .. n
               PROVE  /\ Part(w, 1, i) \in Seq(Symbol) /\ Part(w, 1, i - 1) \in Seq(Symbol)
                      /\ From(w, i + 1) \in Seq(Symbol)
    OBVIOUS
  <2> DEFINE j == i - 1
  <2>1. i \in 0 .. Len(w) /\ j \in 0 .. Len(w)
    BY <1>4
  <2> HIDE DEF j
  <2>2. Part(w, 1, i) \in Seq(Symbol) /\ Part(w, 1, j) \in Seq(Symbol)
    BY <2>1, StartOf
  <2>3. From(w, i + 1) \in Seq(Symbol)
    BY <2>1, FromOf
  <2> QED
    BY <2>2, <2>3 DEF j
<1>6. x \in Seq(Symbol)
  <2>1. \/ \E i \in 2 .. n : x = Part(w, 1, i - 1) \o From(w, i + 1)
        \/ \E i \in 2 .. n, c \in Letter : x = [w EXCEPT ![i] = c]
        \/ \E i \in 2 .. n : i < n /\ x = [w EXCEPT ![i] = w[i + 1], ![i + 1] = w[i]]
        \/ \E i \in 1 .. n, c \in Letter : x = Part(w, 1, i) \o <<c>> \o From(w, i + 1)
    <3>1. x \in Edits(w)
      BY <1>3
    <3>2. (\E i \in 2 .. n : x \in EditsAt(w, i)) \/ \E i \in 1 .. n, c \in Letter : x = WithLetter(w, i, c)
      BY <3>1 DEF Edits
    <3>3. \A i : x \in EditsAt(w, i) =>
             \/ x = Part(w, 1, i - 1) \o From(w, i + 1)
             \/ \E c \in Letter : x = [w EXCEPT ![i] = c]
             \/ i < n /\ x = [w EXCEPT ![i] = w[i + 1], ![i + 1] = w[i]]
      BY Zenon DEF EditsAt
    <3> QED
      BY <3>2, <3>3, Zenon DEF WithLetter
  <2>2. \A i \in 2 .. n : i \in 1 .. n
    BY <1>4
  <2>3. ASSUME NEW i \in 2 .. n, x = Part(w, 1, i - 1) \o From(w, i + 1)
        PROVE  x \in Seq(Symbol)
    BY <1>5, <2>2, <2>3, ConcatProperties
  <2>4. ASSUME NEW i \in 2 .. n, NEW c \in Letter, x = [w EXCEPT ![i] = c]
        PROVE  x \in Seq(Symbol)
    BY <1>4, <2>4
  <2>5. ASSUME NEW i \in 2 .. n, i < n, x = [w EXCEPT ![i] = w[i + 1], ![i + 1] = w[i]]
        PROVE  x \in Seq(Symbol)
    <3>1. i \in 1 .. n /\ i + 1 \in 1 .. n
      BY <1>4, <2>5
    <3> QED
      BY <1>4, <2>5, <3>1
  <2>6. ASSUME NEW i \in 1 .. n, NEW c \in Letter, x = Part(w, 1, i) \o <<c>> \o From(w, i + 1)
        PROVE  x \in Seq(Symbol)
    <3>1. <<c>> \in Seq(Symbol)
      BY <1>4
    <3>2. Part(w, 1, i) \o <<c>> \in Seq(Symbol)
      BY <1>5, <3>1, ConcatProperties
    <3> QED
      BY <1>5, <2>6, <3>2, ConcatProperties
  <2> QED
    BY <2>1, <2>3, <2>4, <2>5, <2>6
<1> QED
  BY <1>1, <1>3, <1>6, ValidWord

\* ... the one that an answer spells ...
LEMMA TrimmedTyped ==
    ASSUME NEW t \in Seq(Symbol)
    PROVE  Trimmed(t) \in Seq(Symbol)
<1> DEFINE u == TrimEnd(t)
<1>1. u \in Seq(Symbol)
  <2>1. PICK n \in 0 .. Len(t) : u = Part(t, 1, n)
    BY TrimmedEnd
  <2> QED
    BY <2>1, StartOf
<1> HIDE DEF u
<1>2. TrimStart(u) \in Seq(Symbol)
  <2> DEFINE l == Len(u)
             S == {i \in 1 .. l + 1 : i > l \/ u[i] \notin Space}
             n == Least(S) - 1
  <2>1. l \in Nat /\ S \in SUBSET Nat /\ l + 1 \in S /\ \A i \in S : i \in 1 .. l + 1
    BY <1>1
  <2>2. TrimStart(u) = From(u, Least(S))
    BY DEF TrimStart
  <2> HIDE DEF S
  <2>3. Least(S) \in S
    BY <2>1, LeastOf
  <2>4. Least(S) \in 1 .. l + 1
    BY <2>1, <2>3
  <2> HIDE DEF l
  <2>5. n \in 0 .. l /\ n + 1 = Least(S)
    BY <2>1, <2>4
  <2> HIDE DEF n
  <2>6. From(u, n + 1) \in Seq(Symbol)
    BY <1>1, <2>5, FromOf DEF l
  <2> QED
    BY <2>2, <2>5, <2>6
<1> QED
  BY <1>2 DEF Trimmed, u

\* It is known, and of letters.
LEMMA RespelledWord ==
    ASSUME NEW a, a.spelling = "en", NEW w, NEW t \in Seq(Symbol), Respelled(w, Trimmed(t)) # None
    PROVE  Replaces(a, Respelled(w, Trimmed(t)))
  BY TrimmedTyped, ValidWord DEF Respelled

\* ... and each of the dictionary's few.
LEMMA FewWords ==
    ASSUME NEW a, a.spelling # "en", NEW w, NEW list \in Suggestions
    PROVE  LET few == PlausibleFew(w, list) IN
           /\ few \in Seq(Seq(Symbol)) /\ Len(few) <= MaxChosen
           /\ \A i \in DOMAIN few : Replaces(a, few[i])
<1> DEFINE S == {v \in ToSet(list) : Plausible(w, v)}
           close == Select(list, S)
           m == Least({Len(close), MaxChosen})
           few == PlausibleFew(w, list)
<1>1. list \in Seq(Seq(Symbol)) /\ MaxChosen \in Nat
  BY ProposalAssumption
<1>2. few = Part(close, 1, m)
  BY DEF PlausibleFew
<1>3. \A x \in S \cap Seq(Symbol) : Replaces(a, x)
  <2> SUFFICES ASSUME NEW x \in S, x \in Seq(Symbol) PROVE Replaces(a, x)
    OBVIOUS
  <2>1. Plausible(w, x) /\ x \in UNION {ToSet(l) : l \in Suggestions}
    OBVIOUS
  <2>2. Only(x, Letter) /\ Len(x) \in MinHealed .. MaxWordLen
    BY <2>1 DEF Plausible, Sized
  <2>3. x # <<>>
    <3>1. MinHealed \in Nat \ {0} /\ MaxWordLen \in Nat
      BY WordsAssumption
    <3>2. Len(x) # 0
      BY <2>2, <3>1
    <3> QED
      BY <3>2
  <2> QED
    BY <2>1, <2>2, <2>3 DEF Replaces
<1>4. /\ close \in Seq(Seq(Symbol)) /\ Len(close) \in Nat
      /\ \A i \in DOMAIN close : close[i] \in S \cap Seq(Symbol)
  BY <1>1, Selected
<1> HIDE DEF S, close, few
<1>5. m \in 0 .. Len(close) /\ m <= MaxChosen
  <2> DEFINE N == {Len(close), MaxChosen}
  <2>1. N \in SUBSET Nat /\ N # {} /\ Len(close) \in N /\ MaxChosen \in N
    BY <1>1, <1>4
  <2> HIDE DEF N
  <2>2. Least(N) \in N /\ \A k \in N : Least(N) <= k
    BY <2>1, LeastOf
  <2>3. m = Least(N)
    BY DEF N
  <2> HIDE DEF m
  <2> QED
    <3> DEFINE c == Len(close)
    <3>1. c \in N /\ MaxChosen \in N /\ c \in Nat /\ MaxChosen \in Nat /\ m \in N /\ N \in SUBSET Nat
          /\ \A k \in N : m <= k
      BY <1>1, <1>4, <2>1, <2>2, <2>3, Zenon
    <3> HIDE DEF c
    <3>2. m \in Nat /\ m <= c /\ m <= MaxChosen
      BY <3>1
    <3>3. m \in 0 .. c
      BY <3>1, <3>2
    <3> QED
      BY <3>2, <3>3 DEF c
<1> HIDE DEF m
<1>6. few \in Seq(Seq(Symbol)) /\ Len(few) = m /\ \A k \in 1 .. m : few[k] = close[k]
  BY <1>2, <1>4, <1>5, StartOf
<1>7. DOMAIN few = 1 .. m /\ \A k \in 1 .. m : k \in DOMAIN close
  BY <1>4, <1>5, <1>6
<1>8. \A i \in DOMAIN few : Replaces(a, few[i])
  BY <1>3, <1>4, <1>6, <1>7
<1> QED
  BY <1>5, <1>6, <1>8 DEF few

-----------------------------------------------------------------------------
(* What is asked                                                           *)

\* Leading space taken off, a text is the rest of itself.
LEMMA TrimStartTyped ==
    ASSUME NEW u \in Seq(Symbol)
    PROVE  TrimStart(u) \in Seq(Symbol) /\ Len(TrimStart(u)) <= Len(u)
<1> DEFINE l == Len(u)
           S == {i \in 1 .. l + 1 : i > l \/ u[i] \notin Space}
           n == Least(S) - 1
<1>1. l \in Nat /\ S \in SUBSET Nat /\ l + 1 \in S /\ \A i \in S : i \in 1 .. l + 1
  OBVIOUS
<1>2. TrimStart(u) = From(u, Least(S))
  BY DEF TrimStart
<1> HIDE DEF S
<1>3. Least(S) \in S
  BY <1>1, LeastOf
<1>4. Least(S) \in 1 .. l + 1
  BY <1>1, <1>3
<1> HIDE DEF l
<1>5. n \in 0 .. l /\ n + 1 = Least(S)
  BY <1>1, <1>4
<1> HIDE DEF n
<1>6. From(u, n + 1) \in Seq(Symbol) /\ Len(From(u, n + 1)) = l - n
  BY <1>5, FromOf DEF l
<1>7. l - n <= l
  BY <1>1, <1>5
<1> QED
  BY <1>2, <1>5, <1>6, <1>7 DEF l

\* The window of a draft and the context in it are texts.
LEMMA ContextTyped ==
    ASSUME NEW t \in Seq(Symbol)
    PROVE  InferenceContext(t) \in Seq(Symbol)
<1> DEFINE cut == CutScalars(Len(t))
           w == From(t, cut + 1)
           spaces == {i \in DOMAIN w : w[i] \in Space}
           v == AtWord(t, cut)
           ends == SentenceEnds(v)
<1>1. cut \in 0 .. Len(t)
  <2> DEFINE l == Len(t)
             x == l - Window
  <2>1. l \in Nat /\ Window \in Nat /\ CutStep \in Nat \ {0}
    BY WordsAssumption
  <2> HIDE DEF l
  <2>2. CASE l <= Window
    BY <2>1, <2>2 DEF CutScalars, l
  <2>3. CASE ~(l <= Window)
    <3>1. x \in Nat /\ x <= l
      BY <2>1, <2>3
    <3> HIDE DEF x
    <3>2. (x \div CutStep) * CutStep <= x /\ (x \div CutStep) * CutStep \in Nat
      BY <2>1, <3>1, SMT
    <3>3. cut = (x \div CutStep) * CutStep
      BY <2>3 DEF CutScalars, l, x
    <3> HIDE DEF cut
    <3>4. cut \in 0 .. l
      BY <2>1, <3>1, <3>2, <3>3
    <3> QED
      BY <3>4 DEF l
  <2> QED
    BY <2>2, <2>3
<1> HIDE DEF cut
<1>2. w \in Seq(Symbol)
  BY <1>1, FromOf
<1>3. v = IF cut = 0 \/ t[cut] \in Space \/ spaces = {} THEN w ELSE From(w, Least(spaces) + 1)
  BY DEF AtWord
<1> HIDE DEF w
<1>4. v \in Seq(Symbol)
  <2>1. spaces \in SUBSET (1 .. Len(w)) /\ spaces \in SUBSET Nat
    BY <1>2
  <2> HIDE DEF spaces
  <2>2. spaces # {} => Least(spaces) \in spaces
    BY <2>1, LeastOf
  <2> DEFINE l == Len(w)
  <2>3. l \in Nat /\ spaces \in SUBSET (1 .. l)
    BY <1>2, <2>1
  <2> HIDE DEF l
  <2>5. spaces # {} => Least(spaces) \in 0 .. l
    <3> DEFINE k == Least(spaces)
    <3>1. (spaces # {} => k \in spaces) /\ l \in Nat /\ \A i \in spaces : i \in 1 .. l
      BY <2>2, <2>3
    <3> HIDE DEF k
    <3>2. spaces # {} => k \in 1 .. l
      BY <3>1
    <3>3. spaces # {} => k \in 0 .. l
      BY <3>1, <3>2
    <3> QED
      BY <3>3 DEF k
  <2>4. spaces # {} => From(w, Least(spaces) + 1) \in Seq(Symbol)
    BY <1>2, <2>5, FromOf DEF l
  <2> QED
    BY <1>2, <1>3, <2>4
<1>5. InferenceContext(t) = IF ends = {} THEN v ELSE TrimStart(From(v, Greatest(ends) + 1))
  BY DEF InferenceContext, cut
<1> HIDE DEF v
<1>6. ends # {} => From(v, Greatest(ends) + 1) \in Seq(Symbol)
  <2>1. Len(v) \in Nat /\ ends \in SUBSET (0 .. Len(v))
    BY <1>4 DEF SentenceEnds
  <2> HIDE DEF ends
  <2>2. ends # {} => Greatest(ends) \in Nat /\ Greatest(ends) <= Len(v)
    BY <2>1, GreatestOf
  <2>3. ends # {} => Greatest(ends) \in 0 .. Len(v)
    BY <2>1, <2>2
  <2> QED
    BY <1>4, <2>3, FromOf
<1> QED
  BY <1>4, <1>5, <1>6, TrimStartTyped

\* Blanks at the end taken off, a text is a start of itself.
LEMMA BlanksOff ==
    ASSUME NEW t \in Seq(Symbol)
    PROVE  /\ TrimSpaces(t) \in Seq(Symbol) /\ Len(TrimSpaces(t)) \in 0 .. Len(t)
           /\ TrimSpaces(t) = Part(t, 1, Len(TrimSpaces(t)))
<1> DEFINE l == Len(t)
           B == {i \in DOMAIN t : t[i] # Blank}
           n == Greatest({0} \cup B)
<1>1. l \in Nat /\ B \in SUBSET (1 .. l)
  OBVIOUS
<1>2. TrimSpaces(t) = Part(t, 1, n)
  BY DEF TrimSpaces
<1> HIDE DEF B, l
<1>3. n \in 0 .. l
  BY <1>1, LastAmong
<1> HIDE DEF n
<1>4. Part(t, 1, n) \in Seq(Symbol) /\ Len(Part(t, 1, n)) = n
  BY <1>3, StartOf DEF l
<1> QED
  BY <1>2, <1>3, <1>4 DEF l

\* The typed word is no longer than the text.
LEMMA TypedIs ==
    ASSUME NEW t \in Seq(Symbol)
    PROVE  Len(Typed(t)) \in 0 .. Len(t)
<1> DEFINE l == Len(t)
           B == {i \in DOMAIN t : t[i] \in Space}
           g == Greatest({0} \cup B)
<1>1. l \in Nat /\ B \in SUBSET (1 .. l)
  OBVIOUS
<1>2. Typed(t) = From(t, 1 + g)
  BY DEF Typed
<1> HIDE DEF B, l
<1>3. g \in 0 .. l
  BY <1>1, LastAmong
<1> HIDE DEF g
<1>4. Len(From(t, g + 1)) = l - g /\ 1 + g = g + 1
  BY <1>3, FromOf DEF l
<1>5. l - g \in 0 .. l
  BY <1>1, <1>3
<1> QED
  BY <1>2, <1>4, <1>5 DEF l

\* A prompt and its echo are the context, cut somewhere.
CutAt(pl, context) == \E n \in 0 .. Len(context) :
    pl.prompt = Part(context, 1, n) /\ pl.echo = From(context, n + 1)

\* The echo of a word starts within the text.
LEMMA EchoStartIn ==
    ASSUME NEW t \in Seq(Symbol), NEW w, Len(w) \in 0 .. Len(TrimSpaces(t))
    PROVE  EchoStart(t, w) \in 0 .. Len(t)
<1> DEFINE start == Len(TrimSpaces(t)) - Len(w)
           p == Part(t, 1, start)
<1>1. start \in 0 .. Len(t)
  <2> DEFINE l == Len(t)
             m == Len(TrimSpaces(t))
             k == Len(w)
  <2>1. m \in 0 .. l /\ l \in Nat /\ k \in 0 .. m
    BY BlanksOff
  <2> HIDE DEF l, m, k
  <2>2. m - k \in 0 .. l
    BY <2>1
  <2> QED
    BY <2>2 DEF l, m, k
<1>2. EchoStart(t, w) = Len(TrimSpaces(p))
  BY DEF EchoStart
<1> HIDE DEF start
<1>3. p \in Seq(Symbol) /\ Len(p) = start
  BY <1>1, StartOf
<1> HIDE DEF p
<1>4. Len(TrimSpaces(p)) \in 0 .. start
  BY <1>3, BlanksOff
<1>5. Len(t) \in Nat
  OBVIOUS
<1> QED
  BY <1>1, <1>2, <1>4, <1>5

\* A context that is not cut is its own prompt.
LEMMA WholeAsPlan ==
    ASSUME NEW t \in Seq(Symbol), NEW pl, pl.prompt = t, pl.echo = None
    PROVE  CutAt(pl, t)
<1> DEFINE l == Len(t)
<1>1. l \in Nat /\ l \in 0 .. Len(t)
  OBVIOUS
<1>2. Part(t, 1, l) = t
  BY SubSeqFull DEF Part
<1>3. From(t, l + 1) \in Seq(Symbol) /\ Len(From(t, l + 1)) = l - l
  BY <1>1, FromOf
<1>4. From(t, l + 1) = <<>>
  <2>1. Len(From(t, l + 1)) = 0
    BY <1>1, <1>3
  <2> QED
    BY <1>3, <2>1, EmptySeq
<1> HIDE DEF l
<1> QED
  BY <1>1, <1>2, <1>4 DEF CutAt, None

\* However a prompt is healed, it and its echo are the context, or nothing is
\* sent.
LEMMA HealedCuts ==
    ASSUME NEW t \in Seq(Symbol), NEW heals
    PROVE  CutAt(HealedBoundary(t, heals), t) \/ HealedBoundary(t, heals) = Healed(<<>>, None, FALSE)
<1> DEFINE trimmed == TrimSpaces(t)
           partial == HealingPrefix(trimmed)
           whole == TypedLexiconWord(t)
           bare == t = trimmed
           spaces == IF heals /\ ~bare THEN Healed(trimmed, Echo(t, Len(trimmed)), FALSE)
                     ELSE Healed(t, None, FALSE)
           At(n, checked) == Healed(Part(t, 1, n), Echo(t, n), checked)
<1>1. HealedBoundary(t, heals) =
       IF heals /\ partial # None /\ EchoStart(t, partial) > 0 THEN At(EchoStart(t, partial), FALSE)
       ELSE IF heals /\ partial # None /\ bare THEN Healed(<<>>, None, FALSE)
       ELSE IF heals /\ bare /\ whole # None /\ EchoStart(t, whole) > 0 THEN At(EchoStart(t, whole), TRUE)
       ELSE spaces
  BY DEF HealedBoundary
<1>2. \A checked : \A n \in 0 .. Len(t) : CutAt(At(n, checked), t)
  BY DEF CutAt, Healed, Echo
<1>3. trimmed \in Seq(Symbol) /\ Len(trimmed) \in 0 .. Len(t) /\ trimmed = Part(t, 1, Len(trimmed))
  BY BlanksOff
<1> HIDE DEF At
<1>4. CutAt(spaces, t)
  <2>1. CASE heals /\ ~bare
    <3>1. spaces = At(Len(trimmed), FALSE)
      BY <1>3, <2>1 DEF At
    <3> QED
      BY <1>2, <1>3, <3>1
  <2>2. CASE ~(heals /\ ~bare)
    <3>1. spaces = Healed(t, None, FALSE)
      BY <2>2
    <3> QED
      BY <3>1, WholeAsPlan DEF Healed
  <2> QED
    BY <2>1, <2>2
<1> HIDE DEF trimmed, spaces
<1>5. partial # None => EchoStart(t, partial) \in 0 .. Len(t)
  <2> SUFFICES ASSUME partial # None PROVE EchoStart(t, partial) \in 0 .. Len(t)
    OBVIOUS
  <2>1. partial = Typed(trimmed)
    BY DEF HealingPrefix
  <2>2. Len(partial) \in 0 .. Len(TrimSpaces(t))
    BY <1>3, <2>1, TypedIs DEF trimmed
  <2> QED
    BY <2>2, EchoStartIn
<1>6. bare /\ whole # None => EchoStart(t, whole) \in 0 .. Len(t)
  <2> SUFFICES ASSUME bare, whole # None PROVE EchoStart(t, whole) \in 0 .. Len(t)
    OBVIOUS
  <2>1. whole = Typed(t)
    BY DEF TypedLexiconWord
  <2>2. Len(whole) \in 0 .. Len(TrimSpaces(t))
    BY <1>3, <2>1, TypedIs DEF trimmed
  <2> QED
    BY <2>2, EchoStartIn
<1> HIDE DEF partial, whole, bare
<1> QED
  BY <1>1, <1>2, <1>4, <1>5, <1>6

\* The echo that a request's plan asks for is a text.
LEMMA EchoIsText ==
    ASSUME NEW a \in Asks
    PROVE  PlanOf(a).echo \in Seq(Symbol)
<1> DEFINE c == InferenceContext(a.before)
<1>1. c \in Seq(Symbol)
  BY AskTyped, ContextTyped
<1>2. \A pl : CutAt(pl, c) => pl.echo \in Seq(Symbol)
  BY <1>1, FromOf DEF CutAt
<1>3. \A p : Healed(p, None, FALSE).echo \in Seq(Symbol)
  BY DEF Healed, None
<1>4. Echo(c, Len(TrimSpaces(c))) \in Seq(Symbol)
  BY <1>1, BlanksOff, FromOf DEF Echo
<1>5. HealedBoundary(c, a.heals).echo \in Seq(Symbol)
  BY <1>1, <1>2, <1>3, HealedCuts
<1>6. PlanFor(a) = IF a.language = "en" THEN HealedBoundary(c, a.heals)
       ELSE IF a.heals /\ TrimSpaces(c) # c THEN Healed(TrimSpaces(c), Echo(c, Len(TrimSpaces(c))), FALSE)
       ELSE Healed(c, None, FALSE)
  BY DEF PlanFor
<1>7. UnhealedFor(a).echo \in Seq(Symbol)
  BY <1>3 DEF UnhealedFor
<1> HIDE DEF c
<1>8. PlanFor(a).echo \in Seq(Symbol)
  BY <1>3, <1>4, <1>5, <1>6 DEF Healed
<1> QED
  BY <1>7, <1>8 DEF PlanOf

-----------------------------------------------------------------------------
(* A request                                                               *)

\* What may be returned to request a, when the language was on in the meantime
\* or was not.
Outcome(a, ever, r) ==
    /\ r.kind # "pending"
    /\ r.kind = "proposal" /\ r.replaces # None => a.kind = "propose" /\ Corrects(a, r)
    /\ r.kind = "proposal" /\ r.replaces = None =>
         ever /\ Inserted(a, r.text) /\ (a.kind # "propose" => LineRest(a.after) = None)
    /\ r.kind = "proposal" /\ a.kind = "alternative" =>
         IF a.desired = None THEN FirstRun(r.text) \notin a.excluded ELSE FirstRun(r.text) = a.desired
    /\ r.kind = "list" =>
         /\ IsInjective(r.list) /\ Len(r.list) <= MaxListed
         /\ None \notin ToSet(r.list) /\ ToSet(r.list) \cap a.excluded = {}

\* Tokens that can be continued.
TokensFit(echo, list) == list \in Seq(FirstTokens)
    /\ \A i \in DOMAIN list : IsPrefix(echo, list[i]) /\ Len(list[i]) > Len(echo)

\* Words that tokens can grow into, and a list of some.
Heard(a, echo) == {FirstRun(Composed(a, echo, t \o seen.output)) : t \in FirstTokens, seen \in Seens}

WordsFit(a, echo, list) ==
    /\ list \in Seq(Heard(a, echo)) /\ IsInjective(list) /\ Len(list) <= MaxListed
    /\ None \notin ToSet(list) /\ ToSet(list) \cap a.excluded = {}
    /\ list # <<>> => a.kind = "words"

\* The inductive invariant of a request.  What was read and weighed is what
\* the request decides;
AskRead == ask \in Asks /\ read = Decided(ask) /\ weighed = Weighed(ask, read.target.word, read.plan.echo)

\* where it is allows the call made there;
AtCall ==
    /\ pc \in Calls \cup {"idle", "begin", "lookup", "done"} /\ away \in BOOLEAN /\ (away => pc \in Calls)
    /\ on \in BOOLEAN /\ everOn \in BOOLEAN /\ (pc # "idle" /\ on => everOn)
    /\ pc \in {"continue", "finish"} => everOn /\ read.eligible /\ ask.kind = "propose"
    /\ pc \in {"tokens", "follow"} =>
         everOn /\ read.eligible /\ ask.kind # "propose" /\ plan.echo = read.plan.echo
    /\ pc \in {"lookup", "spell", "choose"} =>
         /\ ask.kind = "propose" /\ read.corrects /\ read.target.word # None
         /\ IF pc = "spell" THEN ask.spelling = "en" ELSE ask.spelling # "en"

\* what it has gathered fits;
Gathered ==
    /\ choices \in Seq(Seq(Symbol)) /\ Len(choices) <= MaxChosen
    /\ \A i \in DOMAIN choices : Replaces(ask, choices[i])
    /\ tries \in Nat /\ (ask.kind = "alternative" => tries <= MaxTries)
    /\ pc = "follow" => TokensFit(read.plan.echo, <<token>>) /\ TokensFit(read.plan.echo, tokens)
    /\ WordsFit(ask, read.plan.echo, words) /\ (words # <<>> => pc \in {"follow", "done"})
    /\ pc = "follow" /\ ask.kind = "words" => Len(words) < MaxListed

\* and so does what it returns.
Returned ==
    /\ pc # "done" => result = Pending
    /\ pc = "done" => Outcome(ask, everOn, result)
    /\ pc = "done" /\ words # <<>> => result.kind = "list" /\ ToSet(words) \subseteq ToSet(result.list)

Requested == AskRead /\ AtCall /\ Gathered /\ Returned

\* The invariant says what a request answers is right (RequestRight).
LEMMA RequestedIsRight ==
    ASSUME Requested
    PROVE  /\ TypeOK /\ CorrectionFits /\ InsertionFits /\ AlternativeNew
           /\ ListDistinct /\ WordsKept /\ OffLanguageSilent
<1>1. TypeOK
  <2>1. Pending.kind = "pending"
    BY DEF Pending
  <2>2. (result = Pending) <=> (pc # "done")
    BY <2>1 DEF Requested, Returned, Outcome
  <2>3. pc = "follow" => IsPrefix(plan.echo, token) /\ Len(token) > Len(plan.echo)
    <3>1. <<token>>[1] = token /\ 1 \in DOMAIN <<token>>
      OBVIOUS
    <3>2. pc = "follow" => TokensFit(read.plan.echo, <<token>>) /\ plan.echo = read.plan.echo
      BY DEF Requested, AtCall, Gathered
    <3> QED
      BY <3>1, <3>2, Zenon DEF TokensFit
  <2> QED
    BY <2>2, <2>3 DEF Requested, AtCall, Gathered, TypeOK
<1>2. CorrectionFits /\ InsertionFits
  <2> SUFFICES ASSUME result.kind = "proposal" PROVE CorrectionFits /\ InsertionFits
    BY DEF CorrectionFits, InsertionFits, Proposed
  <2>1. pc = "done"
    BY DEF Requested, Returned, Pending
  <2>2. Outcome(ask, everOn, result)
    BY <2>1 DEF Requested, Returned
  <2>3. CorrectionFits
    BY <2>2 DEF Outcome, CorrectionFits, Corrects
  <2>4. InsertionFits
    BY <2>2 DEF Outcome, InsertionFits, Inserted
  <2> QED
    BY <2>3, <2>4
<1>3. AlternativeNew /\ ListDistinct
  <2>1. result.kind \in {"proposal", "list"} => Outcome(ask, everOn, result)
    BY DEF Requested, Returned, Pending
  <2> QED
    BY <2>1 DEF Outcome, AlternativeNew, ListDistinct, Proposed
<1>4. WordsKept
  BY DEF Requested, Returned, WordsKept
<1>5. OffLanguageSilent
  <2>1. result.kind = "proposal" => Outcome(ask, everOn, result)
    BY DEF Requested, Returned, Pending
  <2> QED
    BY <2>1 DEF Requested, AtCall, Outcome, OffLanguageSilent, Proposed, Calls
<1> QED
  BY <1>1, <1>2, <1>3, <1>4, <1>5

\* A result that may be returned ends the request well.
LEMMA FinishKeeps ==
    ASSUME Requested, pc \notin {"idle", "done"}, NEW r, Outcome(ask, everOn, r), Finish(r),
           words # <<>> => r.kind = "list" /\ ToSet(words) \subseteq ToSet(r.list)
    PROVE  Requested'
<1>1. /\ result' = r /\ pc' = "done" /\ away' = FALSE /\ ask' = ask /\ read' = read /\ weighed' = weighed
      /\ plan' = plan /\ tokens' = tokens /\ tries' = tries /\ token' = token /\ words' = words
      /\ choices' = choices /\ on' = on /\ everOn' = everOn
  BY DEF Finish, work, clock
<1>2. AskRead'
  BY <1>1 DEF Requested, AskRead
<1>3. AtCall'
  BY <1>1 DEF Requested, AtCall, Calls
<1>4. Gathered'
  BY <1>1 DEF Requested, Gathered
<1>5. Returned'
  BY <1>1 DEF Returned
<1> QED
  BY <1>2, <1>3, <1>4, <1>5 DEF Requested

\* So does a call that the request may make next.
LEMMA GoKeeps ==
    ASSUME Requested, pc \notin {"idle", "done"}, words = <<>>, NEW to \in {"lookup", "spell", "continue", "finish", "tokens"},
           NEW p, Go(to, p),
           to \in {"continue", "finish"} => everOn /\ read.eligible /\ ask.kind = "propose",
           to = "tokens" => everOn /\ read.eligible /\ ask.kind # "propose" /\ p.echo = read.plan.echo,
           to \in {"lookup", "spell"} =>
             /\ ask.kind = "propose" /\ read.corrects /\ read.target.word # None
             /\ IF to = "spell" THEN ask.spelling = "en" ELSE ask.spelling # "en"
    PROVE  Requested'
<1>1. /\ result' = result /\ pc' = to /\ away' = FALSE /\ ask' = ask /\ read' = read /\ weighed' = weighed
      /\ plan' = p /\ tokens' = tokens /\ tries' = tries /\ token' = token /\ words' = words
      /\ choices' = choices /\ on' = on /\ everOn' = everOn
  BY DEF Go, work, clock
<1>2. AskRead'
  BY <1>1 DEF Requested, AskRead
<1>3. AtCall'
  BY <1>1 DEF Requested, AtCall, Calls
<1>4. Gathered'
  BY <1>1 DEF Requested, Gathered
<1>5. Returned'
  BY <1>1 DEF Requested, Returned
<1> QED
  BY <1>2, <1>3, <1>4, <1>5 DEF Requested

\* Only a list of alternatives has words.
LEMMA NoWordsOf ==
    ASSUME Requested, ask.kind # "words"
    PROVE  words = <<>>
  BY DEF Requested, Gathered, WordsFit

\* An answer of nothing but a reason may always be returned.
LEMMA NothingFits ==
    ASSUME NEW a, NEW ever, NEW why \in {"unavailable", "abstained", "cancelled"}
    PROVE  Outcome(a, ever, Nothing(why)) /\ Nothing(why).kind \notin {"list", "proposal"}
<1>1. Nothing(why).kind = why
  BY DEF Nothing
<1>2. why \notin {"pending", "proposal", "list"}
  OBVIOUS
<1> HIDE DEF Nothing
<1> QED
  BY <1>1, <1>2 DEF Outcome

\* The call for a continuation, or what answers without it.
LEMMA ContinueKeeps ==
    ASSUME Requested, pc \notin {"idle", "done"}, ask.kind = "propose", Continue
    PROVE  Requested'
<1>1. words = <<>>
  BY NoWordsOf
<1>2. \A why \in {"unavailable", "abstained", "cancelled"} : Finish(Nothing(why)) => Requested'
  BY <1>1, FinishKeeps, NothingFits
<1>3. CASE read.valid /\ ~(~read.eligible \/ ~on \/ SendsNothing(read.plan))
  <2>1. Go("continue", read.plan) /\ read.eligible /\ everOn
    BY <1>3 DEF Continue, Requested, AtCall
  <2> QED
    BY <1>1, <2>1, GoKeeps
<1>4. CASE ~read.valid
  BY <1>2, <1>4 DEF Continue
<1>5. CASE read.valid /\ (~read.eligible \/ ~on \/ SendsNothing(read.plan))
  BY <1>2, <1>5 DEF Continue
<1> QED
  BY <1>3, <1>4, <1>5

\* What spelling comes to: the corrected word, or a continuation.
LEMMA SpelledKeeps ==
    ASSUME Requested, pc \notin {"idle", "done"}, ask.kind = "propose",
           read.corrects, read.target.word # None,
           NEW word, word # None => Replaces(ask, word), Spelled(word)
    PROVE  Requested'
<1>1. words = <<>>
  BY NoWordsOf
<1>2. CASE cancelled
  <2>1. Finish(Nothing("cancelled"))
    BY <1>2 DEF Spelled
  <2> QED
    BY <1>1, <2>1, FinishKeeps, NothingFits
<1>3. CASE ~cancelled /\ word # None
  <2> DEFINE r == Corrected(word)
  <2>1. Finish(r)
    BY <1>3 DEF Spelled
  <2>2. MayCorrect(ask) /\ Locate(ask) = read.target /\ ask \in Asks
    BY DEF Requested, AskRead, Decided
  <2>3. r = Offer(word \o Locate(ask).delimiter, Locate(ask).word \o Locate(ask).delimiter)
    BY <2>2 DEF Corrected
  <2>4. Corrects(ask, r) /\ r.kind = "proposal" /\ r.replaces # None
    BY <1>3, <2>2, <2>3, CorrectedFits
  <2> HIDE DEF r
  <2>5. Outcome(ask, everOn, r)
    BY <2>4 DEF Outcome
  <2> QED
    BY <1>1, <2>1, <2>5, FinishKeeps
<1>4. CASE ~cancelled /\ word = None
  <2>1. Continue
    BY <1>4 DEF Spelled
  <2> QED
    BY <2>1, ContinueKeeps
<1> QED
  BY <1>2, <1>3, <1>4

\* A shown answer to an eligible request may be returned, and is no list.
LEMMA ShownFits ==
    ASSUME Requested, pc \notin {"idle", "done"}, NEW seen \in Seens, everOn, read.eligible, ask.kind = "propose",
           Finish(weighed.shown[seen])
    PROVE  Requested'
<1> DEFINE r == Shown(ask, seen)
<1>1. ask \in Asks /\ Eligible(ask) /\ weighed.shown[seen] = r
  BY DEF Requested, AskRead, Decided, Weighed
<1>2. r.kind \in {"proposal", "unavailable", "abstained"}
  BY DEF Shown, Placed, Nothing, Offer
<1>3. r.kind = "proposal" => r.replaces = None /\ Inserted(ask, r.text)
  BY <1>1, ShownInserts
<1>4. Finish(r) /\ words = <<>>
  BY <1>1, NoWordsOf
<1> HIDE DEF r
<1>5. Outcome(ask, everOn, r)
  BY <1>2, <1>3 DEF Outcome
<1> QED
  BY <1>4, <1>5, FinishKeeps

\* A list without its first.
LEMMA TailOf ==
    ASSUME NEW A, NEW list \in Seq(A), list # <<>>
    PROVE  /\ From(list, 2) \in Seq(A) /\ Len(From(list, 2)) = Len(list) - 1
           /\ \A k \in 1 .. Len(list) - 1 : From(list, 2)[k] = list[1 + k]
<1> DEFINE n == 1
<1>1. n \in 0 .. Len(list) /\ n + 1 = 2 /\ n = 1
  OBVIOUS
<1> HIDE DEF n
<1>2. /\ From(list, n + 1) \in Seq(A) /\ Len(From(list, n + 1)) = Len(list) - n
      /\ \A k \in 1 .. Len(list) - n : From(list, n + 1)[k] = list[n + k]
  BY <1>1, FromOf
<1> QED
  BY <1>1, <1>2

\* The next token is one of those that can be continued; when none is left, or
\* enough are tried or listed, what was found may be returned.
LEMMA NextTokenKeeps ==
    ASSUME Requested, pc \in {"tokens", "follow"}, NEW rest, TokensFit(read.plan.echo, rest),
           NEW tried \in Nat, ask.kind = "alternative" => tried <= MaxTries,
           NEW listed, WordsFit(ask, read.plan.echo, listed), NextToken(rest, tried, listed)
    PROVE  Requested'
<1>0. MaxTries \in Nat /\ MaxListed \in Nat
  BY ProposalAssumption
<1>1. /\ everOn /\ read.eligible /\ ask.kind # "propose" /\ plan.echo = read.plan.echo
      /\ pc # "done" /\ result = Pending
  BY DEF Requested, AtCall, Returned
<1>2. CASE \/ rest = <<>>
           \/ ask.kind = "alternative" /\ tried = MaxTries
           \/ ask.kind = "words" /\ Len(listed) = MaxListed
  <2> DEFINE r == IF ask.kind = "words" THEN Listed(listed) ELSE Nothing("abstained")
  <2>1. /\ result' = r /\ pc' = "done" /\ away' = FALSE /\ ask' = ask /\ read' = read /\ weighed' = weighed
        /\ plan' = plan /\ tokens' = rest /\ tries' = tried /\ token' = token /\ words' = listed
        /\ choices' = choices /\ on' = on /\ everOn' = everOn
    BY <1>2 DEF NextToken, clock
  <2>2. Outcome(ask, everOn, r)
    <3>1. CASE ask.kind = "words"
      BY <3>1 DEF Outcome, Listed, WordsFit
    <3>2. CASE ask.kind # "words"
      BY <3>2, NothingFits
    <3> QED
      BY <3>1, <3>2
  <2>3. listed # <<>> => r.kind = "list" /\ ToSet(listed) \subseteq ToSet(r.list)
    BY DEF WordsFit, Listed
  <2> HIDE DEF r
  <2>4. AskRead'
    BY <2>1 DEF Requested, AskRead
  <2>5. AtCall'
    BY <2>1 DEF Requested, AtCall, Calls
  <2>6. Gathered'
    BY <2>1 DEF Requested, Gathered
  <2>7. Returned'
    BY <2>1, <2>2, <2>3 DEF Returned
  <2> QED
    BY <2>4, <2>5, <2>6, <2>7 DEF Requested
<1>3. CASE ~(\/ rest = <<>>
             \/ ask.kind = "alternative" /\ tried = MaxTries
             \/ ask.kind = "words" /\ Len(listed) = MaxListed)
  <2>1. /\ result' = result /\ pc' = "follow" /\ away' = FALSE /\ ask' = ask /\ read' = read /\ weighed' = weighed
        /\ plan' = plan /\ tokens' = From(rest, 2) /\ tries' = tried + 1 /\ token' = rest[1] /\ words' = listed
        /\ choices' = choices /\ on' = on /\ everOn' = everOn
    BY <1>3 DEF NextToken, clock
  <2>2. TokensFit(read.plan.echo, <<rest[1]>>) /\ TokensFit(read.plan.echo, From(rest, 2))
    <3> DEFINE l == Len(rest)
    <3>1. rest \in Seq(FirstTokens) /\ l \in Nat /\ l # 0 /\ DOMAIN rest = 1 .. l
      BY <1>3 DEF TokensFit
    <3> HIDE DEF l
    <3>2. 1 \in DOMAIN rest /\ 1 \in 0 .. l
      BY <3>1
    <3>3. /\ From(rest, 2) \in Seq(FirstTokens) /\ Len(From(rest, 2)) = l - 1
          /\ \A k \in 1 .. l - 1 : From(rest, 2)[k] = rest[1 + k]
      BY <1>3, TailOf DEF l, TokensFit
    <3>4. \A k \in 1 .. l - 1 : 1 + k \in DOMAIN rest
      BY <3>1
    <3>5. DOMAIN From(rest, 2) = 1 .. l - 1
      BY <3>3
    <3>6. TokensFit(read.plan.echo, From(rest, 2))
      BY <3>3, <3>4, <3>5 DEF TokensFit
    <3>7. rest[1] \in FirstTokens /\ IsPrefix(read.plan.echo, rest[1]) /\ Len(rest[1]) > Len(read.plan.echo)
      BY <3>1, <3>2 DEF TokensFit
    <3>8. <<rest[1]>> \in Seq(FirstTokens) /\ DOMAIN <<rest[1]>> = {1} /\ <<rest[1]>>[1] = rest[1]
      BY <3>7
    <3> QED
      BY <3>6, <3>7, <3>8, Zenon DEF TokensFit
  <2>3. tried + 1 \in Nat /\ (ask.kind = "alternative" => tried + 1 <= MaxTries)
    BY <1>0, <1>3
  <2>4. ask.kind = "words" => Len(listed) < MaxListed
    <3>1. Len(listed) \in Nat /\ Len(listed) <= MaxListed
      BY DEF WordsFit
    <3> QED
      BY <1>0, <1>3, <3>1
  <2>5. AskRead'
    BY <2>1 DEF Requested, AskRead
  <2>6. AtCall'
    BY <1>1, <2>1 DEF Requested, AtCall, Calls
  <2>7. Gathered'
    BY <2>1, <2>2, <2>3, <2>4 DEF Requested, Gathered
  <2>8. Returned'
    BY <1>1, <2>1 DEF Returned
  <2> QED
    BY <2>5, <2>6, <2>7, <2>8 DEF Requested
<1> QED
  BY <1>2, <1>3

\* No words yet are a list of some.
LEMMA NoneFit ==
    ASSUME NEW a, NEW echo
    PROVE  WordsFit(a, echo, <<>>)
<1>1. Len(<<>>) <= MaxListed
  BY ProposalAssumption
<1>2. DOMAIN <<>> = {} /\ ToSet(<<>>) = {}
  BY DEF ToSet
<1> QED
  BY <1>1, <1>2 DEF WordsFit, IsInjective

\* The tokens that are wanted can be continued.
LEMMA WantedFit ==
    ASSUME NEW a \in Asks, NEW list \in Firsts
    PROVE  TokensFit(PlanOf(a).echo, Wanted(a, PlanOf(a).echo, list))
<1> DEFINE echo == PlanOf(a).echo
           S == {t \in ToSet(list) : Admissible(a, echo, t) /\ (a.kind = "words" \/ Becomes(a, echo, t))}
           w == Wanted(a, echo, list)
<1>1. echo \in Seq(Symbol) /\ list \in Seq(Seq(Symbol))
  BY EchoIsText, ProposalAssumption
<1>2. w = Select(list, S)
  BY DEF Wanted
<1>3. \A t \in S : t \in FirstTokens /\ IsPrefix(echo, t) /\ t # echo
  BY DEF Admissible, FirstTokens
<1> HIDE DEF echo, S
<1>4. list \in Seq(FirstTokens)
  <2>1. \A i \in DOMAIN list : list[i] \in ToSet(list)
    BY Zenon DEF ToSet
  <2>2. ToSet(list) \subseteq FirstTokens
    BY Zenon DEF FirstTokens
  <2>3. Len(list) \in Nat /\ DOMAIN list = 1 .. Len(list) /\ list = [i \in 1 .. Len(list) |-> list[i]]
    BY <1>1
  <2>4. \A i \in 1 .. Len(list) : list[i] \in FirstTokens
    BY <2>1, <2>2, <2>3, Zenon
  <2> QED
    BY <2>3, <2>4
<1>5. w \in Seq(FirstTokens) /\ \A i \in DOMAIN w : w[i] \in S \cap FirstTokens
  BY <1>2, <1>4, Selected
<1>6. w \in Seq(Seq(Symbol)) /\ \A i \in DOMAIN w : w[i] \in S \cap Seq(Symbol)
  BY <1>1, <1>2, Selected
<1> HIDE DEF w
<1>7. ASSUME NEW t \in Seq(Symbol), IsPrefix(echo, t), t # echo
      PROVE  Len(t) > Len(echo)
  <2> DEFINE m == Len(echo)
             n == Len(t)
  <2>1. m \in Nat /\ n \in Nat /\ m <= n /\ \A i \in 1 .. m : t[i] = echo[i]
    BY <1>1, <1>7, PrefixByIndex
  <2>2. m # n
    BY <1>1, <1>7, <2>1
  <2> HIDE DEF m, n
  <2>3. m < n
    BY <2>1, <2>2
  <2> QED
    BY <2>3 DEF m, n
<1>8. \A i \in DOMAIN w : IsPrefix(echo, w[i]) /\ Len(w[i]) > Len(echo)
  BY <1>3, <1>5, <1>6, <1>7
<1> QED
  BY <1>5, <1>8 DEF TokensFit, echo, w

\* One word more still makes a list.
LEMMA ListedFits ==
    ASSUME Requested, pc = "follow", ask.kind = "words",
           NEW word \in Heard(ask, read.plan.echo)
    PROVE  WordsFit(ask, read.plan.echo, ListedWith(word))
<1> DEFINE H0 == Heard(ask, read.plan.echo)
           n == Len(words)
           new == Append(words, word)
<1>1. WordsFit(ask, read.plan.echo, words) /\ n < MaxListed /\ MaxListed \in Nat
  BY ProposalAssumption DEF Requested, Gathered
<1>2. words \in Seq(H0) /\ n \in Nat /\ DOMAIN words = 1 .. n
  BY <1>1 DEF WordsFit
<1> HIDE DEF H0
<1>3. CASE word = None \/ word \in ask.excluded \/ word \in ToSet(words)
  BY <1>1, <1>3 DEF ListedWith
<1>4. CASE ~(word = None \/ word \in ask.excluded \/ word \in ToSet(words))
  <2>1. ListedWith(word) = new
    BY <1>4 DEF ListedWith
  <2>2. /\ new \in Seq(H0) /\ Len(new) = n + 1 /\ new[n + 1] = word
        /\ \A i \in 1 .. n : new[i] = words[i]
    BY <1>2 DEF H0
  <2>3. DOMAIN new = 1 .. n + 1
    BY <2>2
  <2> HIDE DEF new
  <2>4. \A i \in 1 .. n + 1 : (i \in 1 .. n /\ new[i] = words[i]) \/ (i = n + 1 /\ new[i] = word)
    BY <1>2, <2>2
  <2>5. \A i \in 1 .. n : words[i] # word
    BY <1>2, <1>4 DEF ToSet
  <2>6. ToSet(new) = ToSet(words) \cup {word}
    <3>1. n + 1 \in 1 .. n + 1 /\ \A i \in 1 .. n : i \in 1 .. n + 1
      BY <1>2
    <3> QED
      BY <1>2, <2>2, <2>3, <2>4, <3>1 DEF ToSet
  <2>7. IsInjective(new)
    <3>1. \A i, j \in 1 .. n : words[i] = words[j] => i = j
      BY <1>1, <1>2 DEF WordsFit, IsInjective
    <3> SUFFICES ASSUME NEW i \in 1 .. n + 1, NEW j \in 1 .. n + 1, new[i] = new[j]
                 PROVE  i = j
      BY <2>3, Zenon DEF IsInjective
    <3>2. CASE i \in 1 .. n /\ j \in 1 .. n
      BY <2>4, <2>5, <3>1, <3>2
    <3>3. CASE (i = n + 1 /\ j \notin 1 .. n) \/ (j = n + 1 /\ i \notin 1 .. n)
      BY <2>4, <3>3
    <3> QED
      BY <2>4, <2>5, <3>2, <3>3
  <2>8. Len(new) <= MaxListed
    BY <1>1, <1>2, <2>2
  <2>9. None \notin ToSet(new) /\ ToSet(new) \cap ask.excluded = {}
    BY <1>1, <1>4, <2>6 DEF WordsFit
  <2> QED
    BY <2>1, <2>2, <2>7, <2>8, <2>9 DEF WordsFit, H0
<1> QED
  BY <1>3, <1>4

\* What a token grows into is offered, listed, or the next token is tried.
LEMMA FollowedKeeps ==
    ASSUME Requested, NEW seen \in Seens, Followed(seen)
    PROVE  Requested'
<1> DEFINE echo == read.plan.echo
<1>1. /\ pc = "follow" /\ everOn /\ read.eligible /\ ask.kind # "propose" /\ ask \in Asks
      /\ Eligible(ask) /\ weighed = Weighed(ask, read.target.word, echo)
      /\ TokensFit(echo, <<token>>) /\ TokensFit(echo, tokens) /\ WordsFit(ask, echo, words)
      /\ tries \in Nat /\ (ask.kind = "alternative" => tries <= MaxTries)
  BY DEF Followed, Requested, AskRead, AtCall, Gathered, Decided
<1>2. token \in FirstTokens
  <2>1. <<token>>[1] = token /\ Len(<<token>>) = 1 /\ <<token>> \in Seq(FirstTokens)
    BY <1>1 DEF TokensFit
  <2> QED
    BY <2>1
<1>3. weighed.grows[token][seen] = Grown(ask, echo, token \o seen.output)
  BY <1>1, <1>2 DEF Weighed
<1>4. PICK grown \in Grown(ask, echo, token \o seen.output) :
        IF ask.kind = "words" THEN NextToken(tokens, tries, ListedWith(FirstRun(grown.text)))
        ELSE IF grown.text # None /\ FitsAsk(grown.text) THEN Finish(grown.offer)
        ELSE NextToken(tokens, tries, words)
  BY <1>3 DEF Followed
<1>5. CASE ask.kind = "words"
  <2>1. grown.text = Composed(ask, echo, token \o seen.output)
    BY <1>4 DEF Grown
  <2>2. FirstRun(grown.text) \in Heard(ask, echo)
    <3>1. FirstRun(Composed(ask, echo, token \o seen.output)) \in Heard(ask, echo)
      BY <1>2 DEF Heard
    <3> QED
      BY <2>1, <3>1
  <2>3. WordsFit(ask, echo, ListedWith(FirstRun(grown.text)))
    BY <1>1, <1>5, <2>2, ListedFits
  <2> QED
    BY <1>1, <1>4, <1>5, <2>3, NextTokenKeeps
<1>6. CASE ask.kind # "words" /\ grown.text # None /\ FitsAsk(grown.text)
  <2> DEFINE r == grown.offer
  <2>1. Finish(r) /\ words = <<>>
    BY <1>4, <1>6, NoWordsOf
  <2>2. r.kind \in {"proposal", "abstained"}
    BY <1>4 DEF Grown, OfferedAlternative, Offer, Nothing
  <2>3. r.kind = "proposal" => /\ r.replaces = None /\ r.text = grown.text
                               /\ Inserted(ask, grown.text) /\ LineRest(ask.after) = None
    BY <1>1, <1>4, GrownInserts
  <2>4. IF ask.desired = None THEN FirstRun(grown.text) \notin ask.excluded
        ELSE FirstRun(grown.text) = ask.desired
    BY <1>6 DEF FitsAsk
  <2> HIDE DEF r
  <2>5. Outcome(ask, everOn, r)
    BY <1>1, <2>2, <2>3, <2>4 DEF Outcome
  <2> QED
    BY <1>1, <2>1, <2>5, FinishKeeps
<1>7. CASE ask.kind # "words" /\ ~(grown.text # None /\ FitsAsk(grown.text))
  BY <1>1, <1>4, <1>7, NextTokenKeeps
<1> QED
  BY <1>5, <1>6, <1>7

\* The first tokens that the model gives are taken from the top.
LEMMA TokensKeeps ==
    ASSUME Requested, NEW list \in Firsts, HandleTokens(list)
    PROVE  Requested'
<1>1. /\ pc = "tokens" /\ NextToken(weighed.wanted[list], 0, <<>>) /\ ask \in Asks
      /\ read.plan = PlanOf(ask)
      /\ weighed.wanted[list] = Wanted(ask, read.plan.echo, list)
  BY DEF HandleTokens, Requested, AskRead, Decided, Weighed
<1>2. TokensFit(read.plan.echo, weighed.wanted[list])
  BY <1>1, WantedFit
<1>3. 0 \in Nat /\ 0 <= MaxTries
  BY ProposalAssumption
<1> QED
  BY <1>1, <1>2, <1>3, NoneFit, NextTokenKeeps

\* An answer to a spelling prompt or to a continuation.
LEMMA AnsweredKeeps ==
    ASSUME Requested, NEW seen \in Seens, Answered(seen)
    PROVE  Requested'
<1>1. ask \in Asks /\ seen.output \in Seq(Symbol)
  BY SeenTyped DEF Requested, AskRead
<1>2. CASE pc = "spell" /\ Spelled(Respelled(read.target.word, Trimmed(seen.output)))
  <2>1. ask.kind = "propose" /\ read.corrects /\ read.target.word # None /\ ask.spelling = "en"
    BY <1>2 DEF Requested, AtCall
  <2> DEFINE word == Respelled(read.target.word, Trimmed(seen.output))
  <2>2. word # None => Replaces(ask, word)
    BY <1>1, <2>1, RespelledWord
  <2> HIDE DEF word
  <2>3. Spelled(word)
    BY <1>2 DEF word
  <2> QED
    BY <1>2, <2>1, <2>2, <2>3, SpelledKeeps
<1>3. CASE pc = "choose" /\ Spelled(Chosen(Trimmed(seen.raw), ToSet(choices)))
  <2>1. ask.kind = "propose" /\ read.corrects /\ read.target.word # None
    BY <1>3 DEF Requested, AtCall
  <2> DEFINE word == Chosen(Trimmed(seen.raw), ToSet(choices))
  <2>2. word # None => word \in ToSet(choices)
    BY DEF Chosen
  <2> HIDE DEF word
  <2>3. word # None => Replaces(ask, word)
    BY <2>2 DEF Requested, Gathered, ToSet
  <2>4. Spelled(word)
    BY <1>3 DEF word
  <2> QED
    BY <1>3, <2>1, <2>3, <2>4, SpelledKeeps
<1>4. CASE pc \in {"continue", "finish"} /\ Finish(weighed.shown[seen])
  <2>1. everOn /\ read.eligible /\ ask.kind = "propose"
    BY <1>4 DEF Requested, AtCall
  <2> QED
    BY <1>4, <2>1, ShownFits
<1>5. CASE pc = "continue" /\ Go("finish", read.unhealed)
  <2>1. everOn /\ read.eligible /\ ask.kind = "propose" /\ words = <<>>
    BY <1>5, NoWordsOf DEF Requested, AtCall
  <2> QED
    BY <1>5, <2>1, GoKeeps
<1> QED
  BY <1>2, <1>3, <1>4, <1>5 DEF Answered

\* The dictionary's candidates: one is taken, of several the model chooses.
LEMMA LookupKeeps ==
    ASSUME Requested, NEW list \in Suggestions, Lookup(list)
    PROVE  Requested'
<1> DEFINE few == weighed.few[list]
<1>1. /\ pc = "lookup" /\ ask.kind = "propose" /\ read.corrects /\ read.target.word # None
      /\ ask.spelling # "en" /\ few = PlausibleFew(read.target.word, list) /\ words = <<>>
  BY NoWordsOf DEF Lookup, Requested, AskRead, AtCall, Weighed
<1>2. /\ few \in Seq(Seq(Symbol)) /\ Len(few) \in Nat /\ Len(few) <= MaxChosen
      /\ \A i \in DOMAIN few : Replaces(ask, few[i])
  <2>1. LET x == PlausibleFew(read.target.word, list) IN
        /\ x \in Seq(Seq(Symbol)) /\ Len(x) <= MaxChosen /\ \A i \in DOMAIN x : Replaces(ask, x[i])
    BY <1>1, FewWords
  <2> QED
    BY <1>1, <2>1
<1> HIDE DEF few
<1>3. CASE Len(few) > 1
  <2>1. /\ result' = result /\ pc' = "choose" /\ away' = away /\ ask' = ask /\ read' = read /\ weighed' = weighed
        /\ plan' = plan /\ tokens' = tokens /\ tries' = tries /\ token' = token /\ words' = words
        /\ choices' = few /\ on' = on /\ everOn' = everOn
    BY <1>3 DEF Lookup, clock, few
  <2>2. AskRead'
    BY <2>1 DEF Requested, AskRead
  <2>3. AtCall'
    BY <1>1, <2>1 DEF Requested, AtCall, Calls
  <2>4. Gathered'
    BY <1>1, <1>2, <2>1 DEF Requested, Gathered
  <2>5. Returned'
    BY <1>1, <2>1 DEF Requested, Returned
  <2> QED
    BY <2>2, <2>3, <2>4, <2>5 DEF Requested
<1>4. CASE ~(Len(few) > 1)
  <2> DEFINE word == IF few = <<>> THEN None ELSE few[1]
  <2>1. Spelled(word)
    BY <1>4 DEF Lookup, few
  <2>2. word # None => Replaces(ask, word)
    <3>1. few # <<>> => 1 \in DOMAIN few
      BY <1>2
    <3> QED
      BY <1>2, <3>1
  <2> HIDE DEF word
  <2> QED
    BY <1>1, <2>1, <2>2, SpelledKeeps
<1> QED
  BY <1>3, <1>4

\* A proposal begins: what the writer's words finish, a correction that needs
\* no call, or the call that is needed.
LEMMA BeginKeeps ==
    ASSUME Requested, Begin
    PROVE  Requested'
<1>1. /\ pc = "begin" /\ ask.kind = "propose" /\ ask \in Asks /\ read = Decided(ask) /\ words = <<>>
      /\ (on => everOn) /\ weighed = Weighed(ask, read.target.word, read.plan.echo)
  BY NoWordsOf DEF Begin, Requested, AskRead, AtCall
<1>2. CASE cancelled
  <2>1. Finish(Nothing("cancelled"))
    BY <1>2 DEF Begin
  <2> QED
    BY <1>1, <2>1, FinishKeeps, NothingFits
<1>3. CASE ~cancelled /\ on /\ read.vocabulary # None
  <2> DEFINE r == Offer(read.vocabulary, None)
  <2>1. Finish(r)
    BY <1>3 DEF Begin
  <2>2. read.vocabulary = VocabularyFor(ask)
    BY <1>1 DEF Decided
  <2>3. Inserted(ask, read.vocabulary)
    BY <1>1, <1>3, <2>2, VocabularyInserts
  <2>4. Outcome(ask, everOn, r)
    BY <1>1, <1>3, <2>3 DEF Outcome, Offer
  <2> HIDE DEF r
  <2> QED
    BY <1>1, <2>1, <2>4, FinishKeeps
<1>4. CASE ~cancelled /\ ~(on /\ read.vocabulary # None) /\ (~read.corrects \/ read.target.word = None)
  <2>1. Continue
    BY <1>4 DEF Begin
  <2> QED
    BY <1>1, <2>1, ContinueKeeps
<1>5. CASE ~cancelled /\ ~(on /\ read.vocabulary # None) /\ ~(~read.corrects \/ read.target.word = None)
  <2>1. read.corrects /\ read.target.word # None /\ read.target = Locate(ask)
    BY <1>1, <1>5 DEF Decided
  <2>2. CASE ask.spelling = "dictionary"
    <3>1. Go("lookup", NoPlan)
      BY <1>5, <2>2 DEF Begin
    <3> QED
      BY <1>1, <2>1, <2>2, <3>1, GoKeeps
  <2>3. CASE ask.spelling # "dictionary" /\ weighed.single # None
    <3> DEFINE word == weighed.single
    <3>1. Spelled(word)
      BY <1>5, <2>3 DEF Begin
    <3>2. ask.spelling = "en" /\ word = Unambiguous(read.target.word)
      BY <1>1, <2>3 DEF Weighed
    <3>3. read.target.word \in Seq(Symbol)
      <4>1. PICK g, n : WordEnds(ask.before, g, n) /\ Locate(ask).word = Part(ask.before, g + 1, n)
        BY <1>1, <2>1, Located
      <4>2. ask.before \in Seq(Symbol) /\ g \in Nat /\ n \in Nat /\ n <= Len(ask.before)
        BY <1>1, <4>1, AskTyped DEF WordEnds
      <4>3. g + 1 \in Nat \ {0}
        BY <4>2
      <4>4. Part(ask.before, g + 1, n) \in Seq(Symbol)
        BY <4>2, <4>3, PartOf
      <4> QED
        BY <2>1, <4>1, <4>4
    <3>4. Replaces(ask, word)
      BY <2>3, <3>2, <3>3, SingleWord
    <3> HIDE DEF word
    <3> QED
      BY <1>1, <2>1, <3>1, <3>4, SpelledKeeps
  <2>4. CASE ask.spelling # "dictionary" /\ weighed.single = None
    <3>1. Go("spell", NoPlan)
      BY <1>5, <2>4 DEF Begin
    <3>2. ask.spelling = "en"
      BY <2>1, <2>4 DEF Locate
    <3> QED
      BY <1>1, <2>1, <3>1, <3>2, GoKeeps
  <2> QED
    BY <2>2, <2>3, <2>4
<1> QED
  BY <1>2, <1>3, <1>4, <1>5

\* An alternative begins, or a list of them.
LEMMA BeginAlternativeKeeps ==
    ASSUME Requested, BeginAlternative
    PROVE  Requested'
<1>1. /\ pc = "begin" /\ ask.kind # "propose" /\ words = <<>> /\ (on => everOn)
      /\ WordsFit(ask, read.plan.echo, words)
  BY DEF BeginAlternative, Requested, AtCall, Gathered
<1>2. \A why \in {"unavailable", "abstained", "cancelled"} : Finish(Nothing(why)) => Requested'
  BY <1>1, FinishKeeps, NothingFits
<1>3. Finish(Listed(<<>>)) => Requested'
  <2> DEFINE r == Listed(<<>>)
  <2>1. Outcome(ask, everOn, r)
    BY <1>1 DEF Outcome, Listed, WordsFit
  <2> HIDE DEF r
  <2>2. Finish(r) => Requested'
    BY <1>1, <2>1, FinishKeeps
  <2> QED
    BY <2>2 DEF r
<1>4. CASE cancelled
  BY <1>2, <1>4 DEF BeginAlternative
<1>5. CASE ~cancelled /\ ~read.valid
  BY <1>2, <1>5 DEF BeginAlternative
<1>6. CASE ~cancelled /\ read.valid /\ (~read.eligible \/ ~on \/ SendsNothing(read.plan))
  <2>1. Finish(IF ask.kind = "words" THEN Listed(<<>>) ELSE Nothing("abstained"))
    BY <1>6 DEF BeginAlternative
  <2> QED
    BY <1>2, <1>3, <2>1
<1>7. CASE ~cancelled /\ read.valid /\ ~(~read.eligible \/ ~on \/ SendsNothing(read.plan))
  <2>1. Go("tokens", read.plan) /\ everOn /\ read.eligible
    BY <1>1, <1>7 DEF BeginAlternative
  <2> QED
    BY <1>1, <2>1, GoKeeps
<1> QED
  BY <1>4, <1>5, <1>6, <1>7

\* A request that ends early keeps the words it has.
LEMMA StopKeeps ==
    ASSUME Requested, pc \notin {"idle", "done"}, NEW why \in {"unavailable", "abstained", "cancelled"}, Stop(why)
    PROVE  Requested'
<1> DEFINE keeps == pc = "follow" /\ ask.kind = "words" /\ words # <<>>
<1>1. Finish(IF keeps THEN Listed(words) ELSE Nothing(why))
  BY DEF Stop
<1>2. WordsFit(ask, read.plan.echo, words) /\ (words # <<>> => pc = "follow" /\ ask.kind = "words")
  BY DEF Requested, Gathered, WordsFit
<1>3. CASE keeps
  <2> DEFINE r == Listed(words)
  <2>1. Outcome(ask, everOn, r) /\ r.kind = "list" /\ ToSet(words) \subseteq ToSet(r.list)
    BY <1>2 DEF Outcome, Listed, WordsFit
  <2> HIDE DEF r
  <2>2. Finish(r)
    BY <1>1, <1>3 DEF r
  <2> QED
    BY <2>1, <2>2, FinishKeeps
<1>4. CASE ~keeps
  <2>1. Finish(Nothing(why)) /\ words = <<>>
    BY <1>1, <1>2, <1>4
  <2> QED
    BY <2>1, FinishKeeps, NothingFits
<1> QED
  BY <1>3, <1>4

\* The person, the clock and the sending of a call decide nothing.
LEMMA AroundKeeps ==
    ASSUME Requested, Request \/ Cancel \/ BudgetEnds \/ Prefer \/ Submit
    PROVE  Requested'
<1>1. /\ result' = result /\ ask' = ask /\ read' = read /\ weighed' = weighed
      /\ plan' = plan /\ tokens' = tokens /\ tries' = tries /\ token' = token /\ words' = words
      /\ choices' = choices
  BY DEF Request, Cancel, BudgetEnds, Prefer, Submit, work
<1>2. \/ pc = "idle" /\ pc' = "begin" /\ everOn' = on /\ on' = on /\ away' = away
      \/ pc' = pc /\ on' = on /\ everOn' = everOn /\ away' = away
      \/ pc' = pc /\ on' = on /\ everOn' = everOn /\ away' = TRUE /\ pc \in Calls
      \/ pc' = pc /\ on' = ~on /\ everOn' = (everOn \/ ~on) /\ away' = away /\ pc # "done"
  BY DEF Request, Cancel, BudgetEnds, Prefer, Submit, clock
<1>3. AskRead'
  BY <1>1 DEF Requested, AskRead
<1>4. AtCall'
  <2>1. AtCall
    BY DEF Requested
  <2>2. CASE pc = "idle" /\ pc' = "begin" /\ everOn' = on /\ on' = on /\ away' = away
    BY <1>1, <2>1, <2>2 DEF AtCall, Calls
  <2>3. CASE pc' = pc /\ on' = on /\ everOn' = everOn /\ away' = away
    BY <1>1, <2>1, <2>3 DEF AtCall
  <2>4. CASE pc' = pc /\ on' = on /\ everOn' = everOn /\ away' = TRUE /\ pc \in Calls
    BY <1>1, <2>1, <2>4 DEF AtCall
  <2>5. CASE pc' = pc /\ on' = ~on /\ everOn' = (everOn \/ ~on) /\ away' = away /\ pc # "done"
    BY <1>1, <2>1, <2>5 DEF AtCall
  <2> QED
    BY <1>2, <2>2, <2>3, <2>4, <2>5
<1>5. Gathered'
  BY <1>1, <1>2 DEF Requested, Gathered
<1>6. Returned'
  BY <1>1, <1>2 DEF Requested, Returned
<1> QED
  BY <1>3, <1>4, <1>5, <1>6 DEF Requested

\* Every step of a request keeps the invariant.
LEMMA RequestKeeps ==
    ASSUME Requested, Next
    PROVE  Requested'
<1>1. OutOfBudget \in Seens /\ <<>> \in Firsts /\ Observed \subseteq Seens
  BY ProposalAssumption DEF Seens
<1>2. \A seen \in Seens : Handle(seen) => Requested'
  BY AnsweredKeeps, FollowedKeeps DEF Handle
<1>3. \A list \in Firsts : HandleTokens(list) => Requested'
  BY TokensKeeps
<1>4. CASE Request \/ Cancel \/ BudgetEnds \/ Prefer \/ Submit
  BY <1>4, AroundKeeps
<1>5. CASE Begin \/ BeginAlternative
  BY <1>5, BeginKeeps, BeginAlternativeKeeps
<1>6. CASE OutOfTime
  BY <1>1, <1>2, <1>3, <1>6 DEF OutOfTime
<1>7. CASE Fails
  <2>1. away => pc \in Calls
    BY DEF Requested, AtCall
  <2>2. pc \notin {"idle", "done"} /\ Stop("unavailable")
    BY <1>7, <2>1 DEF Fails, Calls
  <2> QED
    BY <2>2, StopKeeps
<1>8. CASE Cancelled
  <2>1. pc \notin {"idle", "done"} /\ Stop("cancelled")
    BY <1>8 DEF Cancelled, Calls
  <2> QED
    BY <2>1, StopKeeps
<1>9. CASE \E list \in Suggestions : Lookup(list)
  BY <1>9, LookupKeeps
<1>10. CASE \E list \in Firsts : ReplyTokens(list)
  BY <1>3, <1>10 DEF ReplyTokens
<1>11. CASE \E seen \in Observed : Reply(seen)
  BY <1>1, <1>2, <1>11 DEF Reply
<1> QED
  BY <1>4, <1>5, <1>6, <1>7, <1>8, <1>9, <1>10, <1>11 DEF Next

\* It holds when the request has not begun.
LEMMA RequestInit ==
    ASSUME Init
    PROVE  Requested
<1>1. AskRead
  BY DEF Init, AskRead
<1>2. AtCall
  BY DEF Init, AtCall, Calls
<1>3. WordsFit(ask, read.plan.echo, <<>>)
  BY NoneFit
<1>4. {MaxTries, MaxChosen} \subseteq Nat /\ Len(<<>>) = 0 /\ DOMAIN <<>> = {}
  BY ProposalAssumption
<1>5. Gathered
  BY <1>3, <1>4 DEF Init, Gathered
<1>6. Returned
  BY DEF Init, Returned
<1> QED
  BY <1>1, <1>2, <1>5, <1>6 DEF Requested

\* What a request answers fits the draft, is new, keeps what was found, and
\* respects the language that is off (RequestRight), whatever the model answers
\* and whenever the budget, a cancellation or a change of the settings comes.
THEOREM RequestIsRight == AllSpec => []RequestRight
<1> DEFINE I == part = "request" => Requested
<1>1. AllInit => I
  BY RequestInit DEF AllInit
<1>2. I /\ [AllNext]_all => I'
  <2> SUFFICES ASSUME I, [AllNext]_all, part' = "request" PROVE Requested'
    OBVIOUS
  <2>1. CASE UNCHANGED <<part, vars>>
    <3>1. Requested /\ UNCHANGED vars
      BY <2>1
    <3> QED
      BY <3>1 DEF Requested, AskRead, AtCall, Gathered, Returned, vars
  <2>2. CASE Asking /\ Next
    BY <2>2, RequestKeeps DEF Asking
  <2>3. (~(Drafting /\ DraftNext) /\ ~(Greeting /\ H!Next)) \/ UNCHANGED <<part, vars>>
    BY DEF Drafting, Greeting
  <2> QED
    BY <2>1, <2>2, <2>3 DEF AllNext, all
<1>3. I => RequestRight
  BY RequestedIsRight DEF RequestRight
<1> QED
  BY <1>1, <1>2, <1>3, PTL DEF AllSpec

-----------------------------------------------------------------------------
(* The table of edit distances                                             *)

\* A function whose value at an argument rests on its values at lesser ones
\* exists.
Rests(Args, M, F) ==
    \A p \in Args : \A g, h \in [Args -> Nat] :
       (\A q \in Args : M[q] < M[p] => g[q] = h[q]) => F[<<g, p>>] = F[<<h, p>>]

Defines(Args, F) == \E f \in [Args -> Nat] : \A p \in Args : f[p] = F[<<f, p>>]

LEMMA Recursion ==
    ASSUME NEW Args, NEW M \in [Args -> Nat], NEW F \in [[Args -> Nat] \X Args -> Nat],
           Rests(Args, M, F)
    PROVE  Defines(Args, F)
<1> DEFINE Good(m, g) == \A p \in Args : M[p] < m => g[p] = F[<<g, p>>]
           S == {m \in Nat : \E g \in [Args -> Nat] : Good(m, g)}
<1>0. \A p \in Args : M[p] \in Nat
  OBVIOUS
<1>12. \A p \in Args : \A g, h \in [Args -> Nat] :
         (\A q \in Args : M[q] < M[p] => g[q] = h[q]) => F[<<g, p>>] = F[<<h, p>>]
  BY DEF Rests
<1>1. 0 \in S
  <2> DEFINE g == [p \in Args |-> 0]
  <2>2. g \in [Args -> Nat] /\ Good(0, g)
    BY <1>0
  <2> QED
    BY <2>2
<1>2. ASSUME NEW m \in Nat, m \in S
      PROVE  m + 1 \in S
  <2>1. PICK g \in [Args -> Nat] : Good(m, g)
    BY <1>2
  <2> DEFINE h == [p \in Args |-> F[<<g, p>>]]
  <2>2. h \in [Args -> Nat] /\ \A p \in Args : h[p] = F[<<g, p>>]
    OBVIOUS
  <2> HIDE DEF h
  <2>3. ASSUME NEW p \in Args, M[p] < m + 1
        PROVE  h[p] = F[<<h, p>>]
    <3>1. ASSUME NEW q \in Args, M[q] < M[p]
          PROVE  g[q] = h[q]
      <4>1. M[q] < m
        BY <1>0, <2>3, <3>1
      <4> QED
        BY <2>1, <2>2, <4>1
    <3>2. F[<<g, p>>] = F[<<h, p>>]
      BY <1>12, <2>1, <2>2, <3>1
    <3> QED
      BY <2>2, <3>2
  <2>4. Good(m + 1, h)
    BY <2>3
  <2> HIDE DEF Good
  <2> QED
    BY <2>2, <2>4
<1> HIDE DEF S
<1>3. Nat \subseteq S
  BY <1>1, <1>2, CountingUp
<1> DEFINE exact == [m \in Nat |-> CHOOSE g \in [Args -> Nat] : Good(m, g)]
<1>4. \A m \in Nat : \E g \in [Args -> Nat] : Good(m, g)
  BY <1>3 DEF S
<1>5. \A m \in Nat : exact[m] \in [Args -> Nat] /\ Good(m, exact[m])
  <2> SUFFICES ASSUME NEW m \in Nat PROVE exact[m] \in [Args -> Nat] /\ Good(m, exact[m])
    OBVIOUS
  <2> HIDE DEF Good
  <2> QED
    BY <1>4
<1> HIDE DEF exact
\* Whatever is right for the arguments up to p agrees on p.
<1> DEFINE Same(m) == \A p \in Args, i, j \in Nat : M[p] < m /\ m <= i /\ m <= j => exact[i][p] = exact[j][p]
           A == {m \in Nat : Same(m)}
<1>6. 0 \in A
  BY <1>0
<1>7. ASSUME NEW m \in Nat, m \in A
      PROVE  m + 1 \in A
  <2>1. ASSUME NEW p \in Args, NEW i \in Nat, NEW j \in Nat, M[p] < m + 1, m + 1 <= i, m + 1 <= j
        PROVE  exact[i][p] = exact[j][p]
    <3>1. M[p] < i /\ M[p] < j /\ m <= i /\ m <= j
      BY <1>0, <2>1
    <3>2. exact[i][p] = F[<<exact[i], p>>] /\ exact[j][p] = F[<<exact[j], p>>]
      BY <1>5, <3>1
    <3>3. ASSUME NEW q \in Args, M[q] < M[p]
          PROVE  exact[i][q] = exact[j][q]
      <4>1. M[q] < m
        BY <1>0, <2>1, <3>3
      <4> QED
        BY <1>7, <3>1, <4>1
    <3>4. F[<<exact[i], p>>] = F[<<exact[j], p>>]
      BY <1>12, <1>5, <3>1, <3>3
    <3> QED
      BY <3>2, <3>4
  <2> QED
    BY <2>1
<1> HIDE DEF A
<1>8. \A m \in Nat : Same(m)
  BY <1>6, <1>7, CountingUp DEF A
<1> DEFINE f == [p \in Args |-> exact[M[p] + 1][p]]
<1>9. f \in [Args -> Nat] /\ \A p \in Args : f[p] = exact[M[p] + 1][p]
  BY <1>0, <1>5
<1> HIDE DEF f
<1>10. ASSUME NEW p \in Args
       PROVE  f[p] = F[<<f, p>>]
  <2> DEFINE k == M[p] + 1
             e == exact[k]
  <2>1. k \in Nat /\ M[p] < k
    BY <1>0
  <2>2. e \in [Args -> Nat] /\ f[p] = F[<<e, p>>]
    BY <1>5, <1>9, <2>1
  <2>3. ASSUME NEW q \in Args, M[q] < M[p]
        PROVE  e[q] = f[q]
    <3> DEFINE l == M[q] + 1
    <3>1. l \in Nat /\ M[q] < l /\ l <= l /\ l <= k
      BY <1>0, <2>3
    <3>2. f[q] = exact[l][q]
      BY <1>9
    <3> HIDE DEF l, k
    <3>3. exact[k][q] = exact[l][q]
      BY <1>8, <2>1, <3>1
    <3> QED
      BY <3>2, <3>3
  <2> HIDE DEF e
  <2>4. F[<<e, p>>] = F[<<f, p>>]
    BY <1>12, <1>9, <2>2, <2>3
  <2> QED
    BY <2>2, <2>4
<1> QED
  BY <1>9, <1>10 DEF Defines

\* Where it starts, the table counts; elsewhere a cell is the least of what
\* the cells before it give.
Options(d, a, b, i, j) ==
    {d[<<i - 1, j>>] + 1, d[<<i, j - 1>>] + 1, d[<<i - 1, j - 1>>] + IF a[i] = b[j] THEN 0 ELSE 1}
    \cup IF i > 1 /\ j > 1 /\ a[i] = b[j - 1] /\ a[i - 1] = b[j] THEN {d[<<i - 2, j - 2>>] + 1} ELSE {}

LEMMA CellOf ==
    ASSUME NEW d, NEW a, NEW b, NEW i \in Nat, NEW j \in Nat
    PROVE  Cell(d, a, b, i, j) = IF i = 0 THEN j ELSE IF j = 0 THEN i ELSE Least(Options(d, a, b, i, j))
BY DEF Cell, Options

Cells(a, b) == (0 .. Len(a)) \X (0 .. Len(b))

\* The cells that a cell rests on are before it.
LEMMA CellsBefore ==
    ASSUME NEW a \in Seq(Symbol), NEW b \in Seq(Symbol), NEW i \in 1 .. Len(a), NEW j \in 1 .. Len(b)
    PROVE  /\ <<i - 1, j>> \in Cells(a, b) /\ <<i, j - 1>> \in Cells(a, b) /\ <<i - 1, j - 1>> \in Cells(a, b)
           /\ i > 1 /\ j > 1 => <<i - 2, j - 2>> \in Cells(a, b)
<1> DEFINE l == Len(a)
           m == Len(b)
<1>1. l \in Nat /\ m \in Nat /\ i \in 1 .. l /\ j \in 1 .. m
  OBVIOUS
<1> HIDE DEF l, m
<1>2. /\ i - 1 \in 0 .. l /\ i \in 0 .. l /\ j - 1 \in 0 .. m /\ j \in 0 .. m
      /\ i > 1 => i - 2 \in 0 .. l
      /\ j > 1 => j - 2 \in 0 .. m
  BY <1>1
<1> QED
  BY <1>2 DEF Cells, l, m

\* What a cell has to choose from.
LEMMA OptionsTyped ==
    ASSUME NEW d, NEW a, NEW b, NEW i \in Nat, NEW j \in Nat,
           d[<<i - 1, j>>] \in Nat, d[<<i, j - 1>>] \in Nat, d[<<i - 1, j - 1>>] \in Nat,
           i > 1 /\ j > 1 => d[<<i - 2, j - 2>>] \in Nat
    PROVE  Least(Options(d, a, b, i, j)) \in Nat
<1> DEFINE w == d[<<i - 1, j>>]
           x == d[<<i, j - 1>>]
           y == d[<<i - 1, j - 1>>]
           z == d[<<i - 2, j - 2>>]
           more == i > 1 /\ j > 1 /\ a[i] = b[j - 1] /\ a[i - 1] = b[j]
           step == IF a[i] = b[j] THEN 0 ELSE 1
<1>1. Options(d, a, b, i, j) = {w + 1, x + 1, y + step} \cup IF more THEN {z + 1} ELSE {}
  BY DEF Options
<1>2. w \in Nat /\ x \in Nat /\ y \in Nat /\ step \in Nat /\ (more => z \in Nat)
  OBVIOUS
<1> HIDE DEF w, x, y, z, more, step
<1>3. Options(d, a, b, i, j) \in SUBSET Nat /\ w + 1 \in Options(d, a, b, i, j)
  <2>1. w + 1 \in Nat /\ x + 1 \in Nat /\ y + step \in Nat /\ (more => z + 1 \in Nat)
    BY <1>2
  <2> QED
    BY <1>1, <2>1
<1> QED
  BY <1>3, LeastOf

\* The table exists, and its cells are those of the recursive definition.
LEMMA TableThere ==
    ASSUME NEW a \in Seq(Symbol), NEW b \in Seq(Symbol)
    PROVE  \E d \in [Cells(a, b) -> Nat] : 
             /\ \A i \in 0 .. Len(a), j \in 0 .. Len(b) : d[<<i, j>>] = Cell(d, a, b, i, j)
             /\ EditDistance(a, b) = d[<<Len(a), Len(b)>>]
<1> DEFINE Args == Cells(a, b)
           M == [p \in Args |-> p[1] + p[2]]
           F == [x \in [Args -> Nat] \X Args |-> Cell(x[1], a, b, x[2][1], x[2][2])]
           IsTable(d) == d = [p \in (0 .. Len(a)) \X (0 .. Len(b)) |-> Cell(d, a, b, p[1], p[2])]
           table == CHOOSE d : IsTable(d)
<1>0. Len(a) \in Nat /\ Len(b) \in Nat
      /\ \A p \in Args : p[1] \in 0 .. Len(a) /\ p[2] \in 0 .. Len(b) /\ p = <<p[1], p[2]>>
  BY DEF Cells
<1>1. M \in [Args -> Nat] /\ \A p \in Args : M[p] = p[1] + p[2]
  BY <1>0
<1>2. \A g \in [Args -> Nat], p \in Args : F[<<g, p>>] = Cell(g, a, b, p[1], p[2])
  OBVIOUS
<1>3. F \in [[Args -> Nat] \X Args -> Nat]
  <2> SUFFICES ASSUME NEW g \in [Args -> Nat], NEW p \in Args PROVE Cell(g, a, b, p[1], p[2]) \in Nat
    OBVIOUS
  <2> DEFINE i == p[1]
             j == p[2]
  <2>1. i \in 0 .. Len(a) /\ j \in 0 .. Len(b)
    BY <1>0
  <2> HIDE DEF i, j
  <2>2. CASE i = 0 \/ j = 0
    BY <1>0, <2>1, <2>2, CellOf DEF i, j
  <2>3. CASE i # 0 /\ j # 0
    <3>1. i \in 1 .. Len(a) /\ j \in 1 .. Len(b)
      BY <1>0, <2>1, <2>3
    <3>2. /\ g[<<i - 1, j>>] \in Nat /\ g[<<i, j - 1>>] \in Nat /\ g[<<i - 1, j - 1>>] \in Nat
          /\ i > 1 /\ j > 1 => g[<<i - 2, j - 2>>] \in Nat
      BY <3>1, CellsBefore
    <3>3. i \in Nat /\ j \in Nat
      BY <1>0, <3>1
    <3>4. Least(Options(g, a, b, i, j)) \in Nat
      BY <3>2, <3>3, OptionsTyped
    <3>5. Cell(g, a, b, i, j) \in Nat
      BY <2>3, <3>3, <3>4, CellOf
    <3> QED
      BY <3>5 DEF i, j
  <2> QED
    BY <2>2, <2>3 DEF i, j
<1>4. ASSUME NEW p \in Args, NEW g \in [Args -> Nat], NEW h \in [Args -> Nat],
             \A q \in Args : M[q] < M[p] => g[q] = h[q]
      PROVE  F[<<g, p>>] = F[<<h, p>>]
  <2> DEFINE i == p[1]
             j == p[2]
  <2>1. i \in 0 .. Len(a) /\ j \in 0 .. Len(b) /\ M[p] = i + j
    BY <1>0, <1>1
  <2>2. F[<<g, p>>] = Cell(g, a, b, i, j) /\ F[<<h, p>>] = Cell(h, a, b, i, j)
    BY <1>2
  <2> HIDE DEF i, j, F
  <2>3. CASE i = 0 \/ j = 0
    BY <2>1, <2>2, <2>3, CellOf
  <2>4. CASE i # 0 /\ j # 0
    <3>1. i \in 1 .. Len(a) /\ j \in 1 .. Len(b)
      BY <1>0, <2>1, <2>4
    <3>2. \A x, y : <<x, y>> \in Args => M[<<x, y>>] = x + y
      BY <1>1
    <3> HIDE DEF M
    <3>3. /\ g[<<i - 1, j>>] = h[<<i - 1, j>>] /\ g[<<i, j - 1>>] = h[<<i, j - 1>>]
          /\ g[<<i - 1, j - 1>>] = h[<<i - 1, j - 1>>]
          /\ i > 1 /\ j > 1 => g[<<i - 2, j - 2>>] = h[<<i - 2, j - 2>>]
      <4>1. /\ <<i - 1, j>> \in Args /\ <<i, j - 1>> \in Args /\ <<i - 1, j - 1>> \in Args
            /\ i > 1 /\ j > 1 => <<i - 2, j - 2>> \in Args
        BY <3>1, CellsBefore
      <4>2. i \in Nat /\ j \in Nat /\ i - 1 + j < i + j /\ i + (j - 1) < i + j
            /\ i - 1 + (j - 1) < i + j /\ i - 2 + (j - 2) < i + j
        BY <1>0, <3>1
      <4> QED
        BY <1>4, <2>1, <3>2, <4>1, <4>2
    <3>4. Options(g, a, b, i, j) = Options(h, a, b, i, j)
      BY <3>3 DEF Options
    <3> QED
      BY <2>1, <2>2, <3>4, CellOf
  <2> QED
    BY <2>3, <2>4
<1>5. \E f \in [Args -> Nat] : \A p \in Args : f[p] = F[<<f, p>>]
  <2> HIDE DEF F, M, Args
  <2>2. M \in [Args -> Nat] /\ F \in [[Args -> Nat] \X Args -> Nat]
    BY <1>1, <1>3
  <2>3. \A p \in Args : \A g, h \in [Args -> Nat] :
           (\A q \in Args : M[q] < M[p] => g[q] = h[q]) => F[<<g, p>>] = F[<<h, p>>]
    BY <1>4
  <2>4. Rests(Args, M, F)
    BY <2>3 DEF Rests
  <2>5. M \in [Args -> Nat]
    BY <2>2
  <2>6. F \in [[Args -> Nat] \X Args -> Nat]
    BY <2>2
  <2>7. Defines(Args, F)
    BY <2>4, <2>5, <2>6, Recursion
  <2> QED
    BY <2>7 DEF Defines
<1>6. \E d : IsTable(d)
  <2>1. PICK f \in [Args -> Nat] : \A p \in Args : f[p] = F[<<f, p>>]
    BY <1>5
  <2>2. \A p \in Args : f[p] = Cell(f, a, b, p[1], p[2])
    BY <1>2, <2>1
  <2>3. IsTable(f)
    BY <2>2 DEF Cells
  <2> QED
    BY <2>3
<1>7. IsTable(table)
  <2> HIDE DEF IsTable
  <2> QED
    BY <1>6
<1>8. EditDistance(a, b) = table[<<Len(a), Len(b)>>]
  BY DEF EditDistance
<1> HIDE DEF table
<1>9. \A i \in 0 .. Len(a), j \in 0 .. Len(b) : table[<<i, j>>] = Cell(table, a, b, i, j)
  BY <1>7
<1> DEFINE Reached(m) == \A i \in 0 .. Len(a), j \in 0 .. Len(b) : i + j < m => table[<<i, j>>] \in Nat
           A == {m \in Nat : Reached(m)}
<1>10. 0 \in A
  BY <1>0
<1>11. ASSUME NEW m \in Nat, m \in A
       PROVE  m + 1 \in A
  <2> SUFFICES ASSUME NEW i \in 0 .. Len(a), NEW j \in 0 .. Len(b), i + j < m + 1
               PROVE  table[<<i, j>>] \in Nat
    OBVIOUS
  <2>1. CASE i = 0 \/ j = 0
    BY <1>9, <2>1, CellOf
  <2>2. CASE i # 0 /\ j # 0
    <3>1. i \in 1 .. Len(a) /\ j \in 1 .. Len(b) /\ i \in Nat /\ j \in Nat
      BY <1>0, <2>2
    <3>2. /\ <<i - 1, j>> \in Args /\ <<i, j - 1>> \in Args /\ <<i - 1, j - 1>> \in Args
          /\ i > 1 /\ j > 1 => <<i - 2, j - 2>> \in Args
      BY <3>1, CellsBefore
    <3>3. i - 1 + j < m /\ i + (j - 1) < m /\ i - 1 + (j - 1) < m /\ i - 2 + (j - 2) < m
      BY <3>1
    <3>4. /\ table[<<i - 1, j>>] \in Nat /\ table[<<i, j - 1>>] \in Nat /\ table[<<i - 1, j - 1>>] \in Nat
          /\ i > 1 /\ j > 1 => table[<<i - 2, j - 2>>] \in Nat
      BY <1>11, <3>2, <3>3 DEF Cells
    <3>6. Least(Options(table, a, b, i, j)) \in Nat
      BY <3>1, <3>4, OptionsTyped
    <3> QED
      BY <1>9, <2>2, <3>1, <3>6, CellOf
  <2> QED
    BY <2>1, <2>2
<1> HIDE DEF A
<1>12. \A m \in Nat : Reached(m)
  BY <1>10, <1>11, CountingUp DEF A
<1>13. \A i \in 0 .. Len(a), j \in 0 .. Len(b) : table[<<i, j>>] \in Nat
  <2> SUFFICES ASSUME NEW i \in 0 .. Len(a), NEW j \in 0 .. Len(b) PROVE table[<<i, j>>] \in Nat
    OBVIOUS
  <2>1. i + j + 1 \in Nat /\ i + j < i + j + 1
    BY <1>0
  <2> QED
    BY <1>12, <2>1
<1>14. table \in [Cells(a, b) -> Nat]
  <2>1. DOMAIN table = Cells(a, b) /\ table = [p \in Cells(a, b) |-> table[p]]
    BY <1>7 DEF Cells
  <2>2. \A p \in Cells(a, b) : table[p] \in Nat
    BY <1>0, <1>13
  <2> QED
    BY <2>1, <2>2
<1> QED
  BY <1>8, <1>9, <1>14

\* The first i symbols of a and the first j of b: the same; a symbol changed, two
\* neighbours swapped, or (b) one put in, at k.
Alike(a, b, i, j) == i = j /\ \A l \in 1 .. i : a[l] = b[l]

Changed(a, b, i, k) == a[k] # b[k] /\ \A l \in 1 .. i : l # k => a[l] = b[l]

Swapped(a, b, i, k) ==
    /\ k + 1 <= i /\ a[k] = b[k + 1] /\ a[k + 1] = b[k] /\ a[k] # b[k]
    /\ \A l \in 1 .. i : l \notin {k, k + 1} => a[l] = b[l]

Put(a, b, i, k) == (\A l \in 1 .. k - 1 : a[l] = b[l]) /\ \A l \in k .. i : a[l] = b[l + 1]

Once(a, b, i, j) ==
    \/ i = j /\ \E k \in 1 .. i : Changed(a, b, i, k) \/ Swapped(a, b, i, k)
    \/ j = i + 1 /\ \E k \in 1 .. j : Put(a, b, i, k)
    \/ i = j + 1 /\ \E k \in 1 .. i : Put(b, a, j, k)

\* How one edit of longer starts is one of shorter ones, as the table has it.
Edited(a, b, i, j) ==
    \/ Alike(a, b, i - 1, j) \/ Alike(a, b, i, j - 1)
    \/ a[i] = b[j] /\ Once(a, b, i - 1, j - 1)
    \/ a[i] # b[j] /\ Alike(a, b, i - 1, j - 1)
    \/ i > 1 /\ j > 1 /\ a[i] = b[j - 1] /\ a[i - 1] = b[j] /\ Alike(a, b, i - 2, j - 2)

LEMMA OnceIsEdited ==
    ASSUME NEW a, NEW b, NEW i \in Nat \ {0}, NEW j \in Nat \ {0}, Once(a, b, i, j)
    PROVE  ~Alike(a, b, i, j) /\ Edited(a, b, i, j)
<1>1. ASSUME i = j, NEW k \in 1 .. i, Changed(a, b, i, k)
      PROVE  ~Alike(a, b, i, j) /\ Edited(a, b, i, j)
  <2>1. ~Alike(a, b, i, j)
    BY <1>1 DEF Changed, Alike
  <2>2. CASE k = i
    <3>1. a[i] # b[j] /\ \A l \in 1 .. i - 1 : a[l] = b[l]
      BY <1>1, <2>2 DEF Changed
    <3> QED
      BY <1>1, <2>1, <3>1 DEF Edited, Alike
  <2>3. CASE k # i
    <3>1. a[i] = b[j] /\ k \in 1 .. i - 1 /\ Changed(a, b, i - 1, k)
      BY <1>1, <2>3 DEF Changed
    <3>2. Once(a, b, i - 1, j - 1)
      BY <1>1, <3>1 DEF Once
    <3> QED
      BY <2>1, <3>1, <3>2 DEF Edited
  <2> QED
    BY <2>2, <2>3
<1>2. ASSUME i = j, NEW k \in 1 .. i, Swapped(a, b, i, k)
      PROVE  ~Alike(a, b, i, j) /\ Edited(a, b, i, j)
  <2>1. ~Alike(a, b, i, j)
    BY <1>2 DEF Swapped, Alike
  <2>2. CASE k = i - 1
    <3>1. i > 1 /\ k + 1 = i /\ \A l \in 1 .. i - 2 : l \in 1 .. i /\ l \notin {k, k + 1}
      BY <2>2
    <3>2. a[i] = b[j - 1] /\ a[i - 1] = b[j] /\ \A l \in 1 .. i - 2 : a[l] = b[l]
      BY <1>2, <2>2, <3>1 DEF Swapped
    <3> QED
      BY <1>2, <2>1, <3>1, <3>2 DEF Edited, Alike
  <2>3. CASE k # i - 1
    <3>1. k \in 1 .. i - 1 /\ k + 1 <= i - 1 /\ i \notin {k, k + 1}
      BY <1>2, <2>3 DEF Swapped
    <3>2. a[i] = b[j] /\ Swapped(a, b, i - 1, k)
      BY <1>2, <3>1 DEF Swapped
    <3>3. Once(a, b, i - 1, j - 1)
      BY <1>2, <3>1, <3>2 DEF Once
    <3> QED
      BY <2>1, <3>2, <3>3 DEF Edited
  <2> QED
    BY <2>2, <2>3
<1>3. ASSUME j = i + 1, NEW k \in 1 .. j, Put(a, b, i, k)
      PROVE  ~Alike(a, b, i, j) /\ Edited(a, b, i, j)
  <2>1. ~Alike(a, b, i, j)
    BY <1>3 DEF Alike
  <2>2. CASE k = j
    <3>1. i = j - 1 /\ k - 1 = i
      BY <1>3, <2>2
    <3>2. Alike(a, b, i, j - 1)
      BY <1>3, <3>1 DEF Put, Alike
    <3> QED
      BY <2>1, <3>2 DEF Edited
  <2>3. CASE k # j
    <3>1. k \in 1 .. j - 1 /\ i \in k .. i /\ j - 1 = i - 1 + 1 /\ \A l \in k .. i - 1 : l \in k .. i
      BY <1>3, <2>3
    <3>2. a[i] = b[j] /\ Put(a, b, i - 1, k)
      BY <1>3, <3>1 DEF Put
    <3>3. Once(a, b, i - 1, j - 1)
      BY <3>1, <3>2 DEF Once
    <3> QED
      BY <2>1, <3>2, <3>3 DEF Edited
  <2> QED
    BY <2>2, <2>3
<1>4. ASSUME i = j + 1, NEW k \in 1 .. i, Put(b, a, j, k)
      PROVE  ~Alike(a, b, i, j) /\ Edited(a, b, i, j)
  <2>1. ~Alike(a, b, i, j)
    BY <1>4 DEF Alike
  <2>2. CASE k = i
    <3>1. j = i - 1 /\ k - 1 = j
      BY <1>4, <2>2
    <3>2. Alike(a, b, i - 1, j)
      BY <1>4, <3>1 DEF Put, Alike
    <3> QED
      BY <2>1, <3>2 DEF Edited
  <2>3. CASE k # i
    <3>1. k \in 1 .. i - 1 /\ j \in k .. j /\ i - 1 = j - 1 + 1 /\ \A l \in k .. j - 1 : l \in k .. j
      BY <1>4, <2>3
    <3>2. a[i] = b[j] /\ Put(b, a, j - 1, k)
      BY <1>4, <3>1 DEF Put
    <3>3. Once(a, b, i - 1, j - 1)
      BY <3>1, <3>2 DEF Once
    <3> QED
      BY <2>1, <3>2, <3>3 DEF Edited
  <2> QED
    BY <2>2, <2>3
<1> QED
  BY <1>1, <1>2, <1>3, <1>4 DEF Once

LEMMA EditedIsOnce ==
    ASSUME NEW a, NEW b, NEW i \in Nat \ {0}, NEW j \in Nat \ {0}, Edited(a, b, i, j), ~Alike(a, b, i, j)
    PROVE  Once(a, b, i, j)
<1>1. CASE Alike(a, b, i - 1, j)
  <2>1. i = j + 1 /\ i \in 1 .. i /\ j = i - 1
    BY <1>1 DEF Alike
  <2>2. Put(b, a, j, i)
    BY <1>1, <2>1 DEF Alike, Put
  <2> QED
    BY <2>1, <2>2 DEF Once
<1>2. CASE Alike(a, b, i, j - 1)
  <2>1. j = i + 1 /\ j \in 1 .. j /\ i = j - 1
    BY <1>2 DEF Alike
  <2>2. Put(a, b, i, j)
    BY <1>2, <2>1 DEF Alike, Put
  <2> QED
    BY <2>1, <2>2 DEF Once
<1>3. CASE a[i] # b[j] /\ Alike(a, b, i - 1, j - 1)
  <2>1. i = j /\ i \in 1 .. i /\ \A l \in 1 .. i : l # i => l \in 1 .. i - 1
    BY <1>3 DEF Alike
  <2>2. Changed(a, b, i, i)
    BY <1>3, <2>1 DEF Alike, Changed
  <2> QED
    BY <2>1, <2>2 DEF Once
<1>4. CASE i > 1 /\ j > 1 /\ a[i] = b[j - 1] /\ a[i - 1] = b[j] /\ Alike(a, b, i - 2, j - 2)
  <2> DEFINE k == i - 1
  <2>1. i = j /\ k \in 1 .. i /\ k + 1 = i /\ \A l \in 1 .. i : l \notin {k, k + 1} => l \in 1 .. i - 2
    BY <1>4 DEF Alike
  <2>2. \A l \in 1 .. i : l \notin {k, k + 1} => a[l] = b[l]
    BY <1>4, <2>1 DEF Alike
  <2>3. a[k] # b[k]
    <3> SUFFICES ASSUME a[k] = b[k] PROVE FALSE
      OBVIOUS
    <3>1. a[k + 1] = b[k + 1]
      BY <1>4, <2>1
    <3>2. \A l \in 1 .. i : a[l] = b[l]
      BY <2>2, <3>1
    <3> QED
      BY <2>1, <3>2 DEF Alike
  <2>4. Swapped(a, b, i, k)
    BY <1>4, <2>1, <2>2, <2>3 DEF Swapped
  <2> QED
    BY <2>1, <2>4 DEF Once
<1>5. CASE a[i] = b[j] /\ Once(a, b, i - 1, j - 1)
  <2>1. ASSUME i - 1 = j - 1, NEW k \in 1 .. i - 1, Changed(a, b, i - 1, k)
        PROVE  Once(a, b, i, j)
    <3>1. i = j /\ k \in 1 .. i /\ Changed(a, b, i, k)
      BY <1>5, <2>1 DEF Changed
    <3> QED
      BY <3>1 DEF Once
  <2>2. ASSUME i - 1 = j - 1, NEW k \in 1 .. i - 1, Swapped(a, b, i - 1, k)
        PROVE  Once(a, b, i, j)
    <3>1. i = j /\ k \in 1 .. i /\ Swapped(a, b, i, k)
      BY <1>5, <2>2 DEF Swapped
    <3> QED
      BY <3>1 DEF Once
  <2>3. ASSUME j - 1 = i - 1 + 1, NEW k \in 1 .. j - 1, Put(a, b, i - 1, k)
        PROVE  Once(a, b, i, j)
    <3>1. j = i + 1 /\ k \in 1 .. j /\ \A l \in k .. i : l = i \/ l \in k .. i - 1
      BY <2>3
    <3>2. Put(a, b, i, k)
      BY <1>5, <2>3, <3>1 DEF Put
    <3> QED
      BY <3>1, <3>2 DEF Once
  <2>4. ASSUME i - 1 = j - 1 + 1, NEW k \in 1 .. i - 1, Put(b, a, j - 1, k)
        PROVE  Once(a, b, i, j)
    <3>1. i = j + 1 /\ k \in 1 .. i /\ \A l \in k .. j : l = j \/ l \in k .. j - 1
      BY <2>4
    <3>2. Put(b, a, j, k)
      BY <1>5, <2>4, <3>1 DEF Put
    <3> QED
      BY <3>1, <3>2 DEF Once
  <2> QED
    BY <1>5, <2>1, <2>2, <2>3, <2>4 DEF Once
<1> QED
  BY <1>1, <1>2, <1>3, <1>4, <1>5 DEF Edited

\* A cell is 0 where the starts are the same and 1 where one edit makes them so.
Says(d, a, b, i, j) ==
    /\ d[<<i, j>>] = 0 <=> Alike(a, b, i, j)
    /\ d[<<i, j>>] = 1 <=> Once(a, b, i, j)

LEMMA EdgeSays ==
    ASSUME NEW d, NEW a, NEW b, NEW i \in Nat, NEW j \in Nat, i = 0 \/ j = 0,
           d[<<i, j>>] = Cell(d, a, b, i, j)
    PROVE  Says(d, a, b, i, j)
<1>1. d[<<i, j>>] = IF i = 0 THEN j ELSE i
  BY CellOf
<1>2. d[<<i, j>>] = 0 <=> Alike(a, b, i, j)
  BY <1>1 DEF Alike
<1>3. ASSUME i = 0, j = 1 PROVE Once(a, b, i, j)
  <2>1. Put(a, b, i, 1) /\ 1 \in 1 .. j /\ j = i + 1
    BY <1>3 DEF Put
  <2> QED
    BY <2>1 DEF Once
<1>4. ASSUME i = 1, j = 0 PROVE Once(a, b, i, j)
  <2>1. Put(b, a, j, 1) /\ 1 \in 1 .. i /\ i = j + 1
    BY <1>4 DEF Put
  <2> QED
    BY <2>1 DEF Once
<1>5. Once(a, b, i, j) => (i = 0 /\ j = 1) \/ (i = 1 /\ j = 0)
  BY DEF Once
<1> QED
  BY <1>1, <1>2, <1>3, <1>4, <1>5 DEF Says

LEMMA CellSays ==
    ASSUME NEW a, NEW b, NEW i \in Nat \ {0}, NEW j \in Nat \ {0}, NEW d,
           d[<<i, j>>] = Cell(d, a, b, i, j),
           d[<<i - 1, j>>] \in Nat, d[<<i, j - 1>>] \in Nat, d[<<i - 1, j - 1>>] \in Nat,
           i > 1 /\ j > 1 => d[<<i - 2, j - 2>>] \in Nat /\ Says(d, a, b, i - 2, j - 2),
           Says(d, a, b, i - 1, j), Says(d, a, b, i, j - 1), Says(d, a, b, i - 1, j - 1)
    PROVE  Says(d, a, b, i, j)
<1> DEFINE S == Options(d, a, b, i, j)
           u == d[<<i - 1, j>>]
           v == d[<<i, j - 1>>]
           w == d[<<i - 1, j - 1>>]
           x == d[<<i - 2, j - 2>>]
           c == d[<<i, j>>]
           swap == i > 1 /\ j > 1 /\ a[i] = b[j - 1] /\ a[i - 1] = b[j]
           same == a[i] = b[j]
<1>1. c = Least(S)
  BY CellOf
<1>2. u \in Nat /\ v \in Nat /\ w \in Nat /\ (swap => x \in Nat)
  OBVIOUS
<1>3. \A n : n \in S <=> \/ n = u + 1 \/ n = v + 1 \/ n = w + (IF same THEN 0 ELSE 1)
                         \/ (swap /\ n = x + 1)
  BY DEF Options
<1>4. /\ (u = 0 <=> Alike(a, b, i - 1, j)) /\ (v = 0 <=> Alike(a, b, i, j - 1))
      /\ (w = 0 <=> Alike(a, b, i - 1, j - 1)) /\ (w = 1 <=> Once(a, b, i - 1, j - 1))
      /\ swap => (x = 0 <=> Alike(a, b, i - 2, j - 2))
  BY DEF Says
<1>5. Alike(a, b, i, j) <=> same /\ Alike(a, b, i - 1, j - 1)
  <2>1. ASSUME Alike(a, b, i, j) PROVE same /\ Alike(a, b, i - 1, j - 1)
    BY <2>1 DEF Alike
  <2>2. ASSUME same, Alike(a, b, i - 1, j - 1) PROVE Alike(a, b, i, j)
    <3>1. i = j /\ \A l \in 1 .. i : l = i \/ l \in 1 .. i - 1
      BY <2>2 DEF Alike
    <3> QED
      BY <2>2, <3>1 DEF Alike
  <2> QED
    BY <2>1, <2>2
<1>6. Edited(a, b, i, j) <=> \/ Alike(a, b, i - 1, j) \/ Alike(a, b, i, j - 1)
                             \/ same /\ Once(a, b, i - 1, j - 1)
                             \/ ~same /\ Alike(a, b, i - 1, j - 1)
                             \/ swap /\ Alike(a, b, i - 2, j - 2)
  BY DEF Edited
<1>7. Once(a, b, i, j) <=> ~Alike(a, b, i, j) /\ Edited(a, b, i, j)
  BY OnceIsEdited, EditedIsOnce
<1> HIDE DEF S, u, v, w, x, c, swap, same
<1>8. S \in SUBSET Nat /\ S # {}
  BY <1>2, <1>3
<1>9. c \in S /\ \A n \in S : c <= n
  BY <1>1, <1>8, LeastOf
<1>10. c \in Nat
  BY <1>8, <1>9
<1>11. 0 \in S <=> same /\ w = 0
  BY <1>2, <1>3
<1>12. 1 \in S <=> u = 0 \/ v = 0 \/ (same /\ w = 1) \/ (~same /\ w = 0) \/ (swap /\ x = 0)
  BY <1>2, <1>3
<1>13. c = 0 <=> 0 \in S
  BY <1>8, <1>9, <1>10
<1>14. c = 1 <=> 0 \notin S /\ 1 \in S
  BY <1>8, <1>9, <1>10
<1>15. c = 0 <=> Alike(a, b, i, j)
  BY <1>4, <1>5, <1>11, <1>13
<1>16. c = 1 <=> Once(a, b, i, j)
  BY <1>4, <1>5, <1>6, <1>7, <1>11, <1>12, <1>14
<1> QED
  BY <1>15, <1>16 DEF Says, c

LEMMA TableSays ==
    ASSUME NEW a \in Seq(Symbol), NEW b \in Seq(Symbol), NEW d \in [Cells(a, b) -> Nat],
           \A i \in 0 .. Len(a), j \in 0 .. Len(b) : d[<<i, j>>] = Cell(d, a, b, i, j)
    PROVE  Says(d, a, b, Len(a), Len(b))
<1>0. Len(a) \in Nat /\ Len(b) \in Nat
  OBVIOUS
<1> DEFINE Reached(m) == \A i \in 0 .. Len(a), j \in 0 .. Len(b) : i + j < m => Says(d, a, b, i, j)
           A == {m \in Nat : Reached(m)}
<1>1. 0 \in A
  BY <1>0
<1>2. ASSUME NEW m \in Nat, m \in A
      PROVE  m + 1 \in A
  <2> SUFFICES ASSUME NEW i \in 0 .. Len(a), NEW j \in 0 .. Len(b), i + j < m + 1
               PROVE  Says(d, a, b, i, j)
    OBVIOUS
  <2>1. i \in Nat /\ j \in Nat
    BY <1>0
  <2>2. CASE i = 0 \/ j = 0
    BY <2>1, <2>2, EdgeSays
  <2>3. CASE i # 0 /\ j # 0
    <3>1. i \in 1 .. Len(a) /\ j \in 1 .. Len(b) /\ i \in Nat \ {0} /\ j \in Nat \ {0}
      BY <1>0, <2>1, <2>3
    <3>2. /\ <<i - 1, j>> \in Cells(a, b) /\ <<i, j - 1>> \in Cells(a, b) /\ <<i - 1, j - 1>> \in Cells(a, b)
          /\ i > 1 /\ j > 1 => <<i - 2, j - 2>> \in Cells(a, b)
      BY <3>1, CellsBefore
    <3>3. i - 1 + j < m /\ i + (j - 1) < m /\ i - 1 + (j - 1) < m /\ i - 2 + (j - 2) < m
      BY <2>1, <3>1
    <3>4. \A x, y : <<x, y>> \in Cells(a, b) /\ x + y < m => d[<<x, y>>] \in Nat /\ Says(d, a, b, x, y)
      BY <1>2 DEF Cells
    <3>5. /\ d[<<i - 1, j>>] \in Nat /\ d[<<i, j - 1>>] \in Nat /\ d[<<i - 1, j - 1>>] \in Nat
          /\ Says(d, a, b, i - 1, j) /\ Says(d, a, b, i, j - 1) /\ Says(d, a, b, i - 1, j - 1)
          /\ i > 1 /\ j > 1 => d[<<i - 2, j - 2>>] \in Nat /\ Says(d, a, b, i - 2, j - 2)
      BY <3>2, <3>3, <3>4
    <3>6. d[<<i, j>>] = Cell(d, a, b, i, j)
      OBVIOUS
    <3> QED
      BY <3>1, <3>5, <3>6, CellSays
  <2> QED
    BY <2>2, <2>3
<1> HIDE DEF A
<1>3. \A m \in Nat : Reached(m)
  BY <1>1, <1>2, CountingUp DEF A
<1>4. Len(a) + Len(b) + 1 \in Nat /\ Len(a) + Len(b) < Len(a) + Len(b) + 1
      /\ Len(a) \in 0 .. Len(a) /\ Len(b) \in 0 .. Len(b)
  BY <1>0
<1> QED
  BY <1>3, <1>4

\* The rests of two texts are the same if they are so symbol by symbol.
LEMMA RestsEqual ==
    ASSUME NEW a \in Seq(Symbol), NEW b \in Seq(Symbol), NEW p \in Nat \ {0}, NEW q \in Nat \ {0},
           Len(a) - p = Len(b) - q
    PROVE  From(a, p) = From(b, q) <=> \A k \in 0 .. Len(a) - p : a[p + k] = b[q + k]
<1> DEFINE x == From(a, p)
           y == From(b, q)
           n == IF p <= Len(a) THEN Len(a) - p + 1 ELSE 0
           l == Len(a)
           m == Len(b)
<1>0. l \in Nat /\ m \in Nat /\ l - p = m - q
  OBVIOUS
<1>1. x \in Seq(Symbol) /\ Len(x) = n /\ \A k \in 1 .. l - p + 1 : x[k] = a[p + k - 1]
  BY FromAt
<1>2. y \in Seq(Symbol) /\ Len(y) = (IF q <= m THEN m - q + 1 ELSE 0) /\ \A k \in 1 .. m - q + 1 : y[k] = b[q + k - 1]
  BY FromAt
<1> HIDE DEF x, y, l, m
<1>3. n = (IF p <= l THEN l - p + 1 ELSE 0)
  BY DEF l
<1> HIDE DEF n
<1>4. Len(y) = n /\ m - q + 1 = l - p + 1 /\ n \in Nat
  BY <1>0, <1>2, <1>3
<1>5. x = y <=> \A k \in 1 .. n : x[k] = y[k]
  <2>1. (\A k \in 1 .. n : x[k] = y[k]) => x = y
    BY <1>1, <1>2, <1>4, SeqEqual
  <2> QED
    BY <2>1
<1>6. \A k \in 1 .. n : k \in 1 .. l - p + 1
  BY <1>0, <1>3
<1>7. x = y <=> \A k \in 1 .. n : a[p + k - 1] = b[q + k - 1]
  BY <1>1, <1>2, <1>4, <1>5, <1>6
<1>8. ASSUME \A k \in 1 .. n : a[p + k - 1] = b[q + k - 1], NEW k \in 0 .. l - p
      PROVE  a[p + k] = b[q + k]
  <2>1. k + 1 \in 1 .. n /\ p + (k + 1) - 1 = p + k /\ q + (k + 1) - 1 = q + k
    BY <1>0, <1>3
  <2>2. a[p + (k + 1) - 1] = b[q + (k + 1) - 1]
    BY <1>8, <2>1
  <2> QED
    BY <2>1, <2>2
<1>9. ASSUME \A k \in 0 .. l - p : a[p + k] = b[q + k], NEW k \in 1 .. n
      PROVE  a[p + k - 1] = b[q + k - 1]
  <2>1. k - 1 \in 0 .. l - p /\ p + k - 1 = p + (k - 1) /\ q + k - 1 = q + (k - 1)
    BY <1>0, <1>3
  <2> QED
    BY <1>9, <2>1
<1>10. x = y <=> \A k \in 0 .. l - p : a[p + k] = b[q + k]
  BY <1>7, <1>8, <1>9
<1> QED
  BY <1>10 DEF x, y, l

\* Where two texts first differ.
LEMMA MismatchAt ==
    ASSUME NEW a \in Seq(Symbol), NEW b \in Seq(Symbol)
    PROVE  LET m == Mismatch(a, b) IN
           /\ m \in 1 .. Len(a) + 1 /\ m \in 1 .. Len(b) + 1 /\ \A l \in 1 .. m - 1 : a[l] = b[l]
           /\ m > Len(a) \/ m > Len(b) \/ a[m] # b[m]
<1> DEFINE x == Len(a)
           y == Len(b)
           Off_(i) == i > x \/ i > y \/ (i \in DOMAIN a \cap DOMAIN b /\ a[i] # b[i])
           S == {i \in 1 .. x + y + 1 : Off_(i)}
           m == Mismatch(a, b)
<1>1. x \in Nat /\ y \in Nat /\ DOMAIN a = 1 .. x /\ DOMAIN b = 1 .. y
  OBVIOUS
<1>2. m = Least(S)
  BY DEF Mismatch
<1> HIDE DEF x, y
<1>3. x + 1 \in S /\ y + 1 \in S /\ S \in SUBSET Nat
  BY <1>1
<1>4. m \in S /\ \A i \in S : m <= i
  BY <1>2, <1>3, LeastOf
<1> HIDE DEF m
<1>5. m \in 1 .. x + 1 /\ m \in 1 .. y + 1
  BY <1>1, <1>3, <1>4
<1>6. \A l \in 1 .. m - 1 : l \in 1 .. x + y + 1 /\ l <= x /\ l <= y /\ l < m
  BY <1>1, <1>5
<1>7. \A l \in 1 .. m - 1 : l \notin S
  <2> SUFFICES ASSUME NEW l \in 1 .. m - 1, l \in S PROVE FALSE
    OBVIOUS
  <2>1. m <= l /\ l < m /\ l \in Nat /\ m \in Nat
    BY <1>1, <1>4, <1>5, <1>6
  <2> QED
    BY <2>1
<1>8. \A l \in 1 .. m - 1 : a[l] = b[l]
  BY <1>1, <1>6, <1>7
<1>9. m > x \/ m > y \/ a[m] # b[m]
  BY <1>4
<1> QED
  BY <1>5, <1>8, <1>9 DEF x, y, m

\* The edit the English rule allows is one edit of the whole words.
LEMMA OneEditIsOnce ==
    ASSUME NEW a \in Seq(Symbol), NEW b \in Seq(Symbol), a # b
    PROVE  OneEdit(a, b) <=> Once(a, b, Len(a), Len(b))
<1> DEFINE m == Mismatch(a, b)
           x == Len(a)
           y == Len(b)
<1>1. /\ m \in 1 .. x + 1 /\ m \in 1 .. y + 1 /\ \A l \in 1 .. m - 1 : a[l] = b[l]
      /\ m > x \/ m > y \/ a[m] # b[m]
  BY MismatchAt
<1>2. x \in Nat /\ y \in Nat /\ m \in Nat \ {0} /\ m <= x + 1 /\ m <= y + 1
  BY <1>1
<1>3. OneEdit(a, b) <=>
        \/ /\ x = y
           /\ \/ From(a, m + 1) = From(b, m + 1)
              \/ m < x /\ a[m] = b[m + 1] /\ a[m + 1] = b[m] /\ From(a, m + 2) = From(b, m + 2)
        \/ y = x + 1 /\ From(a, m) = From(b, m + 1)
        \/ x = y + 1 /\ From(a, m + 1) = From(b, m)
  BY DEF OneEdit
<1>4. x = y => (From(a, m + 1) = From(b, m + 1) <=> \A k \in 0 .. x - (m + 1) : a[m + 1 + k] = b[m + 1 + k])
               /\ (From(a, m + 2) = From(b, m + 2) <=> \A k \in 0 .. x - (m + 2) : a[m + 2 + k] = b[m + 2 + k])
  <2> SUFFICES ASSUME x = y
               PROVE  /\ (From(a, m + 1) = From(b, m + 1) <=> \A k \in 0 .. x - (m + 1) : a[m + 1 + k] = b[m + 1 + k])
                      /\ (From(a, m + 2) = From(b, m + 2) <=> \A k \in 0 .. x - (m + 2) : a[m + 2 + k] = b[m + 2 + k])
    OBVIOUS
  <2> HIDE DEF m
  <2>1. m + 1 \in Nat \ {0} /\ m + 2 \in Nat \ {0}
    BY <1>2
  <2> QED
    BY <2>1, RestsEqual
<1>5. y = x + 1 => (From(a, m) = From(b, m + 1) <=> \A k \in 0 .. x - m : a[m + k] = b[m + 1 + k])
  <2> SUFFICES ASSUME y = x + 1
               PROVE  From(a, m) = From(b, m + 1) <=> \A k \in 0 .. x - m : a[m + k] = b[m + 1 + k]
    OBVIOUS
  <2> HIDE DEF m
  <2>1. m + 1 \in Nat \ {0} /\ m \in Nat \ {0} /\ x - m = y - (m + 1)
    BY <1>2
  <2> QED
    BY <2>1, RestsEqual
<1>6. x = y + 1 => (From(a, m + 1) = From(b, m) <=> \A k \in 0 .. y - m : a[m + 1 + k] = b[m + k])
  <2> SUFFICES ASSUME x = y + 1
               PROVE  From(a, m + 1) = From(b, m) <=> \A k \in 0 .. y - m : a[m + 1 + k] = b[m + k]
    OBVIOUS
  <2> HIDE DEF m
  <2>1. m + 1 \in Nat \ {0} /\ m \in Nat \ {0} /\ x - (m + 1) = y - m
    BY <1>2
  <2>2. From(a, m + 1) = From(b, m) <=> \A k \in 0 .. x - (m + 1) : a[m + 1 + k] = b[m + k]
    BY <2>1, RestsEqual
  <2> HIDE DEF x, y
  <2> QED
    BY <2>1, <2>2
<1>7. x = y => m <= x /\ a[m] # b[m]
  <2> SUFFICES ASSUME x = y, m > x PROVE FALSE
    BY <1>1, <1>2
  <2>1. \A l \in 1 .. x : l \in 1 .. m - 1
    BY <1>2
  <2>2. \A l \in 1 .. x : a[l] = b[l]
    BY <1>1, <2>1
  <2> QED
    BY <2>2, SeqEqual
<1> HIDE DEF m, x, y
<1>8. ASSUME x = y, \A k \in 0 .. x - (m + 1) : a[m + 1 + k] = b[m + 1 + k]
      PROVE  Once(a, b, x, y)
  <2>1. \A l \in 1 .. x : l # m => a[l] = b[l]
    <3> SUFFICES ASSUME NEW l \in 1 .. x, l # m PROVE a[l] = b[l]
      OBVIOUS
    <3>1. CASE l < m
      BY <1>1, <1>2, <3>1
    <3>2. CASE l > m
      <4>1. l - (m + 1) \in 0 .. x - (m + 1) /\ m + 1 + (l - (m + 1)) = l
        BY <1>2, <3>2
      <4> QED
        BY <1>8, <4>1
    <3> QED
      BY <1>2, <3>1, <3>2
  <2>2. Changed(a, b, x, m) /\ m \in 1 .. x
    BY <1>2, <1>7, <1>8, <2>1 DEF Changed
  <2> QED
    BY <1>8, <2>2 DEF Once
<1>9. ASSUME x = y, m < x, a[m] = b[m + 1], a[m + 1] = b[m],
             \A k \in 0 .. x - (m + 2) : a[m + 2 + k] = b[m + 2 + k]
      PROVE  Once(a, b, x, y)
  <2>1. \A l \in 1 .. x : l \notin {m, m + 1} => a[l] = b[l]
    <3> SUFFICES ASSUME NEW l \in 1 .. x, l # m, l # m + 1 PROVE a[l] = b[l]
      OBVIOUS
    <3>1. CASE l < m
      BY <1>1, <1>2, <3>1
    <3>2. CASE l > m
      <4>1. l - (m + 2) \in 0 .. x - (m + 2) /\ m + 2 + (l - (m + 2)) = l
        BY <1>2, <3>2
      <4> QED
        BY <1>9, <4>1
    <3> QED
      BY <1>2, <3>1, <3>2
  <2>2. Swapped(a, b, x, m) /\ m \in 1 .. x
    BY <1>2, <1>7, <1>9, <2>1 DEF Swapped
  <2> QED
    BY <1>9, <2>2 DEF Once
<1>10. ASSUME y = x + 1, \A k \in 0 .. x - m : a[m + k] = b[m + 1 + k]
       PROVE  Once(a, b, x, y)
  <2>1. \A l \in m .. x : a[l] = b[l + 1]
    <3> SUFFICES ASSUME NEW l \in m .. x PROVE a[l] = b[l + 1]
      OBVIOUS
    <3>1. l - m \in 0 .. x - m /\ m + (l - m) = l /\ m + 1 + (l - m) = l + 1
      BY <1>2
    <3> QED
      BY <1>10, <3>1
  <2>2. Put(a, b, x, m) /\ m \in 1 .. y
    BY <1>1, <1>2, <1>10, <2>1 DEF Put
  <2> QED
    BY <1>10, <2>2 DEF Once
<1>11. ASSUME x = y + 1, \A k \in 0 .. y - m : a[m + 1 + k] = b[m + k]
       PROVE  Once(a, b, x, y)
  <2>1. \A l \in m .. y : b[l] = a[l + 1]
    <3> SUFFICES ASSUME NEW l \in m .. y PROVE b[l] = a[l + 1]
      OBVIOUS
    <3>1. l - m \in 0 .. y - m /\ m + (l - m) = l /\ m + 1 + (l - m) = l + 1
      BY <1>2
    <3> QED
      BY <1>11, <3>1
  <2>2. Put(b, a, y, m) /\ m \in 1 .. x
    BY <1>1, <1>2, <1>11, <2>1 DEF Put
  <2> QED
    BY <1>11, <2>2 DEF Once
<1>12. ASSUME x = y, NEW k \in 1 .. x, Changed(a, b, x, k)
       PROVE  \A n \in 0 .. x - (m + 1) : a[m + 1 + n] = b[m + 1 + n]
  <2>1. m = k
    <3>1. m \in 1 .. x /\ a[m] # b[m]
      BY <1>2, <1>7, <1>12
    <3> QED
      BY <1>12, <3>1 DEF Changed
  <2> SUFFICES ASSUME NEW n \in 0 .. x - (m + 1) PROVE a[m + 1 + n] = b[m + 1 + n]
    OBVIOUS
  <2>2. m + 1 + n \in 1 .. x /\ m + 1 + n # k
    BY <1>2, <2>1
  <2> QED
    BY <1>12, <2>2 DEF Changed
<1>13. ASSUME x = y, NEW k \in 1 .. x, Swapped(a, b, x, k)
       PROVE  /\ m < x /\ a[m] = b[m + 1] /\ a[m + 1] = b[m]
              /\ \A n \in 0 .. x - (m + 2) : a[m + 2 + n] = b[m + 2 + n]
  <2>0. k + 1 <= x /\ a[k] = b[k + 1] /\ a[k + 1] = b[k] /\ a[k] # b[k]
        /\ \A l \in 1 .. x : l \notin {k, k + 1} => a[l] = b[l]
    BY <1>13 DEF Swapped
  <2>1. m = k
    <3>1. m \in 1 .. x /\ a[m] # b[m]
      BY <1>2, <1>7, <1>13
    <3>2. m = k \/ m = k + 1
      BY <2>0, <3>1
    <3>3. m # k + 1
      <4> SUFFICES ASSUME m = k + 1 PROVE FALSE
        OBVIOUS
      <4>1. k \in 1 .. m - 1
        BY <1>2
      <4> QED
        BY <1>1, <2>0, <4>1
    <3> QED
      BY <3>2, <3>3
  <2>2. ASSUME NEW n \in 0 .. x - (m + 2) PROVE a[m + 2 + n] = b[m + 2 + n]
    <3>1. m + 2 + n \in 1 .. x /\ m + 2 + n \notin {k, k + 1}
      BY <1>2, <2>1
    <3> QED
      BY <2>0, <3>1
  <2> QED
    BY <1>2, <2>0, <2>1, <2>2
<1>14. ASSUME y = x + 1, NEW k \in 1 .. y, Put(a, b, x, k)
       PROVE  \A n \in 0 .. x - m : a[m + n] = b[m + 1 + n]
  <2>1. k <= m
    <3> SUFFICES ASSUME k > m PROVE FALSE
      BY <1>2
    <3>1. m \in 1 .. k - 1 /\ m <= x /\ m <= y
      BY <1>2, <1>14
    <3> QED
      BY <1>1, <1>2, <1>14, <3>1 DEF Put
  <2> SUFFICES ASSUME NEW n \in 0 .. x - m PROVE a[m + n] = b[m + 1 + n]
    OBVIOUS
  <2>2. m + n \in k .. x /\ m + n + 1 = m + 1 + n
    BY <1>2, <2>1
  <2>3. a[m + n] = b[m + n + 1]
    BY <1>14, <2>2 DEF Put
  <2> QED
    BY <2>2, <2>3
<1>15. ASSUME x = y + 1, NEW k \in 1 .. x, Put(b, a, y, k)
       PROVE  \A n \in 0 .. y - m : a[m + 1 + n] = b[m + n]
  <2>1. k <= m
    <3> SUFFICES ASSUME k > m PROVE FALSE
      BY <1>2
    <3>1. m \in 1 .. k - 1 /\ m <= x /\ m <= y
      BY <1>2, <1>15
    <3> QED
      BY <1>1, <1>2, <1>15, <3>1 DEF Put
  <2> SUFFICES ASSUME NEW n \in 0 .. y - m PROVE a[m + 1 + n] = b[m + n]
    OBVIOUS
  <2>2. m + n \in k .. y /\ m + n + 1 = m + 1 + n
    BY <1>2, <2>1
  <2>3. b[m + n] = a[m + n + 1]
    BY <1>15, <2>2 DEF Put
  <2> QED
    BY <2>2, <2>3
<1>16. OneEdit(a, b) => Once(a, b, x, y)
  BY <1>3, <1>4, <1>5, <1>6, <1>8, <1>9, <1>10, <1>11
<1>17. Once(a, b, x, y) => OneEdit(a, b)
  <2> SUFFICES ASSUME Once(a, b, x, y) PROVE OneEdit(a, b)
    OBVIOUS
  <2>1. CASE x = y /\ \E k \in 1 .. x : Changed(a, b, x, k)
    BY <1>3, <1>4, <1>12, <2>1
  <2>2. CASE x = y /\ \E k \in 1 .. x : Swapped(a, b, x, k)
    BY <1>3, <1>4, <1>13, <2>2
  <2>3. CASE y = x + 1 /\ \E k \in 1 .. y : Put(a, b, x, k)
    BY <1>3, <1>5, <1>14, <2>3
  <2>4. CASE x = y + 1 /\ \E k \in 1 .. x : Put(b, a, y, k)
    BY <1>3, <1>6, <1>15, <2>4
  <2> QED
    BY <2>1, <2>2, <2>3, <2>4 DEF Once
<1> QED
  BY <1>16, <1>17 DEF x, y

\* What the English rule takes for one edit is at distance one (EditsAgree).
LEMMA EditsAreOne ==
    ASSUME NEW a \in Seq(Symbol), NEW b \in Seq(Symbol), a # b
    PROVE  OneEdit(a, b) <=> EditDistance(a, b) = 1
<1>1. PICK d \in [Cells(a, b) -> Nat] :
             /\ \A i \in 0 .. Len(a), j \in 0 .. Len(b) : d[<<i, j>>] = Cell(d, a, b, i, j)
             /\ EditDistance(a, b) = d[<<Len(a), Len(b)>>]
  BY TableThere
<1>2. Says(d, a, b, Len(a), Len(b))
  BY <1>1, TableSays
<1> QED
  BY <1>1, <1>2, OneEditIsOnce DEF Says

-----------------------------------------------------------------------------
(* A draft                                                                 *)

\* A prompt is shorter than a window and a step (DraftTyped).
LEMMA WindowBound ==
    ASSUME NEW t \in Seq(Symbol)
    PROVE  Len(InferenceContext(t)) < Window + CutStep
<1> DEFINE cut == CutScalars(Len(t))
           w == From(t, cut + 1)
           spaces == {i \in DOMAIN w : w[i] \in Space}
           v == AtWord(t, cut)
           ends == SentenceEnds(v)
           m == Window + CutStep
<1>1. cut \in 0 .. Len(t) /\ Len(t) - cut < m /\ m \in Nat
  <2> DEFINE l == Len(t)
             x == l - Window
  <2>1. l \in Nat /\ Window \in Nat \ {0} /\ CutStep \in Nat \ {0}
    BY WordsAssumption
  <2> HIDE DEF l
  <2>2. CASE l <= Window
    <3>1. cut = 0
      BY <2>2 DEF CutScalars, l
    <3> HIDE DEF cut
    <3>2. cut \in 0 .. l /\ l - cut < m /\ m \in Nat
      BY <2>1, <2>2, <3>1
    <3> QED
      BY <3>2 DEF l
  <2>3. CASE ~(l <= Window)
    <3>1. x \in Nat /\ x <= l /\ l = x + Window
      BY <2>1, <2>3
    <3> HIDE DEF x
    <3> DEFINE y == (x \div CutStep) * CutStep
    <3>2. y <= x /\ y \in Nat /\ x - y < CutStep
      BY <2>1, <3>1, SMT
    <3>3. cut = y
      BY <2>3 DEF CutScalars, l, x
    <3> HIDE DEF cut, y
    <3>4. cut \in 0 .. l /\ l - cut < m /\ m \in Nat
      BY <2>1, <3>1, <3>2, <3>3
    <3> QED
      BY <3>4 DEF l
  <2> QED
    BY <2>2, <2>3
<1> HIDE DEF cut
<1>2. w \in Seq(Symbol) /\ Len(w) = Len(t) - cut
  BY <1>1, FromOf
<1>3. v = IF cut = 0 \/ t[cut] \in Space \/ spaces = {} THEN w ELSE From(w, Least(spaces) + 1)
  BY DEF AtWord
<1>4. Len(w) < m
  BY <1>1, <1>2
<1> HIDE DEF w, m
<1>5. spaces # {} => Least(spaces) \in 0 .. Len(w)
  <2>1. spaces \in SUBSET Nat /\ Len(w) \in Nat /\ \A i \in spaces : i \in 0 .. Len(w)
    BY <1>2
  <2> HIDE DEF spaces
  <2> QED
    BY <2>1, LeastOf
<1>6. v \in Seq(Symbol) /\ Len(v) <= Len(w)
  <2> DEFINE k == Least(spaces)
  <2>1. CASE v = w
    BY <1>2, <2>1
  <2>2. CASE spaces # {} /\ v = From(w, k + 1)
    <3>1. k \in 0 .. Len(w)
      BY <1>5, <2>2
    <3> HIDE DEF k
    <3>2. v \in Seq(Symbol) /\ Len(v) = Len(w) - k
      BY <1>2, <2>2, <3>1, FromOf
    <3> QED
      BY <1>2, <3>1, <3>2
  <2> QED
    BY <1>3, <2>1, <2>2
<1>7. InferenceContext(t) = IF ends = {} THEN v ELSE TrimStart(From(v, Greatest(ends) + 1))
  BY DEF InferenceContext, cut
<1> HIDE DEF v
<1>8. CASE ends = {}
  BY <1>1, <1>2, <1>4, <1>6, <1>7, <1>8 DEF m
<1>9. CASE ends # {}
  <2> DEFINE g == Greatest(ends)
             u == From(v, g + 1)
  <2>1. Len(v) \in Nat /\ ends \in SUBSET (0 .. Len(v))
    BY <1>6 DEF SentenceEnds
  <2> HIDE DEF ends
  <2>2. g \in 0 .. Len(v)
    BY <1>9, <2>1, GreatestOf
  <2> HIDE DEF g
  <2>3. u \in Seq(Symbol) /\ Len(u) = Len(v) - g
    BY <1>6, <2>2, FromOf
  <2>4. InferenceContext(t) = TrimStart(u)
    BY <1>7, <1>9 DEF g
  <2> HIDE DEF u
  <2>5. Len(TrimStart(u)) \in Nat /\ Len(TrimStart(u)) <= Len(u)
    BY <2>3, TrimStartTyped
  <2> QED
    BY <1>1, <1>2, <1>4, <1>6, <2>1, <2>2, <2>3, <2>4, <2>5 DEF m
<1> QED
  BY <1>8, <1>9

\* A text is what a cut leaves of it, joined.
LEMMA CutJoined ==
    ASSUME NEW A, NEW t \in Seq(A), NEW n \in 0 .. Len(t)
    PROVE  Part(t, 1, n) \o From(t, n + 1) = t
<1> DEFINE x == Part(t, 1, n)
           y == From(t, n + 1)
           l == Len(t)
<1>1. x \in Seq(A) /\ Len(x) = n /\ n \in Nat /\ n <= l /\ l \in Nat /\ \A k \in 1 .. n : x[k] = t[k]
  BY StartOf
<1>2. y \in Seq(A) /\ Len(y) = l - n /\ \A k \in 1 .. l - n : y[k] = t[n + k]
  BY FromOf
<1> HIDE DEF x, y
<1>3. /\ x \o y \in Seq(A) /\ Len(x \o y) = l
      /\ \A i \in 1 .. l : (x \o y)[i] = IF i <= n THEN x[i] ELSE y[i - n]
  BY <1>1, <1>2, ConcatProperties
<1>4. \A i \in 1 .. l : ~(i <= n) => i - n \in 1 .. l - n /\ n + (i - n) = i
  BY <1>1
<1>5. \A i \in 1 .. l : i <= n => i \in 1 .. n
  BY <1>1
<1>6. \A i \in 1 .. l : (x \o y)[i] = t[i]
  BY <1>1, <1>2, <1>3, <1>4, <1>5
<1>7. x \o y = t
  BY <1>3, <1>6, SeqEqual
<1> QED
  BY <1>7 DEF x, y

\* What a text begins with is a part of it.
LEMMA PrefixParts ==
    ASSUME NEW A, NEW s \in Seq(A), NEW t \in Seq(A), IsPrefix(s, t)
    PROVE  Part(t, 1, Len(s)) = s /\ Len(s) \in 0 .. Len(t)
<1>1. Len(s) <= Len(t) /\ SubSeq(s, 1, Len(s)) = SubSeq(t, 1, Len(s))
  BY DEF IsPrefix
<1>2. SubSeq(s, 1, Len(s)) = s
  BY SubSeqFull
<1>3. Len(s) \in Nat /\ Len(t) \in Nat
  OBVIOUS
<1> QED
  BY <1>1, <1>2, <1>3 DEF Part

\* However a prompt is healed, it and its echo are the context (EchoExact).
LEMMA EchoIsExact ==
    ASSUME NEW t \in Seq(Symbol), NEW heals \in BOOLEAN
    PROVE  LET c == InferenceContext(t)
               pl == HealedBoundary(c, heals)
           IN SendsNothing(pl) \/ pl.prompt \o pl.echo = c
<1> DEFINE c == InferenceContext(t)
           pl == HealedBoundary(c, heals)
<1>1. c \in Seq(Symbol)
  BY ContextTyped
<1>2. CutAt(pl, c) \/ pl = Healed(<<>>, None, FALSE)
  BY <1>1, HealedCuts
<1>3. CASE pl = Healed(<<>>, None, FALSE)
  <2>1. pl.prompt = <<>>
    BY <1>3 DEF Healed
  <2> QED
    BY <2>1 DEF SendsNothing, Only
<1> HIDE DEF c, pl
<1>4. CASE CutAt(pl, c)
  <2>1. PICK n \in 0 .. Len(c) : pl.prompt = Part(c, 1, n) /\ pl.echo = From(c, n + 1)
    BY <1>4 DEF CutAt
  <2>2. Part(c, 1, n) \o From(c, n + 1) = c
    BY <1>1, CutJoined
  <2> QED
    BY <2>1, <2>2 DEF c, pl
<1> QED
  BY <1>2, <1>3, <1>4 DEF c, pl

\* The bisection finds the least word not below the target (LookupExact).
LEMMA LookupIsExact ==
    ASSUME NEW t \in Seq(Symbol)
    PROVE  LET above == {w \in Lexicon : w = t \/ Below(t, w)} IN
           IF above = {} THEN FirstFrom(t) = None
           ELSE FirstFrom(t) \in above /\ \A w \in above : ~Below(w, FirstFrom(t))
<1> DEFINE above == {w \in Lexicon : w = t \/ Below(t, w)}
<1>1. PICK k \in 1 .. Size + 1 :
             /\ \A j \in 1 .. Size : j < k => Below(Entry(j), t)
             /\ \A j \in 1 .. Size : k <= j => ~Below(Entry(j), t)
             /\ FirstFrom(t) = IF k = Size + 1 THEN None ELSE Entry(k)
  BY Searched
<1>2. Size \in Nat
  BY LexiconWords
<1>3. \A j \in 1 .. Size : Entry(j) \in above <=> k <= j
  <2> SUFFICES ASSUME NEW j \in 1 .. Size PROVE Entry(j) \in above <=> k <= j
    OBVIOUS
  <2>1. Entry(j) \in Lexicon /\ Entry(j) \in Seq(Symbol)
    BY Entries, LexiconWords
  <2>2. ~Below(Entry(j), t) => Entry(j) = t \/ Below(t, Entry(j))
    BY <2>1, BelowOrder
  <2>3. Below(Entry(j), t) => Entry(j) # t /\ ~Below(t, Entry(j))
    BY <2>1, BelowOrder
  <2>4. j < k \/ k <= j
    BY <1>2
  <2>5. ~(j < k /\ k <= j)
    BY <1>2
  <2> QED
    BY <1>1, <2>1, <2>2, <2>3, <2>4, <2>5
<1>4. \A w \in above : \E j \in 1 .. Size : w = Entry(j)
  BY Entries
<1> HIDE DEF above
<1>5. CASE k = Size + 1
  <2>1. \A j \in 1 .. Size : ~(k <= j)
    BY <1>2, <1>5
  <2>2. above = {}
    BY <1>3, <1>4, <2>1
  <2> QED
    BY <1>1, <1>5, <2>2 DEF above
<1>6. CASE k # Size + 1
  <2>1. k \in 1 .. Size /\ k <= k
    BY <1>2, <1>6
  <2>2. FirstFrom(t) = Entry(k) /\ Entry(k) \in above
    BY <1>1, <1>3, <1>6, <2>1
  <2>3. ASSUME NEW w \in above
        PROVE  ~Below(w, Entry(k))
    <3>1. PICK j \in 1 .. Size : w = Entry(j)
      BY <1>4
    <3>2. k <= j
      BY <1>3, <2>3, <3>1
    <3>3. k = j \/ Below(Entry(k), Entry(j))
      BY <2>1, <3>2, Entries
    <3>4. Entry(k) \in Seq(Symbol) /\ Entry(j) \in Seq(Symbol)
      BY <2>1, Entries, LexiconWords
    <3> QED
      BY <3>1, <3>3, <3>4, BelowOrder
  <2> QED
    BY <2>2, <2>3 DEF above
<1> QED
  BY <1>5, <1>6 DEF above

\* The word that finishes a stem is how every fitting word goes on (OneReading).
LEMMA OnlyReading ==
    ASSUME NEW t \in Seq(Symbol), VocabularyCompletion(t, <<>>, Lexicon) # None,
           NEW v \in Candidates(t, Lexicon)
    PROVE  IsPrefix(Span(t, StemSpan(t)) \o VocabularyCompletion(t, <<>>, Lexicon), v)
<1> DEFINE s == StemSpan(t)
           stem == Span(t, s)
           all0 == Candidates(t, Lexicon)
           fitting == BeginsAll(all0)
           w == CHOOSE x \in fitting : TRUE
           rest == From(w, Len(stem) + 1)
<1>1. s # None /\ fitting # {} /\ VocabularyCompletion(t, <<>>, Lexicon) = rest
  BY DEF VocabularyCompletion
<1>2. w \in fitting
  BY <1>1
<1>3. w \in all0 /\ IsPrefix(w, v)
  BY <1>2 DEF BeginsAll
<1>4. s \in WordSpans(t)
  BY <1>1, LastThere DEF StemSpan, None
<1>5. stem \in Seq(Symbol)
  BY <1>4, SpanTyped
<1>6. w \in Seq(Symbol) /\ IsPrefix(stem, w)
  <2>1. Lexicon \in SUBSET Seq(Symbol)
    BY LexiconWords
  <2>2. w \in Seq(Symbol)
    BY <1>1, <1>3, <2>1, CandidatesTyped
  <2> QED
    BY <1>3, <2>2 DEF Candidates
<1> HIDE DEF stem, w
<1>7. Part(w, 1, Len(stem)) = stem /\ Len(stem) \in 0 .. Len(w)
  BY <1>5, <1>6, PrefixParts
<1>8. stem \o rest = w
  BY <1>6, <1>7, CutJoined
<1> QED
  BY <1>1, <1>3, <1>8 DEF stem

\* Where two texts agree around a position, both are in a word there.
LEMMA WordCarries ==
    ASSUME NEW t, NEW u, NEW i, NEW j, j \in DOMAIN u, t[i] = u[j],
           i - 1 \in DOMAIN t /\ i + 1 \in DOMAIN t =>
              j - 1 \in DOMAIN u /\ j + 1 \in DOMAIN u /\ u[j - 1] = t[i - 1] /\ u[j + 1] = t[i + 1]
    PROVE  InWord(t, i) => InWord(u, j)
BY Zenon DEF InWord

\* A text that ends in a letter or a digit ends in a word.
LEMMA EndWord ==
    ASSUME NEW t \in Seq(Symbol), Ends(t, Alnum)
    PROVE  \E g \in 0 .. Len(t) - 1 : ~InWord(t, g) /\ \A k \in g + 1 .. Len(t) : InWord(t, k)
<1> DEFINE l == Len(t)
<1>1. l \in 1 .. Len(t) /\ l \in Nat /\ InWord(t, l)
  BY DEF Ends, InWord
<1>2. PICK s \in WordSpans(t) : s[1] <= l /\ l <= s[2]
  BY <1>1, WordAround
<1> DEFINE x == s[1]
           y == s[2]
<1>3. x \in 1 .. l /\ y \in 1 .. l /\ y >= l /\ ~InWord(t, x - 1) /\ \A k \in x .. y : InWord(t, k)
  BY <1>2 DEF WordSpans, Spans
<1> DEFINE g == x - 1
<1> HIDE DEF x, y
<1>4. y = l /\ g \in 0 .. l - 1 /\ g + 1 = x
  BY <1>1, <1>3
<1> HIDE DEF l
<1>5. ~InWord(t, g) /\ \A k \in g + 1 .. l : InWord(t, k)
  BY <1>3, <1>4
<1> QED
  BY <1>4, <1>5 DEF l

\* It is the last one.
LEMMA EndIsLast ==
    ASSUME NEW t \in Seq(Symbol), NEW g \in 0 .. Len(t) - 1, ~InWord(t, g),
           \A k \in g + 1 .. Len(t) : InWord(t, k)
    PROVE  LastWord(t) = From(t, g + 1)
<1> DEFINE l == Len(t)
           s == <<g + 1, l>>
<1>1. l \in Nat /\ g \in Nat /\ g < l /\ ~InWord(t, g) /\ \A k \in g + 1 .. l : InWord(t, k)
  OBVIOUS
<1>2. \A k : InWord(t, k) => k \in 1 .. l
  BY DEF InWord
<1>3. \A r \in WordSpans(t) : /\ r = <<r[1], r[2]>> /\ r[1] \in 1 .. l /\ r[2] \in 1 .. l /\ r[1] <= r[2]
                              /\ ~InWord(t, r[1] - 1) /\ ~InWord(t, r[2] + 1)
  BY DEF WordSpans, Spans
<1>4. s \in WordSpans(t) /\ s[1] = g + 1
  <2>1. s \in Spans(t) /\ s[1] = g + 1 /\ s[2] = l /\ s[1] - 1 = g /\ s[1] <= s[2]
    BY <1>1 DEF Spans
  <2>2. ~InWord(t, l + 1)
    BY <1>1, <1>2
  <2> QED
    BY <1>1, <2>1, <2>2 DEF WordSpans
<1> HIDE DEF l
<1>5. LastSpan(t) = s
  <2> DEFINE r == LastSpan(t)
             i == r[1]
             j == r[2]
  <2>1. r \in WordSpans(t) /\ r[1] >= s[1]
    BY <1>4, LastThere
  <2> HIDE DEF r
  <2>2. /\ r = <<i, j>> /\ i \in 1 .. l /\ j \in 1 .. l /\ i <= j /\ i >= g + 1
        /\ ~InWord(t, i - 1) /\ ~InWord(t, j + 1)
    BY <1>3, <1>4, <2>1
  <2> HIDE DEF i, j
  <2>3. i = g + 1
    <3> SUFFICES ASSUME i # g + 1 PROVE FALSE
      OBVIOUS
    <3>1. i - 1 \in g + 1 .. l
      BY <1>1, <2>2
    <3> QED
      BY <1>1, <2>2, <3>1
  <2>4. j = l
    <3> SUFFICES ASSUME j # l PROVE FALSE
      OBVIOUS
    <3>1. j + 1 \in g + 1 .. l
      BY <1>1, <2>2, <2>3
    <3> QED
      BY <1>1, <2>2, <3>1
  <2> QED
    BY <2>2, <2>3, <2>4 DEF r
<1>6. LastWord(t) = Part(t, g + 1, Len(t))
  BY <1>4, <1>5 DEF LastWord, Span, l
<1> QED
  BY <1>6 DEF From, Part

\* The first word of a text: nothing before it is in one.
LEMMA StartIsFirst ==
    ASSUME NEW t \in Seq(Symbol), NEW i \in 1 .. Len(t), NEW j \in i .. Len(t),
           \A k \in 1 .. i - 1 : ~InWord(t, k), \A k \in i .. j : InWord(t, k), ~InWord(t, j + 1)
    PROVE  FirstWord(t) = Part(t, i, j)
<1> DEFINE l == Len(t)
           s == <<i, j>>
<1>1. /\ l \in Nat /\ i \in 1 .. l /\ j \in i .. l
      /\ (\A k \in 1 .. i - 1 : ~InWord(t, k)) /\ (\A k \in i .. j : InWord(t, k)) /\ ~InWord(t, j + 1)
  OBVIOUS
<1>2. \A k : InWord(t, k) => k \in 1 .. l
  BY DEF InWord
<1>3. \A r \in WordSpans(t) : /\ r = <<r[1], r[2]>> /\ r[1] \in 1 .. l /\ r[2] \in 1 .. l /\ r[1] <= r[2]
                              /\ (\A k \in r[1] .. r[2] : InWord(t, k))
                              /\ ~InWord(t, r[1] - 1) /\ ~InWord(t, r[2] + 1)
  BY DEF WordSpans, Spans
<1>4. s \in WordSpans(t) /\ s[1] = i
  <2>1. s \in Spans(t) /\ s[1] = i /\ s[2] = j /\ s[1] <= s[2]
    BY <1>1 DEF Spans
  <2>2. ~InWord(t, i - 1)
    BY <1>1, <1>2
  <2> QED
    BY <1>1, <2>1, <2>2 DEF WordSpans
<1> HIDE DEF l
<1>5. FirstSpan(t) = s
  <2> DEFINE r == FirstSpan(t)
             x == r[1]
             y == r[2]
  <2>1. \A q \in WordSpans(t) : s[1] <= q[1]
    <3> SUFFICES ASSUME NEW q \in WordSpans(t) PROVE i <= q[1]
      BY <1>4
    <3> DEFINE z == q[1]
    <3>1. z \in 1 .. l /\ InWord(t, z)
      BY <1>3
    <3> HIDE DEF z
    <3>2. i <= z
      BY <1>1, <3>1
    <3> QED
      BY <3>2 DEF z
  <2>2. r \in WordSpans(t) /\ \A q \in WordSpans(t) : r[1] <= q[1]
    BY <1>4, <2>1 DEF FirstSpan
  <2>3. r[1] <= s[1] /\ s[1] <= r[1]
    BY <1>4, <2>1, <2>2
  <2> HIDE DEF r
  <2>4. /\ r = <<x, y>> /\ x \in 1 .. l /\ y \in 1 .. l /\ x <= y /\ x <= i /\ i <= x
        /\ (\A k \in x .. y : InWord(t, k)) /\ ~InWord(t, y + 1)
    BY <1>3, <1>4, <2>2, <2>3
  <2> HIDE DEF x, y
  <2>5. x = i
    BY <1>1, <2>4
  <2>6. y = j
    <3>1. ~(y < j)
      <4> SUFFICES ASSUME y < j PROVE FALSE
        OBVIOUS
      <4>1. y + 1 \in i .. j
        BY <1>1, <2>4
      <4> QED
        BY <1>1, <2>4, <4>1
    <3>2. ~(j < y)
      <4> SUFFICES ASSUME j < y PROVE FALSE
        OBVIOUS
      <4>1. j + 1 \in x .. y
        BY <1>1, <2>4
      <4> QED
        BY <1>1, <2>4, <4>1
    <3> QED
      BY <1>1, <2>4, <3>1, <3>2
  <2> QED
    BY <2>4, <2>5, <2>6 DEF r
<1>6. FirstWord(t) = Span(t, s)
  BY <1>4, <1>5 DEF FirstWord
<1> QED
  BY <1>6 DEF Span

\* The rest of the line starts with the word that the text after the caret does.
LEMMA LineKeepsFirst ==
    ASSUME NEW t \in Seq(Symbol), LineRest(t) # None, Starts(TrimStart(t), Alnum)
    PROVE  ~Starts(TrimStart(LineRest(t)), Mark) /\ FirstWord(LineRest(t)) = FirstWord(t)
<1> DEFINE l == Len(t)
           S == {i \in 1 .. l + 1 : i > l \/ t[i] = "\n"}
           n == Least(S) - 1
           line == Part(t, 1, n)
<1>1. l \in Nat /\ S \in SUBSET Nat /\ l + 1 \in S /\ DOMAIN t = 1 .. l
      /\ \A i \in S : i \in 1 .. l + 1 /\ (i > l \/ t[i] = "\n")
  OBVIOUS
<1>2. LineRest(t) = line /\ ~Only(line, Space)
  BY DEF LineRest
<1> HIDE DEF S
<1>3. Least(S) \in S
  BY <1>1, LeastOf
<1>4. n \in 0 .. l /\ (n = l \/ t[n + 1] = "\n")
  <2> DEFINE x == Least(S)
  <2>1. x \in 1 .. l + 1 /\ (x > l \/ t[x] = "\n")
    BY <1>1, <1>3
  <2>2. n = x - 1
    OBVIOUS
  <2> HIDE DEF l, x, n
  <2>3. n + 1 = x
    BY <1>1, <2>1, <2>2
  <2> QED
    BY <1>1, <2>1, <2>2, <2>3
<1> HIDE DEF n
<1>5. line \in Seq(Symbol) /\ Len(line) = n /\ n \in Nat /\ \A k \in 1 .. n : line[k] = t[k]
  BY <1>4, StartOf
<1>6. Space \cap Alnum = {} /\ Mark \cap Alnum = {} /\ "." \notin Space /\ "\n" \in Space /\ "\n" \notin Alnum
  BY SymbolsDiffer
<1> HIDE DEF line, l
<1>7. PICK a \in 0 .. Len(line) - 1 :
             /\ TrimStart(line) = From(line, a + 1) /\ Len(TrimStart(line)) = Len(line) - a
             /\ line[a + 1] \notin Space /\ \A k \in 1 .. a : line[k] \in Space
  BY <1>2, <1>5, TrimmedAt
<1>8. /\ a \in Nat /\ a + 1 \in 1 .. n /\ a + 1 \in 1 .. l /\ a \in 0 .. n /\ a \in 0 .. l
      /\ \A k \in 1 .. a : k \in 1 .. n
  BY <1>1, <1>4, <1>5, <1>7
<1>9. t[a + 1] \notin Space /\ \A k \in 1 .. a : t[k] \in Space
  BY <1>5, <1>7, <1>8
<1>10. t[a + 1] \in Alnum
  <2>1. ~Only(t, Space)
    BY <1>1, <1>8, <1>9 DEF Only
  <2>2. PICK b \in 0 .. Len(t) - 1 :
              /\ TrimStart(t) = From(t, b + 1) /\ Len(TrimStart(t)) = Len(t) - b
              /\ t[b + 1] \notin Space /\ \A k \in 1 .. b : t[k] \in Space
    BY <2>1, TrimmedAt
  <2>3. b = a
    <3>1. b \in Nat /\ a \in Nat
      BY <1>8, <2>2
    <3>2. b < a => b + 1 \in 1 .. a
      BY <3>1
    <3>3. a < b => a + 1 \in 1 .. b
      BY <3>1
    <3> QED
      BY <1>9, <2>2, <3>1, <3>2, <3>3
  <2>4. From(t, a + 1)[1] = t[a + 1]
    <3>1. 1 \in 1 .. l - a /\ a \in 0 .. Len(t)
      BY <1>1, <1>8 DEF l
    <3>2. \A k \in 1 .. l - a : From(t, a + 1)[k] = t[a + k]
      BY <3>1, FromOf DEF l
    <3> QED
      BY <3>1, <3>2
  <2> QED
    BY <2>2, <2>3, <2>4 DEF Starts
<1>11. ~Starts(TrimStart(line), Mark)
  <2>1. From(line, a + 1)[1] = line[a + 1]
    <3>1. 1 \in 1 .. n - a
      BY <1>5, <1>8
    <3>2. \A k \in 1 .. n - a : From(line, a + 1)[k] = line[a + k]
      BY <1>5, <1>8, FromOf
    <3> QED
      BY <3>1, <3>2
  <2> QED
    BY <1>5, <1>6, <1>7, <1>8, <1>10, <2>1 DEF Starts
<1>12. \A k \in 1 .. n : InWord(line, k) <=> InWord(t, k)
  <2> SUFFICES ASSUME NEW k \in 1 .. n PROVE InWord(line, k) <=> InWord(t, k)
    OBVIOUS
  <2>1. line[k] = t[k] /\ k \in 1 .. l /\ DOMAIN line = 1 .. n
    BY <1>4, <1>5, <1>1
  <2>2. InWord(line, k) => InWord(t, k)
    <3>1. k - 1 \in DOMAIN line /\ k + 1 \in DOMAIN line =>
              k - 1 \in DOMAIN t /\ k + 1 \in DOMAIN t /\ t[k - 1] = line[k - 1] /\ t[k + 1] = line[k + 1]
      BY <1>1, <1>4, <1>5, <2>1
    <3> QED
      BY <1>1, <2>1, <3>1, WordCarries
  <2>3. InWord(t, k) => InWord(line, k)
    <3>1. CASE k + 1 \in 1 .. n
      <4>1. k - 1 \in DOMAIN t /\ k + 1 \in DOMAIN t =>
              k - 1 \in DOMAIN line /\ k + 1 \in DOMAIN line /\ line[k - 1] = t[k - 1] /\ line[k + 1] = t[k + 1]
        BY <1>1, <1>4, <1>5, <2>1, <3>1
      <4> QED
        BY <2>1, <4>1, WordCarries
    <3>2. CASE k + 1 \notin 1 .. n
      <4>1. k = n
        BY <1>4, <1>5, <3>2
      <4>2. k + 1 \in DOMAIN t => t[k + 1] = "\n"
        BY <1>1, <1>4, <1>5, <4>1
      <4>3. t[k + 1] = "\n" => \A A \in {Letter, Digit} : ~({t[k - 1], t[k + 1]} \subseteq A)
        BY <1>6 DEF Alnum
      <4>4. InWord(t, k) => t[k] \in Alnum
        BY <4>2, <4>3 DEF InWord
      <4> QED
        BY <2>1, <4>4 DEF InWord
    <3> QED
      BY <3>1, <3>2
  <2> QED
    BY <2>2, <2>3
<1>13. ~InWord(t, n + 1)
  <2>1. "\n" # "."
    BY <1>6
  <2>2. n + 1 \in DOMAIN t => t[n + 1] = "\n"
    BY <1>1, <1>4, <1>5
  <2> QED
    BY <1>6, <2>1, <2>2 DEF InWord
<1>14. InWord(line, a + 1)
  BY <1>5, <1>8, <1>10 DEF InWord
<1>15. PICK s \in WordSpans(line) : s[1] <= a + 1 /\ a + 1 <= s[2]
  BY <1>5, <1>8, <1>14, WordAround
<1> DEFINE x == s[1]
           y == s[2]
<1>16. /\ x \in 1 .. n /\ y \in 1 .. n /\ x <= a + 1 /\ a + 1 <= y
       /\ (\A k \in x .. y : InWord(line, k)) /\ ~InWord(line, y + 1)
  BY <1>5, <1>15 DEF WordSpans, Spans
<1> HIDE DEF x, y
<1>17. \A k \in 1 .. a : ~InWord(line, k) /\ ~InWord(t, k)
  BY <1>6, <1>8, <1>9, <1>5, <1>7, <1>12 DEF InWord
<1>18. x = a + 1 /\ y \in a + 1 .. n
  <2>1. x \notin 1 .. a
    BY <1>16, <1>17
  <2> QED
    BY <1>8, <1>16, <2>1
<1>19. ~InWord(t, y + 1)
  BY <1>5, <1>12, <1>13, <1>16, <1>18
<1> DEFINE i == a + 1
<1>20. /\ i \in 1 .. n /\ i \in 1 .. l /\ y \in i .. n /\ y \in i .. l /\ y \in 0 .. n /\ i \in 1 .. n + 1
       /\ \A k : k \in 1 .. i - 1 => k \in 1 .. a
  BY <1>1, <1>4, <1>5, <1>8, <1>18
<1>21. \A k \in i .. y : InWord(line, k) /\ InWord(t, k)
  <2> SUFFICES ASSUME NEW k \in i .. y PROVE InWord(line, k) /\ InWord(t, k)
    OBVIOUS
  <2>1. k \in 1 .. n
    BY <1>5, <1>20
  <2> QED
    BY <1>12, <1>16, <1>18, <2>1
<1> HIDE DEF i
<1>22. \A k \in 1 .. i - 1 : ~InWord(line, k) /\ ~InWord(t, k)
  BY <1>17, <1>20
<1>23. FirstWord(line) = Part(line, i, y)
  BY <1>5, <1>16, <1>20, <1>21, <1>22, StartIsFirst
<1>24. FirstWord(t) = Part(t, i, y)
  BY <1>19, <1>20, <1>21, <1>22, StartIsFirst DEF l
<1>25. Part(line, i, y) = Part(t, i, y)
  BY <1>4, <1>20, PartOfStart DEF line, l
<1> QED
  BY <1>2, <1>11, <1>23, <1>24, <1>25

\* A word in the second of two texts that are joined stays one.
LEMMA JoinedAt ==
    ASSUME NEW b \in Seq(Symbol), NEW p \in Seq(Symbol)
    PROVE  /\ b \o p \in Seq(Symbol) /\ Len(b \o p) = Len(b) + Len(p) /\ Len(b) \in Nat /\ Len(p) \in Nat
           /\ \A k \in 1 .. Len(b) : (b \o p)[k] = b[k]
           /\ \A k \in 1 .. Len(p) : (b \o p)[Len(b) + k] = p[k]
           /\ \A k \in 1 .. Len(p) : InWord(p, k) => InWord(b \o p, Len(b) + k)
<1> DEFINE m == Len(b)
           n == Len(p)
           j == b \o p
<1>1. /\ j \in Seq(Symbol) /\ Len(j) = m + n /\ m \in Nat /\ n \in Nat
      /\ \A i \in 1 .. m + n : j[i] = IF i <= m THEN b[i] ELSE p[i - m]
      /\ DOMAIN j = 1 .. m + n /\ DOMAIN p = 1 .. n
  BY ConcatProperties
<1> HIDE DEF m, n, j
<1>2. \A k \in 1 .. m : j[k] = b[k]
  BY <1>1
<1>3. \A k \in 1 .. n : j[m + k] = p[k]
  <2> SUFFICES ASSUME NEW k \in 1 .. n PROVE j[m + k] = p[k]
    OBVIOUS
  <2>1. m + k \in 1 .. m + n /\ ~(m + k <= m) /\ m + k - m = k
    BY <1>1
  <2> QED
    BY <1>1, <2>1
<1>4. ASSUME NEW k \in 1 .. n, InWord(p, k)
      PROVE  InWord(j, m + k)
  <2>1. m + k \in DOMAIN j /\ j[m + k] = p[k]
    BY <1>1, <1>3
  <2> DEFINE i == m + k
  <2>2. k - 1 \in DOMAIN p /\ k + 1 \in DOMAIN p =>
           i - 1 \in DOMAIN j /\ i + 1 \in DOMAIN j
           /\ j[i - 1] = p[k - 1] /\ j[i + 1] = p[k + 1]
    <3>1. i - 1 = m + (k - 1) /\ i + 1 = m + (k + 1)
      BY <1>1
    <3> HIDE DEF i
    <3>2. \A x \in 1 .. n : m + x \in DOMAIN j
      BY <1>1
    <3> QED
      BY <1>1, <1>3, <3>1, <3>2
  <2> HIDE DEF i
  <2>3. i \in DOMAIN j /\ p[k] = j[i]
    BY <2>1 DEF i
  <2>4. k - 1 \in DOMAIN p /\ k + 1 \in DOMAIN p =>
           i - 1 \in DOMAIN j /\ i + 1 \in DOMAIN j /\ j[i - 1] = p[k - 1] /\ j[i + 1] = p[k + 1]
    BY <2>2
  <2> QED
    BY <1>4, <2>3, <2>4, WordCarries DEF i
<1> QED
  BY <1>1, <1>2, <1>3, <1>4 DEF m, n, j

\* The letters that a text ends in, of a last word of letters.
LEMMA StemIsWord ==
    ASSUME NEW t \in Seq(Symbol), NEW g \in 0 .. Len(t) - 1, ~InWord(t, g),
           \A k \in g + 1 .. Len(t) : t[k] \in Letter
    PROVE  Stem(t) = From(t, g + 1)
<1> DEFINE l == Len(t)
           B == {i \in DOMAIN t : t[i] \notin Letter}
           h == Greatest({0} \cup B)
<1>1. /\ l \in Nat /\ g \in Nat /\ g < l /\ B \in SUBSET (1 .. l) /\ DOMAIN t = 1 .. l
      /\ \A k \in B : t[k] \notin Letter
      /\ \A k \in 1 .. l : k \notin B => t[k] \in Letter
  OBVIOUS
<1>2. Stem(t) = From(t, 1 + h)
  BY DEF Stem
<1> HIDE DEF B, l
<1>3. h \in 0 .. l /\ (h > 0 => h \in B) /\ \A k \in h + 1 .. l : k \notin B
  BY <1>1, LastAmong
<1> HIDE DEF h
<1>4. g > 0 => t[g] \notin Letter
  BY <1>1 DEF InWord, Alnum
<1>5. ~(h < g)
  <2> SUFFICES ASSUME h < g PROVE FALSE
    OBVIOUS
  <2>1. g \in h + 1 .. l /\ g \in 1 .. l /\ g > 0
    BY <1>1, <1>3
  <2> QED
    BY <1>1, <1>3, <1>4, <2>1
<1>6. ~(g < h)
  <2> SUFFICES ASSUME g < h PROVE FALSE
    OBVIOUS
  <2>1. h \in g + 1 .. Len(t) /\ h > 0
    BY <1>1, <1>3 DEF l
  <2> QED
    BY <1>1, <1>3, <2>1
<1>7. 1 + h = g + 1
  BY <1>1, <1>3, <1>5, <1>6
<1> QED
  BY <1>2, <1>7

\* What joins with the typed text does not end in the word that comes next.
LEMMA NextWordNotRepeated ==
    ASSUME NEW b \in Seq(Symbol), NEW a \in Seq(Symbol), NEW t \in Seq(Symbol), NEW p \in Seq(Symbol),
           LineRest(a) # None, p = MidLineInsertion(b, LineRest(a), t), p # None,
           ValidateProposal(b, a, p),
           Ends(p, Alnum), Starts(TrimStart(a), Alnum), ~Ends(b, Mark), ~Starts(p, Mark)
    PROVE  LastWord(b \o p) # FirstWord(a)
<1> DEFINE m == Len(b)
           n == Len(p)
           j == b \o p
<1>1. /\ j \in Seq(Symbol) /\ Len(j) = m + n /\ m \in Nat /\ n \in Nat /\ Len(b) = m /\ Len(p) = n
      /\ \A k \in 1 .. m : j[k] = b[k]
      /\ \A k \in 1 .. n : j[m + k] = p[k]
      /\ \A k \in 1 .. n : InWord(p, k) => InWord(j, m + k)
  BY JoinedAt
<1>2. LastWord(p) # FirstWord(a)
  BY DEF ValidateProposal, SuggestionShape, CompletionShape, RepeatsAfter
<1>3. PICK g \in 0 .. n - 1 : ~InWord(p, g) /\ \A k \in g + 1 .. n : InWord(p, k)
  BY EndWord
<1>4. LastWord(p) = From(p, g + 1)
  BY <1>3, EndIsLast
<1>5. "." \in Mark /\ Mark \cap Alnum = {} /\ Letter \subseteq Alnum /\ DOMAIN p = 1 .. n /\ DOMAIN b = 1 .. m
      /\ DOMAIN j = 1 .. m + n
  <2>1. DOMAIN p = 1 .. n /\ DOMAIN b = 1 .. m /\ DOMAIN j = 1 .. m + n
    BY <1>1
  <2> QED
    BY <2>1, SymbolsDiffer DEF Mark, Alnum
<1>6. /\ n > 0 /\ p # <<>> /\ g \in 0 .. n /\ g \in Nat /\ m + g \in 0 .. m + n - 1 /\ m + g \in Nat
      /\ 1 \in 1 .. n
  BY <1>1, <1>3, EmptySeq
<1> HIDE DEF m, n, j
<1>0. \A x \in 0 .. Len(j) : From(j, x + 1) \in Seq(Symbol) /\ Len(From(j, x + 1)) = Len(j) - x
                             /\ \A k \in 1 .. Len(j) - x : From(j, x + 1)[k] = j[x + k]
  <2>1. j \in Seq(Symbol)
    BY <1>1
  <2> QED
    BY <2>1, FromOf
\* Unless the typed text ends in a word that p goes on with, p ends as it did.
<1>7. ASSUME ~InWord(j, m + g)
      PROVE  LastWord(j) = LastWord(p)
  <2> DEFINE h == m + g
  <2>1. h \in 0 .. Len(j) - 1
    BY <1>1, <1>6
  <2>2. \A k \in h + 1 .. Len(j) : InWord(j, k)
    <3> SUFFICES ASSUME NEW k \in h + 1 .. Len(j) PROVE InWord(j, k)
      OBVIOUS
    <3>1. k - m \in g + 1 .. n /\ k - m \in 1 .. n /\ m + (k - m) = k
      BY <1>1, <1>6
    <3> QED
      BY <1>1, <1>3, <3>1
  <2> HIDE DEF h
  <2>3. LastWord(j) = From(j, h + 1)
    BY <1>1, <1>7, <2>1, <2>2, EndIsLast DEF h
  <2>4. From(j, h + 1) \in Seq(Symbol) /\ Len(From(j, h + 1)) = m + n - h
        /\ \A k \in 1 .. m + n - h : From(j, h + 1)[k] = j[h + k]
    <3>1. h \in 0 .. Len(j)
      BY <1>1, <2>1
    <3>2. From(j, h + 1) \in Seq(Symbol) /\ Len(From(j, h + 1)) = Len(j) - h
          /\ \A k \in 1 .. Len(j) - h : From(j, h + 1)[k] = j[h + k]
      BY <1>0, <3>1
    <3>3. Len(j) - h = m + n - h
      BY <1>1, <3>1
    <3> QED
      BY <3>2, <3>3
  <2>5. From(p, g + 1) \in Seq(Symbol) /\ Len(From(p, g + 1)) = n - g
        /\ \A k \in 1 .. n - g : From(p, g + 1)[k] = p[g + k]
    BY <1>1, <1>6, FromOf
  <2>6. m + n - h = n - g /\ \A k \in 1 .. n - g : h + k = m + (g + k) /\ g + k \in 1 .. n
    BY <1>1, <1>6 DEF h
  <2> DEFINE x == From(j, h + 1)
             y == From(p, g + 1)
  <2>7. \A k \in 1 .. n - g : x[k] = y[k]
    <3> SUFFICES ASSUME NEW k \in 1 .. n - g PROVE x[k] = y[k]
      OBVIOUS
    <3>1. h + k = m + (g + k) /\ g + k \in 1 .. n /\ k \in 1 .. m + n - h
      BY <2>6
    <3>2. x[k] = j[h + k] /\ y[k] = p[g + k]
      BY <2>4, <2>5, <3>1
    <3>3. j[m + (g + k)] = p[g + k]
      BY <1>1, <3>1
    <3> QED
      BY <3>1, <3>2, <3>3
  <2>8. x \in Seq(Symbol) /\ y \in Seq(Symbol) /\ Len(x) = n - g /\ Len(y) = n - g
    BY <2>4, <2>5, <2>6
  <2> HIDE DEF x, y
  <2>9. x = y
    BY <2>7, <2>8, SeqEqual
  <2> QED
    BY <1>4, <2>3, <2>9 DEF x, y
<1>8. CASE g > 0
  <2>1. g \in 1 .. n /\ p[g] \notin Alnum /\ g + 1 \in DOMAIN p /\ j[m + g] = p[g]
    <3>1. g \in 1 .. n /\ g + 1 \in 1 .. n
      BY <1>1, <1>3, <1>8
    <3> QED
      BY <1>1, <1>3, <1>5, <3>1 DEF InWord
  <2>2. g = 1 => p[g] # "."
    BY <1>5, <1>6 DEF Starts
  <2>3. g # 1 => ~InWord(j, m + g)
    <3> SUFFICES ASSUME g # 1 PROVE ~InWord(j, m + g)
      OBVIOUS
    <3> DEFINE i == m + g
    <3>1. g - 1 \in 1 .. n /\ g + 1 \in 1 .. n /\ m + (g - 1) = i - 1 /\ m + (g + 1) = i + 1
      BY <1>1, <1>5, <1>6, <2>1
    <3>2. j[i - 1] = p[g - 1] /\ j[i + 1] = p[g + 1]
      BY <1>1, <3>1
    <3>3. p[g] = j[i] /\ g \in DOMAIN p /\ g - 1 \in DOMAIN p /\ g + 1 \in DOMAIN p
          /\ p[g - 1] = j[i - 1] /\ p[g + 1] = j[i + 1]
      BY <1>5, <2>1, <3>1, <3>2
    <3> HIDE DEF i
    <3>4. InWord(j, i) => InWord(p, g)
      BY <3>3, WordCarries
    <3> QED
      BY <1>3, <3>4 DEF i
  <2>4. g = 1 => ~InWord(j, m + g)
    BY <2>1, <2>2 DEF InWord
  <2> QED
    BY <1>2, <1>7, <2>3, <2>4 DEF j
<1>9. CASE g = 0 /\ ~InWord(j, m)
  <2>1. m + g = m
    BY <1>1, <1>9
  <2> QED
    BY <1>2, <1>7, <1>9, <2>1 DEF j
<1>10. CASE g = 0 /\ InWord(j, m)
  <2>1. m \in 1 .. m + n /\ m \in 1 .. m /\ m > 0 /\ j[m] = b[m] /\ b # <<>> /\ Len(b) = m
    <3>1. m \in 1 .. m + n
      BY <1>5, <1>10 DEF InWord
    <3>2. m \in 1 .. m /\ m > 0
      BY <1>1, <3>1
    <3> QED
      BY <1>1, <3>1, <3>2, EmptySeq
  <2>2. b[m] \in Alnum
    BY <1>5, <1>10, <2>1 DEF InWord, Ends
  <2>3. InWord(p, 1) /\ p[1] \in Alnum
    <3>1. InWord(p, 1)
      BY <1>3, <1>6, <1>10
    <3> QED
      BY <1>5, <1>6, <3>1 DEF InWord, Starts
  <2>4. Ends(b, Alnum) /\ Last(b) = b[m] /\ Starts(p, Alnum)
    BY <1>6, <2>1, <2>2, <2>3 DEF Ends, Starts, Last
  <2>5. Ends(b, Letter) /\ Starts(p, Letter)
    <3>1. NeedsSeparator(Last(b), p[1])
      BY <2>2, <2>3, <2>4 DEF NeedsSeparator
    <3> QED
      BY <2>1, <3>1 DEF ValidateProposal, SuggestionShape, CompletionShape
  <2>6. LastWord(b) \o FirstWord(p) \in Lexicon
    BY <2>5 DEF ValidateProposal, Known
  <2>7. PICK h \in 0 .. m - 1 : ~InWord(b, h) /\ \A k \in h + 1 .. m : InWord(b, k)
    BY <2>1, <2>4, EndWord
  <2> DEFINE w == From(b, h + 1)
  <2>8. LastWord(b) = w
    BY <2>1, <2>7, EndIsLast
  <2>9. FirstWord(p) = p
    <3>1. 1 \in 1 .. Len(p) /\ n \in 1 .. Len(p) /\ Len(p) = n
      BY <1>1, <1>6
    <3>2. ~InWord(p, n + 1)
      BY <1>1, <1>5 DEF InWord
    <3>3. (\A k \in 1 .. 1 - 1 : ~InWord(p, k)) /\ \A k \in 1 .. n : InWord(p, k)
      BY <1>1, <1>3, <1>10
    <3>4. FirstWord(p) = Part(p, 1, n)
      BY <3>1, <3>2, <3>3, StartIsFirst
    <3>5. Part(p, 1, n) = p
      BY <1>1, SubSeqFull DEF Part
    <3> QED
      BY <3>4, <3>5
  <2>10. /\ w \in Seq(Symbol) /\ Len(w) = m - h /\ h \in Nat /\ h < m
         /\ \A k \in 1 .. m - h : w[k] = b[h + k]
    <3>1. h \in 0 .. Len(b) /\ h \in Nat /\ h < m
      BY <1>1, <2>1
    <3>2. w \in Seq(Symbol) /\ Len(w) = Len(b) - h /\ \A k \in 1 .. Len(b) - h : w[k] = b[h + k]
      BY <3>1, FromOf
    <3> QED
      BY <1>1, <3>1, <3>2
  <2> HIDE DEF w
  <2>20. /\ w \o p \in Seq(Symbol) /\ Len(w \o p) = m - h + n
         /\ \A k \in 1 .. m - h : (w \o p)[k] = w[k]
         /\ \A k \in 1 .. n : (w \o p)[m - h + k] = p[k]
    <3>1. /\ w \o p \in Seq(Symbol) /\ Len(w \o p) = Len(w) + Len(p)
          /\ \A k \in 1 .. Len(w) : (w \o p)[k] = w[k]
          /\ \A k \in 1 .. Len(p) : (w \o p)[Len(w) + k] = p[k]
      BY <2>10, JoinedAt
    <3> DEFINE x == w \o p
    <3> HIDE DEF x
    <3>2. Len(w) = m - h /\ Len(p) = n
      BY <1>1, <2>10
    <3> QED
      BY <3>1, <3>2
  \* The word that is finished is one of letters.
  <2>11. (\A k \in 1 .. m - h : w[k] \in Letter) /\ \A k \in 1 .. n : p[k] \in Letter
    <3>1. w \o p \in Seq(Letter)
      BY <2>6, <2>8, <2>9, LexiconWords
    <3> DEFINE x == w \o p
    <3>3. \A k \in 1 .. m - h + n : x[k] \in Letter
      BY <3>1, <2>20
    <3> HIDE DEF x
    <3>4. /\ \A k \in 1 .. m - h : k \in 1 .. m - h + n
          /\ \A k \in 1 .. n : m - h + k \in 1 .. m - h + n
      BY <1>1, <2>10
    <3>5. (\A k \in 1 .. m - h : x[k] = w[k]) /\ \A k \in 1 .. n : x[m - h + k] = p[k]
      BY <2>20 DEF x
    <3> QED
      BY <3>3, <3>4, <3>5
  <2>12. \A k \in h + 1 .. m : b[k] \in Letter
    <3> SUFFICES ASSUME NEW k \in h + 1 .. m PROVE b[k] \in Letter
      OBVIOUS
    <3>1. k - h \in 1 .. m - h /\ h + (k - h) = k
      BY <1>1, <2>10
    <3> QED
      BY <2>10, <2>11, <3>1
  <2>13. Stem(b) = w
    BY <2>1, <2>7, <2>12, StemIsWord DEF w
  <2>14. LastWord(j) = w \o p
    <3>1. h \in 0 .. Len(j) - 1 /\ h \in 0 .. Len(j)
      BY <1>1, <2>10
    <3>2. \A k \in h + 1 .. Len(j) : j[k] \in Letter /\ InWord(j, k)
      <4> SUFFICES ASSUME NEW k \in h + 1 .. Len(j) PROVE j[k] \in Letter /\ InWord(j, k)
        OBVIOUS
      <4>1. k \in 1 .. m + n /\ (k <= m => k \in 1 .. m /\ k \in h + 1 .. m)
            /\ (~(k <= m) => k - m \in 1 .. n /\ m + (k - m) = k)
        BY <1>1, <2>10
      <4>2. j[k] \in Letter
        <5>1. CASE k <= m
          BY <1>1, <2>12, <4>1, <5>1
        <5>2. CASE ~(k <= m)
          <6>1. p[k - m] \in Letter /\ j[m + (k - m)] = p[k - m]
            BY <1>1, <2>11, <4>1, <5>2
          <6> QED
            BY <4>1, <5>2, <6>1
        <5> QED
          BY <5>1, <5>2
      <4> QED
        BY <1>5, <4>1, <4>2 DEF InWord
    <3>3. ~InWord(j, h)
      <4>1. h \in 1 .. m => j[h] = b[h] /\ h + 1 \in 1 .. m /\ j[h + 1] = b[h + 1]
                            /\ (h - 1 \in 1 .. m + n => h - 1 \in 1 .. m /\ j[h - 1] = b[h - 1])
        BY <1>1, <2>10
      <4>2. h \in 1 .. m \/ h \notin 1 .. m + n
        BY <1>1, <2>10
      <4>3. h \notin 1 .. m + n => ~InWord(j, h)
        BY <1>5 DEF InWord
      <4>4. ASSUME h \in 1 .. m PROVE ~InWord(j, h)
        <5>1. h \in DOMAIN b /\ j[h] = b[h]
              /\ (h - 1 \in DOMAIN j /\ h + 1 \in DOMAIN j =>
                     h - 1 \in DOMAIN b /\ h + 1 \in DOMAIN b /\ b[h - 1] = j[h - 1] /\ b[h + 1] = j[h + 1])
          BY <1>5, <4>1, <4>4
        <5>2. InWord(j, h) => InWord(b, h)
          BY <5>1, WordCarries
        <5> QED
          BY <2>7, <5>2
      <4> QED
        BY <4>2, <4>3, <4>4
    <3>4. LastWord(j) = From(j, h + 1)
      BY <1>1, <3>1, <3>2, <3>3, EndIsLast
    <3>5. From(j, h + 1) \in Seq(Symbol) /\ Len(From(j, h + 1)) = m + n - h
          /\ \A k \in 1 .. m + n - h : From(j, h + 1)[k] = j[h + k]
      <4>1. From(j, h + 1) \in Seq(Symbol) /\ Len(From(j, h + 1)) = Len(j) - h
            /\ \A k \in 1 .. Len(j) - h : From(j, h + 1)[k] = j[h + k]
        BY <1>0, <3>1
      <4>2. Len(j) - h = m + n - h
        BY <1>1, <3>1
      <4> QED
        BY <4>1, <4>2
    <3> DEFINE x == From(j, h + 1)
               y == w \o p
    <3> HIDE DEF x, y
    <3>7. \A k \in 1 .. m + n - h : x[k] = y[k]
      <4> SUFFICES ASSUME NEW k \in 1 .. m + n - h PROVE x[k] = y[k]
        OBVIOUS
      <4>1. x[k] = j[h + k]
        BY <3>5 DEF x
      <4>2. CASE k <= m - h
        <5>1. k \in 1 .. m - h /\ h + k \in 1 .. m
          BY <1>1, <2>10, <4>2
        <5> QED
          BY <1>1, <2>10, <2>20, <4>1, <5>1 DEF y
      <4>3. CASE ~(k <= m - h)
        <5> DEFINE i == k - (m - h)
        <5>0. m \in Nat /\ n \in Nat /\ h \in Nat /\ k \in Nat /\ k <= m + n - h /\ ~(k <= m - h)
          BY <1>1, <2>10, <4>3
        <5>1. i \in 1 .. n /\ h + k = m + i /\ m - h + i = k
          BY <5>0
        <5> HIDE DEF i
        <5> QED
          BY <1>1, <2>20, <4>1, <5>1 DEF y
      <4> QED
        BY <4>2, <4>3
    <3>8. x \in Seq(Symbol) /\ y \in Seq(Symbol) /\ Len(x) = m + n - h /\ Len(y) = m + n - h
      <4>1. m - h + n = m + n - h
        BY <1>1, <2>10
      <4> QED
        BY <3>5, <2>20, <4>1 DEF x, y
    <3>9. x = y
      BY <3>7, <3>8, SeqEqual
    <3> QED
      BY <3>4, <3>9 DEF x, y
  \* Such an insertion is refused when the line starts with that word.
  <2>15. w # <<>> /\ Only(p, Letter)
    <3>1. Only(p, Letter)
      BY <1>5, <2>11 DEF Only
    <3>2. Len(w) > 0
      BY <1>1, <2>10
    <3> QED
      BY <3>1, <3>2, EmptySeq
  <2>16. ~Starts(TrimStart(LineRest(a)), Mark) /\ FirstWord(LineRest(a)) = FirstWord(a)
    BY LineKeepsFirst
  <2>17. PICK x : p = Fits(b, LineRest(a), x)
    BY <2>16 DEF MidLineInsertion
  <2>18. ~(Stem(b) # <<>> /\ Only(p, Letter) /\ FirstWord(LineRest(a)) = Stem(b) \o p)
    BY <2>17 DEF Fits
  <2> QED
    BY <2>13, <2>14, <2>15, <2>16, <2>18 DEF j
<1>11. g > 0 \/ g = 0
  BY <1>6
<1> QED
  BY <1>8, <1>9, <1>10, <1>11 DEF j

\* What is shown of an answer reads well where it joins (ProposalReads).
LEMMA JoinsWell ==
    ASSUME {before, after, text} \subseteq Seq(Symbol)
    PROVE  ProposalReads
<1> DEFINE p == DraftInsertion
<1>1. before \in Seq(Symbol) /\ after \in Seq(Symbol) /\ text \in Seq(Symbol)
  OBVIOUS
<1> SUFFICES ASSUME p # None, ValidateProposal(before, after, p)
             PROVE  /\ ~(Ends(before, {Blank}) /\ Starts(p, {Blank})) /\ ~(Ends(p, {Blank}) /\ Starts(after, {Blank}))
                    /\ ~(Ends(p, Alnum) /\ Starts(after, Alnum))
                    /\ Ends(before, Letter) /\ Starts(p, Letter) =>
                         LastWord(before) \o FirstWord(p) \in Lexicon
                    /\ /\ LineRest(after) # None /\ Ends(p, Alnum) /\ Starts(TrimStart(after), Alnum)
                       /\ ~Ends(before, Mark) /\ ~Starts(p, Mark)
                       => LastWord(before \o p) # FirstWord(after)
  BY DEF ProposalReads
<1>2. p = IF LineRest(after) = None THEN text ELSE MidLineInsertion(before, LineRest(after), text)
  BY DEF DraftInsertion
<1> HIDE DEF p
<1>3. p \in Seq(Symbol)
  <2>1. CASE LineRest(after) = None
    BY <1>1, <1>2, <2>1
  <2>2. CASE LineRest(after) # None
    <3>1. LineRest(after) \in Seq(Symbol) /\ ~Only(LineRest(after), Space)
      BY <1>1, <2>2, RestOfLine
    <3>2. StartsAs(p, text)
      BY <1>1, <1>2, <2>2, <3>1, MidLine
    <3> QED
      BY <1>1, <3>2, StartOf DEF StartsAs
  <2> QED
    BY <2>1, <2>2
<1>4. SuggestionShape(before, after, p)
  BY DEF ValidateProposal
<1>5. PICK suffix : CompletionShape(before, after, p, suffix)
  BY <1>4 DEF SuggestionShape
<1>6. Last(p) = p[Len(p)]
  BY DEF Last
<1>7. ~(Ends(before, {Blank}) /\ Starts(p, {Blank}))
  BY <1>5, Zenon DEF CompletionShape, Starts
<1>8. ~(Ends(p, {Blank}) /\ Starts(after, {Blank}))
  <2>1. Blank \notin Alnum
    BY SymbolsDiffer
  <2>2. Last(p) = Blank => Starts(after, Alnum)
    BY <1>5, Zenon DEF CompletionShape
  <2> QED
    BY <1>6, <2>1, <2>2, Zenon DEF Starts, Ends
<1>9. ~(Ends(p, Alnum) /\ Starts(after, Alnum))
  <2>1. after # <<>> => ~NeedsSeparator(Last(p), after[1])
    BY <1>5, Zenon DEF CompletionShape
  <2> QED
    BY <1>6, <2>1, Zenon DEF Starts, Ends, NeedsSeparator
<1>10. Ends(before, Letter) /\ Starts(p, Letter) => LastWord(before) \o FirstWord(p) \in Lexicon
  BY DEF ValidateProposal, Known
<1>11. /\ LineRest(after) # None /\ Ends(p, Alnum) /\ Starts(TrimStart(after), Alnum)
       /\ ~Ends(before, Mark) /\ ~Starts(p, Mark)
       => LastWord(before \o p) # FirstWord(after)
  BY <1>1, <1>2, <1>3, NextWordNotRepeated
<1> QED
  BY <1>7, <1>8, <1>9, <1>10, <1>11

-----------------------------------------------------------------------------
(* The steps                                                               *)

\* The window of a text that grows within a step only grows.
LEMMA WindowGrows ==
    ASSUME NEW A, NEW t \in Seq(A), NEW c \in A,
           Len(t) + 1 > Window => (Len(t) + 1 - Window) % CutStep # 0,
           Some(WindowAt(t), Space)
    PROVE  IsPrefix(WindowAt(t), WindowAt(Append(t, c)))
<1> DEFINE u == Append(t, c)
           cut == CutScalars(Len(t))
           w == From(t, cut + 1)
           v == From(u, cut + 1)
           spaces == {i \in DOMAIN w : w[i] \in Space}
           more == {i \in DOMAIN v : v[i] \in Space}
<1>1. /\ u \in Seq(A) /\ Len(u) = Len(t) + 1 /\ Len(t) \in Nat
      /\ \A i \in 1 .. Len(t) : u[i] = t[i]
  BY AppendProperties
<1>2. Window \in Nat /\ CutStep \in Nat \ {0}
  BY DraftsAssumption, WordsAssumption
<1>3. CutScalars(Len(u)) = cut /\ cut \in 0 .. Len(t)
  <2>1. CASE Len(t) + 1 <= Window
    BY <1>1, <1>2, <2>1 DEF CutScalars
  <2>2. CASE Len(t) + 1 > Window
    <3> DEFINE x == Len(t) - Window
    <3>1. x \in Int /\ x + 1 > 0 /\ (x + 1) % CutStep # 0
      BY <1>1, <1>2, <2>2
    <3>2. (x + 1) \div CutStep = x \div CutStep
      BY <3>1, <1>2, SMT
    <3>3. x >= 0 => (x \div CutStep) * CutStep <= x /\ (x \div CutStep) * CutStep >= 0
      BY <3>1, <1>2, SMT
    <3>4. x = -1 => FALSE
      BY <3>1, <1>2, SMT
    <3>5. x >= 0 /\ Len(t) >= Window
      BY <3>1, <3>4, <1>1, <1>2
    <3>6. CutScalars(Len(u)) = ((x + 1) \div CutStep) * CutStep
      BY <1>1, <1>2, <2>2 DEF CutScalars
    <3>7. cut = (x \div CutStep) * CutStep
      <4>1. x = 0 => (x \div CutStep) * CutStep = 0
        BY <1>2, SMT
      <4> QED
        BY <1>1, <1>2, <3>5, <4>1 DEF CutScalars
    <3>8. (x \div CutStep) * CutStep \in Int
      BY <3>1, <1>2, SMT
    <3> HIDE DEF x
    <3> QED
      BY <3>2, <3>3, <3>5, <3>6, <3>7, <3>8, <1>1, <1>2 DEF x
  <2> QED
    BY <1>1, <1>2, <2>1, <2>2
<1> HIDE DEF u, cut
<1>4. /\ w \in Seq(A) /\ Len(w) = Len(t) - cut
      /\ v \in Seq(A) /\ Len(v) = Len(w) + 1
      /\ \A i \in 1 .. Len(w) : v[i] = w[i]
  <2>1. w \in Seq(A) /\ Len(w) = Len(t) - cut /\ \A i \in 1 .. Len(w) : w[i] = t[cut + i]
    BY <1>1, <1>3, FromOf
  <2>2. v \in Seq(A) /\ Len(v) = Len(u) - cut /\ \A i \in 1 .. Len(v) : v[i] = u[cut + i]
    <3>1. cut \in 0 .. Len(u)
      BY <1>1, <1>3
    <3>2. /\ v \in Seq(A) /\ Len(v) = Len(u) - cut
          /\ \A i \in 1 .. Len(u) - cut : v[i] = u[cut + i]
      BY <1>1, <3>1, FromOf
    <3> HIDE DEF v
    <3> QED
      BY <3>2
  <2>3. \A i \in 1 .. Len(w) : cut + i \in 1 .. Len(t) /\ i \in 1 .. Len(v)
    BY <1>1, <1>3, <2>1, <2>2
  <2> QED
    BY <1>1, <1>3, <2>1, <2>2, <2>3
<1>5. /\ WindowAt(t) = IF cut = 0 \/ t[cut] \in Space \/ spaces = {} THEN w ELSE From(w, Least(spaces) + 1)
      /\ WindowAt(u) = IF cut = 0 \/ u[cut] \in Space \/ more = {} THEN v ELSE From(v, Least(more) + 1)
  <2>1. WindowAt(t) = AtWord(t, cut) /\ WindowAt(u) = AtWord(u, cut)
    BY <1>3 DEF WindowAt, cut
  <2> QED
    BY <2>1 DEF AtWord
<1> HIDE DEF w, v
<1>6. cut # 0 => u[cut] = t[cut]
  BY <1>1, <1>3
<1>7. CASE cut = 0 \/ t[cut] \in Space
  <2>1. WindowAt(t) = w /\ WindowAt(u) = v
    BY <1>5, <1>6, <1>7
  <2>2. Len(w) <= Len(v)
    BY <1>4
  <2>3. IsPrefix(w, v)
    BY <1>4, <2>2, PrefixByIndex
  <2> QED
    BY <2>1, <2>3 DEF u
<1>8. CASE ~(cut = 0 \/ t[cut] \in Space)
  <2>1. spaces # {}
    BY <1>5 DEF Some
  <2>2. /\ \A i : i \in spaces <=> i \in 1 .. Len(w) /\ w[i] \in Space
        /\ \A i : i \in more <=> i \in 1 .. Len(v) /\ v[i] \in Space
    BY <1>4
  <2> HIDE DEF spaces, more
  <2>3. spaces \in SUBSET Nat /\ more \in SUBSET Nat /\ spaces \subseteq more
    BY <1>4, <2>2
  <2>4. /\ Least(spaces) \in spaces /\ Least(more) \in more
        /\ \A i \in more : Least(more) <= i
        /\ \A i \in spaces : Least(spaces) <= i
    BY <2>1, <2>3, LeastOf
  <2>5. Least(more) = Least(spaces)
    <3>1. Least(more) <= Least(spaces)
      BY <2>3, <2>4
    <3>2. Least(more) \in 1 .. Len(w)
      BY <1>4, <2>2, <2>3, <2>4, <3>1
    <3>3. Least(more) \in spaces
      BY <1>4, <2>2, <2>4, <3>2
    <3>4. Least(spaces) <= Least(more) /\ Least(spaces) \in Nat /\ Least(more) \in Nat
      BY <2>3, <2>4, <3>3
    <3> QED
      BY <3>1, <3>4
  <2> DEFINE k == Least(spaces)
             x == From(w, k + 1)
             y == From(v, k + 1)
  <2>6. k \in 0 .. Len(w) /\ k \in 0 .. Len(v)
    BY <1>4, <2>2, <2>4
  <2>7. WindowAt(t) = x /\ WindowAt(u) = y
    BY <1>5, <1>6, <1>8, <2>1, <2>3, <2>5
  <2> HIDE DEF k
  <2>8. x \in Seq(A) /\ Len(x) = Len(w) - k /\ \A i \in 1 .. Len(w) - k : x[i] = w[k + i]
    BY <1>4, <2>6, FromOf
  <2>9. y \in Seq(A) /\ Len(y) = Len(v) - k /\ \A i \in 1 .. Len(v) - k : y[i] = v[k + i]
    BY <1>4, <2>6, FromOf
  <2> HIDE DEF x, y
  <2>10. \A i \in 1 .. Len(x) : k + i \in 1 .. Len(w) /\ i \in 1 .. Len(v) - k
    BY <1>4, <2>6, <2>8
  <2>11. \A i \in 1 .. Len(x) : y[i] = x[i]
    BY <1>4, <2>8, <2>9, <2>10
  <2>12. Len(x) <= Len(y)
    BY <1>4, <2>6, <2>8, <2>9
  <2>13. IsPrefix(x, y)
    BY <2>8, <2>9, <2>11, <2>12, PrefixByIndex
  <2> QED
    BY <2>7, <2>13 DEF u
<1> QED
  BY <1>7, <1>8

\* While a sentence grows within a step, its prompt only grows (PromptExtends).
LEMMA PromptGrows ==
    ASSUME NEW t \in Seq(Symbol), NEW c \in Alphabet,
           Len(t) + 1 > Window => (Len(t) + 1 - Window) % CutStep # 0,
           Some(WindowAt(t), Space),
           SentenceEnds(WindowAt(t)) = {}, SentenceEnds(WindowAt(Append(t, c))) = {}
    PROVE  IsPrefix(InferenceContext(t), InferenceContext(Append(t, c)))
<1>1. c \in Symbol
  BY DraftsAssumption
<1>2. \A x : SentenceEnds(WindowAt(x)) = {} => InferenceContext(x) = WindowAt(x)
  BY DEF InferenceContext, WindowAt
<1> QED
  BY <1>1, <1>2, WindowGrows

\* What is written is a text, and so are what follows it and what is answered.
DraftWritten == part = "draft" => {before, after, text} \subseteq Seq(Symbol)

\* A draft stays a text as it is written.
LEMMA DraftKept ==
    ASSUME DraftWritten, [AllNext]_all
    PROVE  DraftWritten'
<1>1. CASE UNCHANGED all
  BY <1>1 DEF DraftWritten, all, draft
<1>2. CASE Asking /\ Next
  BY <1>2 DEF DraftWritten, Asking, draft
<1>3. CASE Greeting /\ H!Next
  BY <1>3 DEF DraftWritten, Greeting, draft
<1>4. CASE Drafting /\ DraftNext
  <2>1. part = "draft" /\ part' = part /\ {before, after, text} \subseteq Seq(Symbol)
    BY <1>4 DEF Drafting, DraftWritten
  <2>2. PICK c \in Alphabet : Write(c) \/ Follow(c) \/ Answer(c)
    BY <1>4 DEF DraftNext
  <2>3. c \in Symbol
    BY DraftsAssumption
  <2>4. before \in Seq(Symbol) /\ after \in Seq(Symbol) /\ text \in Seq(Symbol)
    BY <2>1
  <2>6. Append(before, c) \in Seq(Symbol) /\ Append(after, c) \in Seq(Symbol)
        /\ Append(text, c) \in Seq(Symbol)
    BY <2>3, <2>4
  <2>5. before' \in Seq(Symbol) /\ after' \in Seq(Symbol) /\ text' \in Seq(Symbol)
    BY <2>2, <2>4, <2>6, Zenon DEF Write, Follow, Answer
  <2> QED
    BY <2>1, <2>5 DEF DraftWritten
<1> QED
  BY <1>1, <1>2, <1>3, <1>4 DEF AllNext

\* A call is made neither after the budget nor once the request is cancelled.
LEMMA CallInTime ==
    ASSUME [AllNext]_all
    PROVE  part = "request" /\ sent' # sent => ~late /\ ~cancelled
<1> SUFFICES ASSUME part = "request", sent' # sent PROVE ~late /\ ~cancelled
  OBVIOUS
<1>1. ~UNCHANGED sent /\ ~UNCHANGED vars
  BY DEF vars
<1>2. Next
  BY <1>1 DEF AllNext, all, Drafting, Greeting
<1>3. \A r : Finish(r) => UNCHANGED sent
  BY DEF Finish
<1>4. \A to, p : Go(to, p) => UNCHANGED sent
  BY DEF Go
<1>5. \A rest, tried, listed : NextToken(rest, tried, listed) => UNCHANGED sent
  BY DEF NextToken
<1>6. \A word : Spelled(word) => UNCHANGED sent
  BY <1>3, <1>4 DEF Spelled, Continue
<1>7. \A seen : Handle(seen) => UNCHANGED sent
  BY <1>3, <1>4, <1>5, <1>6 DEF Handle, Answered, Followed
<1>8. \A list : HandleTokens(list) => UNCHANGED sent
  BY <1>5 DEF HandleTokens
<1>9. ~Request /\ ~Cancel /\ ~BudgetEnds /\ ~Prefer
  BY <1>1 DEF Request, Cancel, BudgetEnds, Prefer
<1>10. ~Begin /\ ~BeginAlternative
  BY <1>1, <1>3, <1>4, <1>6 DEF Begin, BeginAlternative, Continue
<1>11. ~OutOfTime /\ ~Fails /\ ~Cancelled
  BY <1>1, <1>3, <1>7, <1>8 DEF OutOfTime, Fails, Cancelled, Stop
<1>12. ~\E list \in Suggestions : Lookup(list)
  BY <1>1, <1>6 DEF Lookup
<1>13. (~\E list \in Firsts : ReplyTokens(list)) /\ ~\E seen \in Observed : Reply(seen)
  BY <1>1, <1>7, <1>8 DEF ReplyTokens, Reply
<1>14. Submit
  BY <1>2, <1>9, <1>10, <1>11, <1>12, <1>13 DEF Next
<1> QED
  BY <1>14 DEF Submit

\* The longer drafts are texts too.
LEMMA LongWritten == LongInit => {before, after, text} \subseteq Seq(Symbol)
<1> SUFFICES ASSUME LongInit PROVE {before, after, text} \subseteq Seq(Symbol)
  OBVIOUS
<1>1. Blank \in Symbol /\ Letter \subseteq Symbol /\ Mark \subseteq Symbol
  BY DEF Symbol, Space
<1>2. PICK x \in Letter, y \in Letter, mark \in Mark :
    /\ before \in {<<>>, <<x>>, <<Blank>>}
    /\ after \in {<<mark, x, Blank, y>>, <<Blank, mark, Blank, x, Blank, y>>}
    /\ text \in {<<y, mark, y>>, <<y, mark, x, y>>, <<y, mark, x, Blank, y>>,
          <<y, mark, x, Blank, y, y>>, <<y, Blank, y, mark, y>>, <<y, Blank, mark, Blank, y>>,
          <<y, Blank, y, mark, x, Blank, y>>, <<y, Blank, mark, Blank, x, Blank, y>>}
  BY DEF LongInit
<1>3. x \in Symbol /\ y \in Symbol /\ mark \in Symbol
  BY <1>1
<1>4. before \in Seq(Symbol)
  <2>1. <<>> \in Seq(Symbol) /\ <<x>> \in Seq(Symbol) /\ <<Blank>> \in Seq(Symbol)
    BY <1>1, <1>3
  <2> QED
    BY <1>2, <2>1
<1>5. after \in Seq(Symbol)
  <2>1. <<mark, x, Blank, y>> \in Seq(Symbol) /\ <<Blank, mark, Blank, x, Blank, y>> \in Seq(Symbol)
    BY <1>1, <1>3
  <2> QED
    BY <1>2, <2>1
<1>6. text \in Seq(Symbol)
  <2>1. /\ <<y, mark, y>> \in Seq(Symbol) /\ <<y, mark, x, y>> \in Seq(Symbol)
        /\ <<y, mark, x, Blank, y>> \in Seq(Symbol)
    BY <1>1, <1>3
  <2>2. /\ <<y, mark, x, Blank, y, y>> \in Seq(Symbol) /\ <<y, Blank, y, mark, y>> \in Seq(Symbol)
        /\ <<y, Blank, mark, Blank, y>> \in Seq(Symbol)
    BY <1>1, <1>3
  <2>3. /\ <<y, Blank, y, mark, x, Blank, y>> \in Seq(Symbol)
        /\ <<y, Blank, mark, Blank, x, Blank, y>> \in Seq(Symbol)
    BY <1>1, <1>3
  <2> QED
    BY <1>2, <2>1, <2>2, <2>3
<1> QED
  BY <1>4, <1>5, <1>6

\* A draft begins as a text.
LEMMA DraftBegins == AllInit => DraftWritten
<1> SUFFICES ASSUME AllInit, part = "draft" PROVE {before, after, text} \subseteq Seq(Symbol)
  BY DEF DraftWritten
<1>1. DraftInit \/ LongInit
  BY DEF AllInit
<1>2. DraftInit => {before, after, text} \subseteq Seq(Symbol)
  BY DEF DraftInit
<1> QED
  BY <1>1, <1>2, LongWritten

\* No call is sent after the budget or the cancellation, and a prompt only
\* grows while its window stays (StepsRight).
THEOREM StepsAreRight == AllSpec => StepsRight
<1>1. AllInit => DraftWritten
  BY DraftBegins
<1>2. DraftWritten /\ [AllNext]_all => DraftWritten'
  BY DraftKept
<1>3. [AllNext]_all => [part = "request" /\ sent' # sent => ~late /\ ~cancelled]_all
  BY CallInTime
<1>4. DraftWritten /\ [AllNext]_all => [
          /\ Len(before') = Len(before) + 1
          /\ Len(before') > Window => (Len(before') - Window) % CutStep # 0
          /\ Some(WindowAt(before), Space)
          /\ SentenceEnds(WindowAt(before)) = {} /\ SentenceEnds(WindowAt(before')) = {}
          => IsPrefix(InferenceContext(before), InferenceContext(before'))]_draft
  <2> SUFFICES ASSUME DraftWritten, [AllNext]_all, ~UNCHANGED draft,
                      Len(before') = Len(before) + 1,
                      Len(before') > Window => (Len(before') - Window) % CutStep # 0,
                      Some(WindowAt(before), Space),
                      SentenceEnds(WindowAt(before)) = {}, SentenceEnds(WindowAt(before')) = {}
               PROVE  IsPrefix(InferenceContext(before), InferenceContext(before'))
    OBVIOUS
  <2>1. Drafting /\ DraftNext
    BY DEF AllNext, all, draft, Asking, Greeting
  <2>2. PICK c \in Alphabet : Write(c) \/ Follow(c) \/ Answer(c)
    BY <2>1 DEF DraftNext
  <2>3. before \in Seq(Symbol)
    BY <2>1 DEF DraftWritten, Drafting
  <2>4. before' # before
    BY <2>3
  <2>5. before' = Append(before, c)
    BY <2>2, <2>4 DEF Write, Follow, Answer
  <2>6. Len(before) + 1 > Window => (Len(before) + 1 - Window) % CutStep # 0
    <3> DEFINE n == Len(before')
    <3>1. n = Len(before) + 1
      OBVIOUS
    <3>2. n > Window => (n - Window) % CutStep # 0
      OBVIOUS
    <3>3. n \in Nat /\ Len(before) \in Nat /\ Window \in Nat /\ CutStep \in Nat \ {0}
      BY <2>3, <3>1, DraftsAssumption, WordsAssumption
    <3> HIDE DEF n
    <3> QED
      BY <3>1, <3>2, <3>3
  <2>7. SentenceEnds(WindowAt(Append(before, c))) = {}
    BY <2>5
  <2>8. IsPrefix(InferenceContext(before), InferenceContext(Append(before, c)))
    BY <2>3, <2>6, <2>7, PromptGrows
  <2> QED
    BY <2>5, <2>8
<1>5. StepsRight <=> /\ [][part = "request" /\ sent' # sent => ~late /\ ~cancelled]_all
                     /\ PromptExtends
  BY DEF StepsRight
<1> QED
  BY <1>1, <1>2, <1>3, <1>4, <1>5, PTL DEF AllSpec, PromptExtends

\* What the text rules let pass reads well, the echo of a prompt is exact, the
\* lookup and the notions of an edit agree, and a completion is the only
\* reading (DraftRight), of every draft, lexicon and window.
THEOREM DraftIsRight == AllSpec => []DraftRight
<1>1. AllInit => DraftWritten
  BY DraftBegins
<1>2. DraftWritten /\ [AllNext]_all => DraftWritten'
  BY DraftKept
<1>3. DraftWritten => DraftRight
  <2> SUFFICES ASSUME {before, after, text} \subseteq Seq(Symbol)
               PROVE  /\ DraftTyped /\ ProposalReads /\ EchoExact /\ LookupExact
                      /\ EditsAgree /\ OneReading
    BY DEF DraftWritten, DraftRight
  <2>1. before \in Seq(Symbol) /\ after \in Seq(Symbol) /\ text \in Seq(Symbol)
    OBVIOUS
  <2>2. DraftTyped
    BY <2>1, WindowBound DEF DraftTyped
  <2>3. ProposalReads
    BY JoinsWell
  <2>4. EchoExact
    BY <2>1, EchoIsExact DEF EchoExact
  <2>5. LookupExact
    BY <2>1, LookupIsExact DEF LookupExact
  <2>6. EditsAgree
    BY <2>1, EditsAreOne DEF EditsAgree
  <2>7. OneReading
    BY <2>1, OnlyReading DEF OneReading
  <2> QED
    BY <2>2, <2>3, <2>4, <2>5, <2>6, <2>7
<1> QED
  BY <1>1, <1>2, <1>3, PTL DEF AllSpec

=============================================================================
