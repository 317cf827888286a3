------------------------------ MODULE Learned ------------------------------
(* Learned words: the broker counts a long word once per field visit, queues *)
(* the new ones for the worker, keeps each subject's words sealed in one     *)
(* record, and publishes for the prompts those of two counts. A write either *)
(* happens, fails, or ends with its outcome unknown; the steps of one write, *)
(* and a power loss between them, are those of module ControlPlane.          *)
EXTENDS Integers, Sequences, FiniteSets, Functions

CONSTANTS
    Subject,      \* apps and sites
    Field,        \* text fields
    SubjectOf,    \* the subject of each field
    Word,         \* learnable words, numbers in alphabetical order
    Texts,        \* the sets of learnable words a field may show
    Keyring,      \* keys a keyring may deliver
    NoKey,
    Rules,        \* what a settings document says of context
    First,        \* that of the first
    VisitLimit,   \* MAX_LEARNED_VISITS
    WordLimit,    \* MAX_WORDS_PER_SUBJECT
    SubjectLimit, \* MAX_LEARNED_SUBJECTS
    Retention,    \* LEARNED_RETENTION_DAYS
    MaxReport,    \* bound: words reported by the fields
    MaxForget,    \* bound: forgets asked for
    MaxRev,       \* bound: settings revisions
    MaxDay,       \* bound: days
    MaxFault      \* bound: failing writes and crashes

ASSUME LearnedAssumption ==
    /\ SubjectOf \in [Field -> Subject]
    /\ Word \subseteq Nat
    /\ \A words \in Texts : words \subseteq Word /\ IsFiniteSet(words)
    /\ Rules \subseteq [on : BOOLEAN, off : SUBSET Subject, paused : BOOLEAN]
    /\ First \in Rules
    /\ {VisitLimit, WordLimit, SubjectLimit, Retention} \subseteq Nat \ {0}
    /\ {MaxReport, MaxForget, MaxRev, MaxDay, MaxFault} \subseteq Nat

VARIABLES
    doc,      \* ControlPlaneState::settings
    engine,   \* BrokerState::settings
    locked,   \* replace_settings still has to publish what is offered
    visits,   \* learned_visits, oldest first
    clearing, \* forget_learned has cleared the visits and not queued itself
    queue,    \* commands for the worker
    usable,   \* whether ControlPlaneState::learned is Some
    key,      \* LearnedStore::key
    content,  \* LearnedStore::document
    file,     \* what is visible of it on the disk
    doubt,    \* the last write of the file may or may not have happened
    offered,  \* ControlPlane::offered
    day,      \* unix_day_now
    up,       \* whether a broker runs
    reports,  \* every report of a field so far
    asked,    \* forgets asked for so far
    wiped,    \* per subject, how many reports an answered forget or the commit that
              \* turned context off there came after
    faults    \* failing writes and crashes so far

learnedVars == <<doc, engine, locked, visits, clearing, queue, usable, key, content,
                 file, doubt, offered, day, up, reports, asked, wiped, faults>>

OfferAfter == 2
Settings == [rev : 0 .. MaxRev, rules : Rules]
\* context_words_for
On(d, s) == d.rules.on /\ ~d.rules.paused /\ s \notin d.rules.off

\* A document: the subjects with a record, each word with the reports that
\* count it and the day of the last, all sealed with one key.
Empty == [key |-> NoKey, of |-> <<>>]
Within(d) == d <= day /\ day - d < Retention

Ready == key # NoKey /\ (content.of = <<>> \/ content.key = key)

-----------------------------------------------------------------------------
(* What a document becomes                                                 *)

Fields(e) == Cardinality(e.reports)

\* The rarest, then the oldest, make room.
Before(words, v, w) ==
    \/ Fields(words[v]) > Fields(words[w])
    \/ Fields(words[v]) = Fields(words[w]) /\ words[v].day > words[w].day
    \/ Fields(words[v]) = Fields(words[w]) /\ words[v].day = words[w].day /\ v < w
Best(words) ==
    LET fresh == {w \in DOMAIN words : Within(words[w].day)}
    IN  Restrict(words, {w \in fresh :
            Cardinality({v \in fresh : Before(words, v, w)}) < WordLimit})

Counted(words, new, id) ==
    [w \in DOMAIN words \cup new |->
        IF w \notin new THEN words[w]
        ELSE [reports |-> {id} \cup (IF w \in DOMAIN words THEN words[w].reports ELSE {}),
              day |-> day]]

\* The subjects left beside s, whose record is written anew.
Others(of, s) ==
    IF s \in DOMAIN of \/ Cardinality(DOMAIN of) < SubjectLimit THEN DOMAIN of \ {s}
    ELSE DOMAIN of \ {CHOOSE o \in DOMAIN of : \A p \in DOMAIN of : of[o].day <= of[p].day}

\* LearnedStore::record: what another key sealed gives way.
Recorded(r, id) ==
    LET of == IF Ready THEN content.of ELSE <<>>
        words == IF r.subject \in DOMAIN of THEN of[r.subject].words ELSE <<>>
        rest == Others(of, r.subject)
    IN  [key |-> key,
         of  |-> [s \in rest \cup {r.subject} |->
                    IF s \in rest THEN of[s]
                    ELSE [day |-> day, words |-> Best(Counted(words, r.words, id))]]]

\* LearnedStore::reconcile: turning context off everywhere removes nothing.
Allowed(off) == {s \in DOMAIN content.of : s \notin off /\ Within(content.of[s].day)}

\* LearnedStore::offerable
Offerable ==
    LET long(s) == {w \in DOMAIN content.of[s].words :
                        Fields(content.of[s].words[w]) >= OfferAfter}
        of == IF usable /\ Ready
              THEN {s \in DOMAIN content.of : On(doc, s) /\ long(s) # {}} ELSE {}
    IN  [s \in of |-> Restrict(content.of[s].words, long(s))]
\* OfferedWords::of, what a prompt reads without any other lock.
Offer(s) == IF s \in DOMAIN offered
            THEN {w \in DOMAIN offered[s] : Within(offered[s][w].day)} ELSE {}

-----------------------------------------------------------------------------
(* Writes                                                                  *)

OnDisk(c) == IF c.of = <<>> THEN Empty ELSE c

Written(c) == content' = c /\ file' = OnDisk(c) /\ doubt' = FALSE /\ UNCHANGED faults
Failed == faults < MaxFault /\ faults' = faults + 1 /\ UNCHANGED <<content, file, doubt>>
Unknown(c) ==
    /\ faults < MaxFault /\ faults' = faults + 1
    /\ UNCHANGED content /\ file' \in {file, OnDisk(c)} /\ doubt' = TRUE

\* Every change under the lock of the state ends in publish_offered.
Publish == offered' = Offerable'

\* reconcile_style_locked: a store that cannot drop what must go is given up.
\* Mutant: it goes on with what it could not drop.
ReconcileKeeps(off) ==
    IF ~usable \/ Allowed(off) = DOMAIN content.of
    THEN UNCHANGED <<usable, content, file, doubt, faults>>
    ELSE LET c == [content EXCEPT !.of = Restrict(@, Allowed(off))]
         IN  UNCHANGED usable /\ (Written(c) \/ Failed \/ Unknown(c))

Reconcile(off) ==
    IF ~usable \/ Allowed(off) = DOMAIN content.of
    THEN UNCHANGED <<usable, content, file, doubt, faults>>
    ELSE LET c == [content EXCEPT !.of = Restrict(@, Allowed(off))]
         IN  \/ Written(c) /\ UNCHANGED usable
             \/ (Failed \/ Unknown(c)) /\ usable' = FALSE

-----------------------------------------------------------------------------
(* The engine                                                              *)

Position(f) == {i \in DOMAIN visits : visits[i].field = f}
\* A new visit drops the oldest of too many.
Visited(f) ==
    IF Position(f) # {} THEN visits
    ELSE Append(IF Len(visits) >= VisitLimit THEN Tail(visits) ELSE visits,
                [field |-> f, since |-> Len(reports), counted |-> {}])
\* Mutant: what a visit counted is not remembered.
MarkedNot(f, words) == Visited(f)
Marked(f, words) ==
    [i \in DOMAIN Visited(f) |->
        IF Visited(f)[i].field # f THEN Visited(f)[i]
        ELSE [Visited(f)[i] EXCEPT !.counted = @ \cup words]]

\* fresh_written_words under the lock of the engine: a field that says its
\* words again counts none. A full queue drops the words, not the mark.
Update(f, words) ==
    LET visit == CHOOSE v \in {Visited(f)[i] : i \in DOMAIN Visited(f)} : v.field = f
        fresh == words \ visit.counted
        report == [subject |-> SubjectOf[f], words |-> fresh, rev |-> engine.rev,
                   visit |-> <<f, visit.since>>]
    IN  /\ up /\ On(engine, SubjectOf[f])
        /\ visits' = Marked(f, words)
        /\ \/ fresh = {} /\ UNCHANGED <<reports, queue>>
           \/ /\ fresh # {} /\ Len(reports) < MaxReport
              /\ reports' = Append(reports, report)
              /\ \/ queue' = Append(queue, [op |-> "learned", id |-> Len(reports) + 1])
                 \/ UNCHANGED queue
        /\ UNCHANGED <<doc, engine, locked, clearing, usable, key, content, file, doubt,
                       offered, day, up, asked, wiped, faults>>

\* forget_learned: the visits under the lock, then the command without it.
ForgetAsked ==
    /\ up /\ ~clearing /\ asked < MaxForget
    /\ visits' = <<>> /\ clearing' = TRUE /\ asked' = asked + 1
    /\ UNCHANGED <<doc, engine, locked, queue, usable, key, content, file, doubt, offered,
                   day, up, reports, wiped, faults>>

\* It is queued behind every report so far.
ForgetQueued ==
    /\ up /\ clearing
    /\ clearing' = FALSE
    /\ queue' = Append(queue, [op |-> "forget", id |-> Len(reports)])
    /\ UNCHANGED <<doc, engine, locked, visits, usable, key, content, file, doubt, offered,
                   day, up, reports, asked, wiped, faults>>

\* install_settings, once the replacement has published.
Install ==
    /\ up /\ ~locked /\ engine # doc
    /\ engine' = doc
    /\ visits' = IF doc.rules.on THEN visits ELSE <<>>
    /\ UNCHANGED <<doc, locked, clearing, queue, usable, key, content, file, doubt, offered,
                   day, up, reports, asked, wiped, faults>>

-----------------------------------------------------------------------------
(* The control plane                                                       *)

Free == up /\ ~locked

\* replace_settings_locked: what the next document forbids is purged, then it
\* is committed, or it is not. Purging again after the commit finds nothing
\* more. Without the aggregates the document alone is the floor.
Replace(rules) ==
    /\ Free /\ engine = doc /\ doc.rev < MaxRev /\ rules # doc.rules
    /\ \E off \in {doc.rules.off \cup rules.off, rules.off} : Reconcile(off)
    /\ doc' \in {doc, [rev |-> doc.rev + 1, rules |-> rules]}
    /\ locked' = TRUE
    /\ wiped' = [s \in Subject |-> IF usable' /\ ~doubt' /\ s \in doc'.rules.off
                                   THEN Len(reports) ELSE wiped[s]]
    /\ UNCHANGED <<engine, visits, clearing, queue, key, offered, day, up, reports, asked>>

Published ==
    /\ up /\ locked
    /\ locked' = FALSE
    /\ UNCHANGED <<doc, engine, visits, clearing, queue, usable, key, content, file, doubt,
                   day, up, reports, asked, wiped, faults>>
    /\ Publish

\* A sweep or a snapshot.
Sweep ==
    /\ Free
    /\ Reconcile(doc.rules.off)
    /\ UNCHANGED <<doc, engine, locked, visits, clearing, queue, key, day, up, reports, asked, wiped>>
    /\ Publish

\* deliver_style_key: a store that was given up takes none.
DeliverKey(k) ==
    /\ Free
    /\ key' = IF usable THEN k ELSE key
    /\ UNCHANGED <<doc, engine, locked, visits, clearing, queue, usable, content, file, doubt,
                   day, up, reports, asked, wiped, faults>>
    /\ Publish

Taking(op) == Free /\ queue # <<>> /\ Head(queue).op = op /\ queue' = Tail(queue)

\* record_learned_at_settings_revision
\* Mutant: words of an older revision are learned under the one in force.
AdmittedLate(r) == usable /\ key # NoKey
Admitted(r) == r.rev = doc.rev /\ usable /\ On(doc, r.subject) /\ key # NoKey

TakeLearned ==
    LET id == Head(queue).id
        r == reports[id]
    IN  /\ Taking("learned")
        /\ IF Admitted(r)
           THEN Written(Recorded(r, id)) \/ Failed \/ Unknown(Recorded(r, id))
           ELSE UNCHANGED <<content, file, doubt, faults>>
        /\ UNCHANGED <<doc, engine, locked, visits, clearing, usable, key, day, up, reports, asked, wiped>>
        /\ Publish

\* ControlPlane::forget_learned: it repairs a store that was given up, and the
\* new one has no key. An error leaves everything but the file as it was.
TakeForget ==
    /\ Taking("forget")
    /\ \/ /\ Written(Empty)
          /\ usable' = TRUE /\ key' = IF usable THEN key ELSE NoKey
          /\ wiped' = [s \in Subject |->
                        IF wiped[s] < Head(queue).id THEN Head(queue).id ELSE wiped[s]]
       \/ (Failed \/ Unknown(Empty)) /\ UNCHANGED <<usable, key, wiped>>
    /\ UNCHANGED <<doc, engine, locked, visits, clearing, day, up, reports, asked>>
    /\ Publish
-----------------------------------------------------------------------------
(* The world                                                               *)

NewDay ==
    /\ day < MaxDay /\ day' = day + 1
    /\ UNCHANGED <<doc, engine, locked, visits, clearing, queue, usable, key, content, file,
                   doubt, offered, up, reports, asked, wiped, faults>>

Crash ==
    /\ up /\ faults < MaxFault /\ faults' = faults + 1
    /\ up' = FALSE /\ locked' = FALSE /\ visits' = <<>> /\ clearing' = FALSE
    /\ queue' = <<>> /\ key' = NoKey /\ offered' = <<>> /\ content' = file /\ doubt' = FALSE
    /\ usable' = TRUE
    /\ UNCHANGED <<doc, engine, file, day, reports, asked, wiped>>

\* from_storage: the file is opened and reconciled, without a key.
Start ==
    /\ ~up /\ up' = TRUE /\ engine' = doc
    /\ Reconcile(doc.rules.off)
    /\ UNCHANGED <<doc, locked, visits, clearing, queue, key, offered, day, reports, asked, wiped>>

Init ==
    /\ doc = [rev |-> 0, rules |-> First] /\ engine = doc
    /\ locked = FALSE /\ visits = <<>> /\ clearing = FALSE /\ queue = <<>>
    /\ usable = TRUE /\ key = NoKey /\ content = Empty /\ file = Empty /\ doubt = FALSE
    /\ offered = <<>> /\ day = 0 /\ up = TRUE /\ reports = <<>> /\ asked = 0 /\ wiped = [s \in Subject |-> 0] /\ faults = 0

Next ==
    \/ \E f \in Field, words \in Texts : Update(f, words)
    \/ ForgetAsked \/ ForgetQueued \/ Install
    \/ \E rules \in Rules : Replace(rules)
    \/ Published \/ Sweep \/ TakeLearned \/ TakeForget
    \/ \E k \in Keyring : DeliverKey(k)
    \/ NewDay \/ Crash \/ Start

Spec == Init /\ [][Next]_learnedVars

-----------------------------------------------------------------------------

TypeOK ==
    /\ doc \in Settings /\ engine \in Settings
    /\ locked \in BOOLEAN /\ clearing \in BOOLEAN /\ usable \in BOOLEAN
    /\ doubt \in BOOLEAN /\ up \in BOOLEAN
    /\ Len(visits) <= VisitLimit
    /\ key \in Keyring \cup {NoKey}
    /\ DOMAIN content.of \subseteq Subject /\ Cardinality(DOMAIN content.of) <= SubjectLimit
    /\ \A s \in DOMAIN content.of : Cardinality(DOMAIN content.of[s].words) \in 1 .. WordLimit
    /\ day \in 0 .. MaxDay /\ faults \in 0 .. MaxFault
    /\ Len(reports) <= MaxReport /\ wiped \in [Subject -> 0 .. Len(reports)]

\* A word is offered only where context is on in the document in force. A reader
\* takes no other lock: between a commit and its publication it still finds what
\* the document the engine goes by allowed, never what neither of them does.
OfferAllowed ==
    up => \A s \in Subject : Offer(s) # {} => On(IF locked THEN engine ELSE doc, s)

\* Whatever changed last, the settings, the key or the store, what is offered
\* is what they give now.
OfferCurrent == up /\ ~locked => offered = Offerable

\* A word is offered after two visits of fields of its subject reported it
\* since what was kept was last to go.
OfferTwice ==
    ~locked => \A s \in Subject : \A w \in Offer(s) :
        \E i, j \in wiped[s] + 1 .. Len(reports) :
            /\ reports[i].subject = s /\ reports[j].subject = s
            /\ w \in reports[i].words /\ w \in reports[j].words
            /\ reports[i].visit # reports[j].visit

\* No report counts from before an answered forget, or from before context was
\* turned off for its subject, though it is on again when the worker takes it.
LearnedUnder ==
    \A s \in DOMAIN content.of : \A w \in DOMAIN content.of[s].words :
        \A i \in content.of[s].words[w].reports : i > wiped[s] /\ reports[i].subject = s

\* A store in use holds nothing of a subject whose context was turned off, and
\* unless a write ended unknown neither does its file.
PurgedWhereOff ==
    up /\ ~locked /\ usable =>
        /\ DOMAIN content.of \cap doc.rules.off = {}
        /\ ~doubt => file = OnDisk(content)

\* All of it: a word is offered after two visits, only where context is on, as
\* the settings, the key and the store in force give it, and what a forget or a
\* setting took away does not come back (vocabulary/learned.rs, control_plane.rs).
LearnedSafe ==
    /\ TypeOK /\ OfferAllowed /\ OfferCurrent /\ OfferTwice /\ LearnedUnder
    /\ PurgedWhereOff
=============================================================================
