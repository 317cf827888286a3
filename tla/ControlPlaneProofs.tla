-------------------------- MODULE ControlPlaneProofs --------------------------
(***************************************************************************)
(* What the stores hold is within what the settings allow, whatever fails, *)
(* for any documents, limits and numbers of events and faults.             *)
(*                                                                         *)
(* The inductive invariant has eight parts: the values (Types); what       *)
(* settings a power loss may leave (SettingsRight) and what their          *)
(* directory may hold (FilesRight); what the stores hold in memory         *)
(* (MemoryRight); what is being written (WriteRight) and what the disk has *)
(* of the aggregates while it is (DiskRight); what is queued (QueueRight); *)
(* and, by the operation that has the lock, how far it is and what it has  *)
(* established so far (JobRight). Each action keeps all eight.             *)
(***************************************************************************)
EXTENDS ControlPlane, FiniteSetTheorems, SequenceTheorems, WellFoundedInduction, TLAPS

Busy == job.step \in {"write", "rename", "sync", "done", "failed", "unknown"}
Of(st) == {i \in DOMAIN events : events[i].store = st}

\* What a file of the store may hold: allowed when observed, and not forgotten.
Rightful(st) == {i \in Of(st) : events[i].keep /\ i \notin forgotten}

\* What memory may hold: what persistence covers now was kept from the start.
Held(ids) ==
    /\ ids \subseteq Of("aggregates") \ forgotten
    /\ \A i \in ids : settings.doc.days[events[i].subject] # 0 => events[i].keep
    /\ Cardinality(Keys(ids)) <= RecordLimit

Types ==
    /\ settings \in Settings /\ memory \subseteq Ids
    /\ kept \in [Store -> SUBSET Ids] /\ usable \in [Store -> BOOLEAN]
    /\ file.now \in file.may /\ file.may \subseteq Settings
    /\ data.now \in data.may /\ data.may \subseteq Directory
    /\ queue \in Seq(Command) /\ job \in Job /\ today \in 0 .. MaxDay
    /\ events \in Seq(Event) /\ Len(events) <= MaxEvent
    /\ forgotten \subseteq Ids /\ faults \in 0 .. MaxFault

\* The directory may hold the document in force and one more, a commit that
\* was not synced; and a revision tells what its document kept.
SettingsRight ==
    /\ \E old \in Settings :
        /\ file.may = {old, file.now}
        /\ old = file.now \/ file.now.rev = old.rev + 1
        /\ job.op # "down" => settings = old
    /\ \A f \in file.may \cup {settings} : Valid(f.doc) /\ f.since <= today
    /\ \A i \in DOMAIN events :
        /\ events[i].day <= today
        /\ \A f \in file.may :
            /\ events[i].rev <= f.rev
            /\ events[i].rev = f.rev =>
                (events[i].keep <=> f.doc.days[events[i].subject] # 0)

FilesRight == \A d \in data.may :
    /\ d.aggregates \subseteq Rightful("aggregates") /\ d.samples \subseteq Rightful("samples")
    /\ Cardinality(Keys(d.aggregates)) <= RecordLimit
    /\ \A t \in d.temps : t.store = "samples" => t.content \subseteq Rightful("samples")

MemoryRight ==
    /\ Held(memory)
    /\ kept["aggregates"] \subseteq memory
    /\ \A st \in Store : kept[st] \subseteq Rightful(st) /\ \A i \in kept[st] : Outlives(i, settings)
    /\ ~usable["aggregates"] => memory = {}
    /\ ~usable["samples"] => kept["samples"] = {}

\* What is written is what may be kept.
WriteRight == Busy =>
    /\ job.target \subseteq Rightful(job.store)
    /\ \A i \in job.target : Outlives(i, settings)
    /\ job.store = "aggregates" => Held(job.next) /\ job.target \subseteq job.next
    /\ job.op \notin {"open", "clear", "forget"} => usable[job.store]

DiskRight ==
    /\ usable["aggregates"] => \A d \in data.may :
        \/ d.aggregates = kept["aggregates"]
        \/ /\ job.store = "aggregates" /\ job.step \in {"sync", "done", "unknown"}
           /\ d.aggregates = job.target
    /\ job.step = "rename" => job.target # {}
    /\ job.step = "sync" => data.now[job.store] = job.target
    /\ job.step = "done" => data.may = {data.now} /\ data.now[job.store] = job.target

\* Commands are in the order of what they are about, so that what comes
\* behind a clear or forget is none of what it covers.
QueueRight ==
    /\ \A k \in DOMAIN queue :
        /\ queue[k].id <= Len(events)
        /\ queue[k].op = "snapshot" => k = 1 /\ job.op # "clear"
        /\ queue[k].op = "signal" => queue[k].id \in Of("aggregates") \ forgotten
        /\ queue[k].op = "sample" => queue[k].id \in Of("samples") \ forgotten
        /\ queue[k].op \in {"signal", "sample"} =>
            /\ job.op \in {"clear", "forget"} => job.id < queue[k].id
            /\ \A l \in DOMAIN queue :
                l < k /\ queue[l].op \in {"clear", "forget"} => queue[l].id < queue[k].id
    /\ Len(queue) <= Capacity + (IF \E k \in DOMAIN queue : queue[k].op = "snapshot" THEN 1 ELSE 0)
    /\ job.op \in {"down", "open"} => queue = <<>>
    /\ job.op \in {"clear", "forget"} => job.id <= Len(events)
    /\ forgotten \subseteq DOMAIN events

-----------------------------------------------------------------------------
(* How far an operation is                                                 *)

\* The samples, and the aggregates, are within d as of the operation's day.
SamplesWithin(d) ==
    usable["samples"] => \A i \in kept["samples"] : Durable(d, events[i], job.day)
AggregatesWithin(d) ==
    usable["aggregates"] =>
        /\ \A i \in memory : Live(d, events[i], job.day)
        /\ kept["aggregates"] = Projected(d, memory, job.day)
SamplesTo(d) ==
    job.store = "samples" /\ \A i \in job.target : Durable(d, events[i], job.day)
AggregatesTo(d) ==
    /\ job.store = "aggregates" /\ \A i \in job.next : Live(d, events[i], job.day)
    /\ job.target = Projected(d, job.next, job.day)

Last(d) == <<Purge("aggregates", d)>>
Both(d) == <<Purge("samples", d), Purge("aggregates", d)>>
LastLook(d) == <<Purge("aggregates", d), Inspect>>
BothLook(d) == <<Purge("samples", d), Purge("aggregates", d), Inspect>>
After(n) == <<Commit(n), Purge("samples", n), Purge("aggregates", n)>>
Rest(f, n) == <<Purge("aggregates", f), Commit(n), Purge("samples", n), Purge("aggregates", n)>>
Whole(f, n) == <<Purge("samples", f), Purge("aggregates", f), Commit(n), Purge("samples", n),
                 Purge("aggregates", n)>>
First(n) == <<Purge("samples", n), Commit(n)>>

Opening ==
    LET d == settings.doc IN
    /\ ~usable["samples"] /\ settings = file.now
    /\ \/ /\ job.step = "plan" /\ ~usable["aggregates"]
          /\ job.todo = <<Open("aggregates", d), Open("samples", d)>>
       \/ /\ Busy /\ job.store = "aggregates" /\ ~usable["aggregates"]
          /\ job.todo = <<Open("samples", d)>>
       \/ job.step = "plan" /\ job.todo = <<Open("samples", d)>>
       \/ Busy /\ job.store = "samples" /\ job.todo = <<>>

Sweeping ==
    LET d == settings.doc IN
    \/ job.step = "plan" /\ job.todo \in {Both(d), BothLook(d)}
    \/ Busy /\ SamplesTo(d) /\ job.todo \in {Last(d), LastLook(d)}
    \/ job.step = "plan" /\ SamplesWithin(d) /\ job.todo \in {Last(d), LastLook(d)}
    \/ Busy /\ SamplesWithin(d) /\ AggregatesTo(d) /\ job.todo \in {<<>>, <<Inspect>>}
    \/ job.step = "plan" /\ SamplesWithin(d) /\ AggregatesWithin(d) /\ job.todo = <<Inspect>>

\* The document goes to the file once what it forbids has gone.
Committing(n) ==
    \/ job.step = "plan"
    \/ job.step = "settle" /\ file.now = [rev |-> settings.rev + 1, doc |-> n, since |-> job.day]

WithAggregates(n) ==
    LET f == Floor(settings.doc, n) IN
    \/ job.step = "plan" /\ job.todo = Whole(f, n)
    \/ Busy /\ SamplesTo(f) /\ job.todo = Rest(f, n)
    \/ job.step = "plan" /\ SamplesWithin(f) /\ job.todo = Rest(f, n)
    \/ Busy /\ SamplesWithin(f) /\ AggregatesTo(f) /\ job.todo = After(n)
    \/ Committing(n) /\ SamplesWithin(f) /\ AggregatesWithin(f) /\ job.todo = After(n)
WithoutAggregates(n) ==
    \/ job.step = "plan" /\ job.todo = First(n)
    \/ Busy /\ SamplesTo(n) /\ job.todo = <<Commit(n)>>
    \/ Committing(n) /\ SamplesWithin(n) /\ job.todo = <<Commit(n)>>
Enforced ==
    LET d == settings.doc IN
    /\ job.step = "plan" /\ usable["aggregates"] /\ job.todo \in {Both(d), Last(d)}
    /\ SamplesWithin(d) /\ AggregatesWithin(d)

Admitted == {d \in Doc : Valid(d)}
Replacing ==
    \/ /\ settings.rev < MaxRev
       /\ \E n \in Admitted : \/ usable["aggregates"] /\ WithAggregates(n)
                              \/ ~usable["aggregates"] /\ WithoutAggregates(n)
    \/ Enforced

\* A durable aggregate goes for one that is durable too.
Signalling ==
    /\ Busy /\ job.store = "aggregates" /\ job.todo = <<>> /\ job.id \in DOMAIN events
    /\ \A i \in kept["aggregates"] \ job.target :
        \/ ~Durable(settings.doc, events[i], job.day)
        \/ Durable(settings.doc, events[job.id], job.day)

Clearing ==
    /\ Busy /\ job.store = "aggregates" /\ job.todo = <<>>
    /\ job.target = {} /\ job.next = {}
Forgetting ==
    /\ Busy /\ job.store = "samples" /\ job.todo = <<>>
    /\ job.target = {} /\ \A t \in data.now.temps : t.store # "samples"

JobRight ==
    /\ job.op = "idle" => job = Blank
    /\ job.op = "down" => job = Down /\ settings = NoSettings /\ memory = {}
                          /\ kept = Nothing /\ usable = [st \in Store |-> FALSE]
    /\ job.op \notin {"idle", "down"} => settings.since <= job.day /\ job.day <= today
    /\ job.op = "open" => Opening
    /\ job.op = "sweep" => Sweeping
    /\ job.op = "replace" => Replacing
    /\ job.op = "signal" => Signalling
    /\ job.op = "sample" => Busy /\ job.store = "samples" /\ job.todo = <<>>
    /\ job.op = "clear" => Clearing
    /\ job.op = "forget" => Forgetting

IInv == /\ Types /\ SettingsRight /\ FilesRight /\ MemoryRight /\ WriteRight
        /\ DiskRight /\ QueueRight /\ JobRight

-----------------------------------------------------------------------------
(* Values                                                                  *)

LEMMA JobFields ==
    ASSUME job \in Job
    PROVE  /\ job.todo \in Seq(Task) /\ job.store \in Store /\ job.target \in SUBSET Ids
           /\ job.next \in SUBSET Ids /\ job.id \in 0 .. MaxEvent /\ job.day \in 0 .. MaxDay
  BY DEF Job

\* A step of the write under way.
LEMMA StepRight ==
    ASSUME job \in Job, NEW s \in {"plan", "write", "rename", "sync", "settle", "done",
                                   "failed", "unknown"},
           Step(s)
    PROVE  /\ job' \in Job /\ job'.step = s /\ job'.op = job.op /\ job'.todo = job.todo
           /\ job'.store = job.store /\ job'.target = job.target /\ job'.next = job.next
           /\ job'.id = job.id /\ job'.day = job.day
  BY DEF Job, Step

-----------------------------------------------------------------------------
(* What a step leaves of a part it has nothing to do with                  *)

LEMMA SettingsSame ==
    ASSUME SettingsRight, UNCHANGED <<settings, file, events, today>>,
           job.op = "down" <=> job'.op = "down"
    PROVE  SettingsRight'
  BY DEF SettingsRight

LEMMA RightfulSame ==
    ASSUME UNCHANGED <<events, forgotten>>
    PROVE  /\ \A st : Of(st)' = Of(st) /\ Rightful(st)' = Rightful(st)
           /\ \A ids : Keys(ids)' = Keys(ids)
  BY DEF Rightful, Of, Keys, Key

LEMMA FilesSame ==
    ASSUME FilesRight, UNCHANGED <<data, events, forgotten>>
    PROVE  FilesRight'
  BY RightfulSame DEF FilesRight

LEMMA HeldSame ==
    ASSUME UNCHANGED <<settings, events, forgotten>>
    PROVE  /\ \A ids : Held(ids) <=> Held(ids)'
           /\ \A i : Outlives(i, settings) <=> Outlives(i, settings)'
  BY RightfulSame DEF Held, Outlives

LEMMA MemorySame ==
    ASSUME MemoryRight, UNCHANGED <<settings, memory, kept, usable, events, forgotten>>
    PROVE  MemoryRight'
  BY RightfulSame, HeldSame DEF MemoryRight

LEMMA QueueSame ==
    ASSUME QueueRight, UNCHANGED <<queue, events, forgotten>>, job'.op = job.op, job'.id = job.id
    PROVE  QueueRight'
  BY DEF QueueRight, Of

LEMMA WriteSame ==
    ASSUME WriteRight, Busy, UNCHANGED <<settings, usable, events, forgotten>>,
           job'.op = job.op, job'.store = job.store, job'.target = job.target,
           job'.next = job.next
    PROVE  WriteRight'
  BY RightfulSame, HeldSame DEF WriteRight

\* An operation that only time passes for.
LEMMA JobSame ==
    ASSUME JobRight, UNCHANGED <<settings, memory, kept, usable, file, data, events, job>>,
           job.day <= today => job.day <= today'
    PROVE  JobRight'
<1>1. Busy <=> Busy'
  BY DEF Busy
<1>2. /\ \A d : SamplesWithin(d) <=> SamplesWithin(d)'
      /\ \A d : AggregatesWithin(d) <=> AggregatesWithin(d)'
      /\ \A d : SamplesTo(d) <=> SamplesTo(d)'
      /\ \A d : AggregatesTo(d) <=> AggregatesTo(d)'
  BY DEF SamplesWithin, AggregatesWithin, SamplesTo, AggregatesTo, Projected
<1>3. job.op = "open" => Opening'
  BY <1>1 DEF JobRight, Opening
<1>4. job.op = "sweep" => Sweeping'
  BY <1>1, <1>2 DEF JobRight, Sweeping
<1>5. job.op = "replace" => Replacing'
  <2>1. \A n : Committing(n) <=> Committing(n)'
    BY DEF Committing
  <2>2. \A n : WithAggregates(n) => WithAggregates(n)'
    BY <1>1, <1>2, <2>1 DEF WithAggregates
  <2>3. \A n : WithoutAggregates(n) => WithoutAggregates(n)'
    BY <1>1, <1>2, <2>1 DEF WithoutAggregates
  <2>4. Enforced => Enforced'
    BY <1>2 DEF Enforced
  <2> QED
    BY <2>2, <2>3, <2>4 DEF JobRight, Replacing, Admitted
<1>6. /\ job.op = "signal" => Signalling'
      /\ job.op = "clear" => Clearing'
      /\ job.op = "forget" => Forgetting'
  BY <1>1 DEF JobRight, Signalling, Clearing, Forgetting
<1> QED
  BY <1>1, <1>3, <1>4, <1>5, <1>6 DEF JobRight

\* A job that goes on writing.
LEMMA JobGoesOn ==
    ASSUME JobRight, Busy, Busy', job' \in Job,
           job'.op = job.op, job'.todo = job.todo, job'.store = job.store,
           job'.target = job.target, job'.next = job.next, job'.id = job.id, job'.day = job.day,
           UNCHANGED <<settings, memory, kept, usable, file, events, today>>,
           job.op = "forget" => \A t \in data'.now.temps : t.store # "samples"
    PROVE  JobRight'
<1>1. job.op \notin {"idle", "down"} /\ job'.op \notin {"idle", "down"}
  BY DEF JobRight, Busy, Blank, Down
<1>2. /\ \A d : SamplesWithin(d) <=> SamplesWithin(d)'
      /\ \A d : AggregatesWithin(d) <=> AggregatesWithin(d)'
      /\ \A d : SamplesTo(d) <=> SamplesTo(d)'
      /\ \A d : AggregatesTo(d) <=> AggregatesTo(d)'
  BY DEF SamplesWithin, AggregatesWithin, SamplesTo, AggregatesTo, Projected
<1>3. job.op = "open" => Opening'
  BY DEF JobRight, Opening, Busy
<1>4. job.op = "sweep" => Sweeping'
  BY <1>2 DEF JobRight, Sweeping, Busy
<1>5. ASSUME job.op = "replace" PROVE Replacing'
  <2>1. PICK n \in Admitted :
          /\ settings.rev < MaxRev
          /\ \/ usable["aggregates"] /\ WithAggregates(n)
             \/ ~usable["aggregates"] /\ WithoutAggregates(n)
    BY <1>5 DEF JobRight, Replacing, Enforced, Busy
  <2>2. WithAggregates(n) => WithAggregates(n)'
    BY <1>2 DEF WithAggregates, Committing, Busy
  <2>3. WithoutAggregates(n) => WithoutAggregates(n)'
    BY <1>2 DEF WithoutAggregates, Committing, Busy
  <2> QED
    BY <2>1, <2>2, <2>3 DEF Replacing, Admitted
<1>6. job.op = "signal" => Signalling'
  BY DEF JobRight, Signalling
<1>7. job.op = "clear" => Clearing'
  BY DEF JobRight, Clearing
<1>8. job.op = "forget" => Forgetting'
  BY DEF JobRight, Forgetting
<1> QED
  BY <1>1, <1>3, <1>4, <1>5, <1>6, <1>7, <1>8 DEF JobRight

-----------------------------------------------------------------------------
(* The jobs that operations make                                           *)

LEMMA BlankRight ==
    /\ Blank \in Job /\ Down \in Job /\ Blank.op = "idle" /\ Down.op = "down"
    /\ Blank.step = "plan" /\ Down.step = "plan" /\ Blank.todo = <<>>
<1>1. /\ <<>> \in Seq(Task) /\ 0 \in 0 .. MaxEvent /\ 0 \in 0 .. MaxDay /\ {} \in SUBSET Ids
      /\ "aggregates" \in Store
  BY EmptySeq, BoundsAssumption DEF Store
<1>2. Blank \in Job /\ Blank.op = "idle" /\ Blank.step = "plan" /\ Blank.todo = <<>>
  BY <1>1 DEF Blank, Job
<1>3. Down \in Job /\ Down.op = "down" /\ Down.step = "plan"
  BY <1>2 DEF Down, Job
<1> QED
  BY <1>2, <1>3

LEMMA Resumed ==
    ASSUME job \in Job, NEW todo \in Seq(Task), Resume(todo)
    PROVE  /\ job' \in Job /\ job'.step = "plan"
           /\ todo = <<>> => job' = Blank /\ job'.op = "idle"
           /\ todo # <<>> => job'.op = job.op /\ job'.todo = todo /\ job'.day = job.day
<1>1. CASE todo = <<>>
  BY <1>1, BlankRight DEF Resume
<1>2. CASE todo # <<>>
  BY <1>2, BlankRight DEF Resume, Job
<1> QED
  BY <1>1, <1>2

LEMMA Begun ==
    ASSUME NEW op \in {"replace", "sweep", "open"}, NEW todo \in Seq(Task), today \in 0 .. MaxDay,
           Begin(op, todo)
    PROVE  /\ job' \in Job /\ job'.step = "plan" /\ job'.op = op /\ job'.todo = todo
           /\ job'.day = today
  BY BlankRight DEF Begin, Job

LEMMA FreshRight ==
    ASSUME NEW op \in {"signal", "sample", "clear", "forget"}, NEW id \in 0 .. MaxEvent,
           today \in 0 .. MaxDay
    PROVE  /\ Fresh(op, id) \in Job /\ Fresh(op, id).op = op /\ Fresh(op, id).todo = <<>>
           /\ Fresh(op, id).id = id /\ Fresh(op, id).day = today
  BY BlankRight DEF Fresh, Job

LEMMA Written ==
    ASSUME NEW j \in Job, NEW st \in Store, NEW target \in SUBSET Ids, NEW next \in SUBSET Ids,
           Write(j, st, target, next)
    PROVE  /\ job' \in Job /\ job'.step = "write" /\ job'.op = j.op /\ job'.todo = j.todo
           /\ job'.store = st /\ job'.target = target /\ job'.next = next
           /\ job'.id = j.id /\ job'.day = j.day
  BY DEF Write, Job

LEMMA Rested ==
    ASSUME job \in Job, job.todo # <<>>
    PROVE  /\ [job EXCEPT !.todo = Tail(@)] \in Job
           /\ [job EXCEPT !.todo = Tail(@)].todo = Tail(job.todo)
           /\ [job EXCEPT !.todo = Tail(@)].op = job.op
           /\ [job EXCEPT !.todo = Tail(@)].id = job.id
           /\ [job EXCEPT !.todo = Tail(@)].day = job.day
           /\ Tail(job.todo) \in Seq(Task) /\ Head(job.todo) \in Task
<1>1. job.todo \in Seq(Task)
  BY DEF Job
<1>2. Tail(job.todo) \in Seq(Task) /\ Head(job.todo) \in Task
  BY <1>1, HeadTailProperties
<1> QED
  BY <1>2 DEF Job

\* The lists of tasks, from the front.
LEMMA Lists ==
    /\ \A a : Head(<<a>>) = a /\ Tail(<<a>>) = <<>> /\ <<a>> # <<>>
    /\ \A a, b : Head(<<a, b>>) = a /\ Tail(<<a, b>>) = <<b>> /\ <<a, b>> # <<>>
    /\ \A a, b, c : Head(<<a, b, c>>) = a /\ Tail(<<a, b, c>>) = <<b, c>> /\ <<a, b, c>> # <<>>
    /\ \A a, b, c, d : /\ Head(<<a, b, c, d>>) = a /\ Tail(<<a, b, c, d>>) = <<b, c, d>>
                       /\ <<a, b, c, d>> # <<>>
    /\ \A a, b, c, d, e :
        /\ Head(<<a, b, c, d, e>>) = a /\ Tail(<<a, b, c, d, e>>) = <<b, c, d, e>>
        /\ <<a, b, c, d, e>> # <<>>
<1>1. \A a : Head(<<a>>) = a /\ Tail(<<a>>) = <<>> /\ <<a>> # <<>>
  OBVIOUS
<1>2. \A a, b : Head(<<a, b>>) = a /\ Tail(<<a, b>>) = <<b>> /\ <<a, b>> # <<>>
  OBVIOUS
<1>3. \A a, b, c : Head(<<a, b, c>>) = a /\ Tail(<<a, b, c>>) = <<b, c>> /\ <<a, b, c>> # <<>>
  OBVIOUS
<1>4. \A a, b, c, d : /\ Head(<<a, b, c, d>>) = a /\ Tail(<<a, b, c, d>>) = <<b, c, d>>
                       /\ <<a, b, c, d>> # <<>>
  OBVIOUS
<1>5. \A a, b, c, d, e :
        /\ Head(<<a, b, c, d, e>>) = a /\ Tail(<<a, b, c, d, e>>) = <<b, c, d, e>>
        /\ <<a, b, c, d, e>> # <<>>
  OBVIOUS
<1> QED
  BY <1>1, <1>2, <1>3, <1>4, <1>5

LEMMA Todos ==
    \A f, n : /\ Last(f) = <<Purge("aggregates", f)>> /\ Last(f) # <<>>
              /\ Head(Last(f)) = Purge("aggregates", f) /\ Tail(Last(f)) = <<>>
              /\ LastLook(f) # <<>> /\ Tail(LastLook(f)) = <<Inspect>>
              /\ Head(LastLook(f)) = Purge("aggregates", f)
              /\ Both(f) # <<>> /\ Head(Both(f)) = Purge("samples", f) /\ Tail(Both(f)) = Last(f)
              /\ BothLook(f) # <<>> /\ Tail(BothLook(f)) = LastLook(f)
              /\ Head(BothLook(f)) = Purge("samples", f)
              /\ After(n) # <<>> /\ Head(After(n)) = Commit(n) /\ Tail(After(n)) = Both(n)
              /\ Rest(f, n) # <<>> /\ Tail(Rest(f, n)) = After(n)
              /\ Head(Rest(f, n)) = Purge("aggregates", f)
              /\ Whole(f, n) # <<>> /\ Tail(Whole(f, n)) = Rest(f, n)
              /\ Head(Whole(f, n)) = Purge("samples", f)
              /\ First(n) # <<>> /\ Head(First(n)) = Purge("samples", n)
              /\ Tail(First(n)) = <<Commit(n)>>
  BY Lists DEF Last, LastLook, Both, BothLook, After, Rest, Whole, First

LEMMA Tasks ==
    \A st, d : /\ Purge(st, d).do = "purge" /\ Purge(st, d).store = st /\ Purge(st, d).doc = d
               /\ Open(st, d).do = "open" /\ Open(st, d).store = st /\ Open(st, d).doc = d
               /\ Commit(d).do = "commit" /\ Commit(d).store = "aggregates" /\ Commit(d).doc = d
               /\ Inspect.do = "inspect" /\ Inspect.store = "aggregates"
  BY DEF Purge, Open, Commit, Inspect

-----------------------------------------------------------------------------
(* Documents, events and records                                           *)

LEMMA EventFields ==
    ASSUME events \in Seq(Event), Len(events) <= MaxEvent
    PROVE  /\ \A i \in DOMAIN events :
                /\ events[i] \in Event /\ events[i].store \in Store /\ events[i].subject \in Subject
                /\ events[i].day \in 0 .. MaxDay /\ events[i].rev \in 0 .. MaxRev
                /\ events[i].day \in Nat /\ events[i].rev \in Nat /\ events[i].keep \in BOOLEAN
                /\ i \in Ids /\ i \in Nat
           /\ DOMAIN events = 1 .. Len(events) /\ Len(events) \in Nat
           /\ \A st \in Store : Of(st) \subseteq DOMAIN events
<1>1. DOMAIN events = 1 .. Len(events) /\ Len(events) \in Nat
  OBVIOUS
<1>2. \A i \in DOMAIN events : events[i] \in Event /\ i \in Ids /\ i \in Nat
  BY <1>1, BoundsAssumption DEF Ids
<1>3. \A i \in DOMAIN events :
        /\ events[i].store \in Store /\ events[i].subject \in Subject
        /\ events[i].day \in 0 .. MaxDay /\ events[i].rev \in 0 .. MaxRev
        /\ events[i].day \in Nat /\ events[i].rev \in Nat /\ events[i].keep \in BOOLEAN
  BY <1>2, BoundsAssumption DEF Event
<1> QED
  BY <1>1, <1>2, <1>3 DEF Of

LEMMA DocFields ==
    ASSUME NEW d \in Doc, NEW s \in Subject
    PROVE  d.days[s] \in 0 .. MaxDays /\ d.days[s] \in Nat /\ d.learn \in SUBSET Subject
  BY BoundsAssumption DEF Doc

LEMMA DurableLives ==
    ASSUME NEW d \in Doc, Valid(d), NEW e \in Event, NEW day \in Nat, Durable(d, e, day)
    PROVE  Live(d, e, day) /\ d.days[e.subject] # 0
<1>1. e.subject \in Subject /\ e.day \in Nat
  BY BoundsAssumption DEF Event
<1>2. d.days[e.subject] \in Nat
  BY <1>1, DocFields
<1>3. d.days[e.subject] # 0
  BY <1>1, <1>2 DEF Durable
<1> QED
  BY <1>1, <1>2, <1>3 DEF Durable, Live, Valid

LEMMA SmallerRight ==
    ASSUME NEW a \in Nat, NEW b \in Nat
    PROVE  /\ Smaller(a, b) \in Nat /\ Smaller(a, b) <= a /\ Smaller(a, b) <= b
           /\ Smaller(a, b) = a \/ Smaller(a, b) = b
  BY DEF Smaller

\* The floor is a document that allows no more than either of the two.
LEMMA FloorRight ==
    ASSUME NEW c \in Doc, NEW n \in Doc
    PROVE  /\ Floor(c, n) \in Doc
           /\ \A s \in Subject :
                /\ Floor(c, n).days[s] = Smaller(c.days[s], n.days[s])
                /\ Floor(c, n).days[s] <= c.days[s] /\ Floor(c, n).days[s] <= n.days[s]
                /\ s \in Floor(c, n).learn =>
                    s \in n.learn /\ (n.days[s] # 0 => c.days[s] # 0)
<1>1. \A s \in Subject : c.days[s] \in 0 .. MaxDays /\ n.days[s] \in 0 .. MaxDays
  BY DocFields
<1>2. \A s \in Subject : Smaller(c.days[s], n.days[s]) \in 0 .. MaxDays
  BY <1>1, BoundsAssumption DEF Smaller
<1>3. /\ Floor(c, n).days = [s \in Subject |-> Smaller(c.days[s], n.days[s])]
      /\ Floor(c, n).learn = (c.learn \cap n.learn) \ Granted(c, n)
  BY DEF Floor
<1>4. Floor(c, n) \in Doc
  <2>1. (c.paused \/ n.paused) \in BOOLEAN /\ (c.style /\ n.style) \in BOOLEAN
    BY DEF Doc
  <2>2. (c.learn \cap n.learn) \ Granted(c, n) \in SUBSET Subject
    BY DEF Doc
  <2>3. [s \in Subject |-> Smaller(c.days[s], n.days[s])] \in [Subject -> 0 .. MaxDays]
    BY <1>2
  <2> QED
    BY <2>1, <2>2, <2>3 DEF Floor, Doc
<1>5. ASSUME NEW s \in Subject
      PROVE  /\ Floor(c, n).days[s] = Smaller(c.days[s], n.days[s])
             /\ Floor(c, n).days[s] <= c.days[s] /\ Floor(c, n).days[s] <= n.days[s]
             /\ s \in Floor(c, n).learn =>
                 s \in n.learn /\ (n.days[s] # 0 => c.days[s] # 0)
  BY <1>1, <1>3, BoundsAssumption DEF Smaller, Granted
<1> QED
  BY <1>4, <1>5

\* What is within the floor is within the next document.
LEMMA FloorNarrows ==
    ASSUME NEW c \in Doc, NEW n \in Doc, NEW e \in Event, NEW day \in Nat
    PROVE  /\ Live(Floor(c, n), e, day) => Live(n, e, day)
           /\ Live(Floor(c, n), e, day) => (n.days[e.subject] # 0 => c.days[e.subject] # 0)
           /\ Durable(Floor(c, n), e, day) => Durable(n, e, day)
           /\ Live(Floor(c, n), e, day) /\ Durable(n, e, day) => Durable(Floor(c, n), e, day)
<1> DEFINE s == e.subject
<1>1. s \in Subject /\ e.day \in Nat
  BY BoundsAssumption DEF Event
<1>2. c.days[s] \in Nat /\ n.days[s] \in Nat
  BY <1>1, DocFields
<1>3. /\ Floor(c, n).days[s] = Smaller(c.days[s], n.days[s])
      /\ s \in Floor(c, n).learn => s \in n.learn /\ (n.days[s] # 0 => c.days[s] # 0)
  BY <1>1, FloorRight
<1>4. Live(Floor(c, n), e, day) => (n.days[s] # 0 => c.days[s] # 0)
  BY <1>3 DEF Live
<1>5. Durable(Floor(c, n), e, day) => Durable(n, e, day)
  BY <1>1, <1>2, <1>3 DEF Durable, Smaller
<1>6. Live(Floor(c, n), e, day) => Live(n, e, day)
  BY <1>1, <1>2, <1>3 DEF Live, Smaller
<1>7. Live(Floor(c, n), e, day) /\ Durable(n, e, day) => Durable(Floor(c, n), e, day)
  BY <1>1, <1>2, <1>3 DEF Live, Durable, Smaller
<1> QED
  BY <1>4, <1>5, <1>6, <1>7

\* A document that allows no more than d does not keep what d must let go.
Narrower(f, d) == \A s \in Subject : f.days[s] <= d.days[s]

LEMMA DurableOutlives ==
    ASSUME NEW f \in Doc, NEW i \in DOMAIN events, events \in Seq(Event), Len(events) <= MaxEvent,
           settings \in Settings, Narrower(f, settings.doc), NEW day \in Nat,
           settings.since <= day, Durable(f, events[i], day)
    PROVE  Outlives(i, settings) /\ settings.doc.days[events[i].subject] # 0
<1> DEFINE s == events[i].subject
<1>1. s \in Subject /\ events[i].day \in Nat
  BY EventFields
<1>2. settings.doc \in Doc /\ settings.since \in Nat
  BY BoundsAssumption DEF Settings
<1>3. f.days[s] \in Nat /\ settings.doc.days[s] \in Nat /\ f.days[s] <= settings.doc.days[s]
  BY <1>1, <1>2, DocFields DEF Narrower
<1>4. day - events[i].day < f.days[s] /\ events[i].day <= day
  BY DEF Durable
<1> HIDE DEF s
<1>5. settings.since - events[i].day < settings.doc.days[s] /\ settings.doc.days[s] # 0
  BY <1>1, <1>2, <1>3, <1>4
<1> QED
  BY <1>5 DEF Outlives, s

\* Fewer events are of no more records.
LEMMA KeysFewer ==
    ASSUME NEW T, T \subseteq DOMAIN events, events \in Seq(Event), NEW S \in SUBSET T
    PROVE  /\ IsFiniteSet(Keys(T)) /\ Cardinality(Keys(T)) \in Nat
           /\ Cardinality(Keys(S)) \in Nat /\ Cardinality(Keys(S)) <= Cardinality(Keys(T))
           /\ IsFiniteSet(Keys(S)) /\ Keys(S) \subseteq Keys(T)
<1>1. IsFiniteSet(T)
  <2>1. DOMAIN events = 1 .. Len(events) /\ Len(events) \in Nat
    OBVIOUS
  <2>2. IsFiniteSet(1 .. Len(events))
    BY <2>1, FS_Interval
  <2> QED
    BY <2>1, <2>2, FS_Subset
<1>2. IsFiniteSet(Keys(T))
  <2> DEFINE g == [i \in T |-> Key(i)]
  <2>1. g \in Surjection(T, Keys(T))
    BY DEF Keys, Surjection
  <2> QED
    BY <1>1, <2>1, FS_Surjection
<1>3. Keys(S) \subseteq Keys(T)
  BY DEF Keys
<1> QED
  BY <1>2, <1>3, FS_Subset, FS_CardinalityType

-----------------------------------------------------------------------------
(* A write                                                                 *)

LEMMA FaultsRight ==
    ASSUME Types, faults' = faults \/ Fails
    PROVE  faults' \in 0 .. MaxFault
  BY BoundsAssumption DEF Types, Fails

\* What changes nothing but the data directory and the step.
LEMMA DiskStepKeeps ==
    ASSUME IInv, Busy, NEW s \in {"rename", "sync", "done", "failed", "unknown"}, Step(s),
           UNCHANGEDstores, UNCHANGED <<file, queue, today, events, forgotten>>,
           faults' = faults \/ Fails,
           data'.now \in data'.may, data'.may \subseteq Directory, FilesRight', DiskRight',
           job.op = "forget" => \A t \in data'.now.temps : t.store # "samples"
    PROVE  IInv'
<1>1. job \in Job
  BY DEF IInv, Types
<1>2. /\ job' \in Job /\ job'.step = s /\ job'.op = job.op /\ job'.todo = job.todo
      /\ job'.store = job.store /\ job'.target = job.target /\ job'.next = job.next
      /\ job'.id = job.id /\ job'.day = job.day
  BY <1>1, StepRight
<1>3. UNCHANGED <<settings, memory, kept, usable>>
  BY DEF UNCHANGEDstores
<1>4. Types'
  BY <1>2, <1>3, FaultsRight DEF IInv, Types
<1>5. SettingsRight' /\ MemoryRight' /\ QueueRight' /\ WriteRight'
  BY <1>2, <1>3, SettingsSame, MemorySame, QueueSame, WriteSame DEF IInv
<1>6. Busy'
  BY <1>2 DEF Busy
<1>7. JobRight'
  BY <1>2, <1>3, <1>6, JobGoesOn DEF IInv
<1> QED
  BY <1>4, <1>5, <1>7 DEF IInv

\* The directory that a step makes visible, and those it leaves.
LEMMA DataRight ==
    ASSUME IInv, NEW now \in Directory,
           \/ Changed(now)
           \/ Synced(now),
           now.aggregates \subseteq Rightful("aggregates"),
           now.samples \subseteq Rightful("samples"),
           Cardinality(Keys(now.aggregates)) <= RecordLimit,
           \A t \in now.temps : t.store = "samples" => t.content \subseteq Rightful("samples"),
           UNCHANGED <<events, forgotten>>
    PROVE  /\ data'.now = now /\ data'.now \in data'.may /\ data'.may \subseteq Directory
           /\ FilesRight' /\ \A d \in data'.may : d = now \/ d \in data.may
<1>1. /\ data'.now = now /\ data'.now \in data'.may
      /\ \A d \in data'.may : d = now \/ d \in data.may
  BY DEF Changed, Synced
<1>2. data.may \subseteq Directory /\ FilesRight
  BY DEF IInv, Types
<1>3. data'.may \subseteq Directory
  BY <1>1, <1>2
<1>4. FilesRight'
  BY <1>1, <1>2, RightfulSame DEF FilesRight
<1> QED
  BY <1>1, <1>3, <1>4

\* What is written may stand in the file.
LEMMA TargetRight ==
    ASSUME IInv, Busy
    PROVE  /\ job.target \in SUBSET Ids /\ job.store \in Store
           /\ job.target \subseteq Rightful(job.store)
           /\ job.store = "aggregates" => Cardinality(Keys(job.target)) <= RecordLimit
<1>1. job \in Job /\ WriteRight /\ events \in Seq(Event)
  BY DEF IInv, Types
<1>2. job.target \in SUBSET Ids /\ job.store \in Store /\ job.target \subseteq Rightful(job.store)
  BY <1>1, JobFields DEF WriteRight
<1>3. ASSUME job.store = "aggregates" PROVE Cardinality(Keys(job.target)) <= RecordLimit
  <2>1. Held(job.next) /\ job.target \subseteq job.next
    BY <1>1, <1>3 DEF WriteRight
  <2>2. job.next \subseteq DOMAIN events /\ Cardinality(Keys(job.next)) <= RecordLimit
    BY <2>1 DEF Held, Of
  <2>3. /\ Cardinality(Keys(job.target)) \in Nat /\ Cardinality(Keys(job.next)) \in Nat
        /\ Cardinality(Keys(job.target)) <= Cardinality(Keys(job.next))
    BY <1>1, <2>1, <2>2, KeysFewer
  <2> QED
    BY <2>2, <2>3, BoundsAssumption
<1> QED
  BY <1>2, <1>3

\* What is visible is a directory with what it may have.
LEMMA NowRight ==
    ASSUME IInv
    PROVE  /\ data.now \in Directory /\ data.now \in data.may /\ data.may \subseteq Directory
           /\ data.now.aggregates \in SUBSET Ids /\ data.now.samples \in SUBSET Ids
           /\ data.now.temps \in SUBSET Temporary
           /\ data.now.aggregates \subseteq Rightful("aggregates")
           /\ data.now.samples \subseteq Rightful("samples")
           /\ Cardinality(Keys(data.now.aggregates)) <= RecordLimit
           /\ \A t \in data.now.temps :
                t.store = "samples" => t.content \subseteq Rightful("samples")
<1>1. data.now \in Directory /\ data.now \in data.may /\ data.may \subseteq Directory
  BY DEF IInv, Types
<1> QED
  BY <1>1 DEF IInv, FilesRight, Directory

LEMMA EmptyRight == Cardinality(Keys({})) <= RecordLimit
  BY FS_EmptySet, BoundsAssumption DEF Keys

\* The steps of a write, and their failures.
LEMMA StartWriteKeeps == ASSUME IInv, StartWrite PROVE IInv'
<1> DEFINE temp == [store |-> job.store, content |-> job.target]
           filled == [data.now EXCEPT !.temps = @ \cup {temp}]
           cleared == [data.now EXCEPT ![job.store] = {}]
<1>1. Busy /\ job.step = "write" /\ job.target \in SUBSET Ids /\ job.store \in Store
      /\ job.target \subseteq Rightful(job.store)
  BY TargetRight DEF StartWrite, Busy
<1>2. /\ UNCHANGEDstores /\ UNCHANGED <<file, queue, today, events, forgotten, faults>>
  BY DEF StartWrite, UNCHANGEDworld
<1>3. usable["aggregates"] => \A d \in data.may : d.aggregates = kept["aggregates"]
  BY <1>1 DEF IInv, DiskRight
<1>4. usable' = usable /\ kept' = kept
  BY <1>2 DEF UNCHANGEDstores
<1>5. CASE job.target # {} /\ Changed(filled) /\ Step("rename")
  <2>1. temp \in Temporary /\ temp.store = job.store /\ temp.content = job.target
    BY <1>1 DEF Temporary
  <2>2. data.now.temps \cup {temp} \in SUBSET Temporary
    BY <2>1, NowRight
  <2>3. /\ filled \in Directory /\ filled.temps = data.now.temps \cup {temp}
        /\ filled.aggregates = data.now.aggregates /\ filled.samples = data.now.samples
    BY <2>2, NowRight DEF Directory
  <2>4. \A t \in filled.temps : t.store = "samples" => t.content \subseteq Rightful("samples")
    BY <1>1, <2>1, <2>3, NowRight
  <2> HIDE DEF temp, filled
  <2>5. /\ data'.now = filled /\ data'.now \in data'.may /\ data'.may \subseteq Directory
        /\ FilesRight' /\ \A d \in data'.may : d = filled \/ d \in data.may
    BY <1>2, <1>5, <2>3, <2>4, NowRight, DataRight
  <2>6. job'.step = "rename" /\ job'.target = job.target
    BY <1>5, StepRight DEF IInv, Types
  <2>7. DiskRight'
    BY <1>3, <1>4, <1>5, <2>3, <2>5, <2>6, NowRight DEF DiskRight
  <2>8. job.op # "forget"
    BY <1>5 DEF IInv, JobRight, Forgetting
  <2> QED
    BY <1>1, <1>2, <1>5, <2>5, <2>7, <2>8, DiskStepKeeps
<1>6. CASE job.target = {} /\ Changed(cleared) /\ Step("sync")
  <2>1. /\ cleared \in Directory /\ cleared[job.store] = {} /\ cleared.temps = data.now.temps
        /\ \A st \in Store : st # job.store => cleared[st] = data.now[st]
    <3>1. CASE job.store = "aggregates"
      BY <1>1, <3>1, NowRight DEF Directory, Store
    <3>2. CASE job.store = "samples"
      BY <1>1, <3>2, NowRight DEF Directory, Store
    <3> QED
      BY <1>1, <3>1, <3>2 DEF Store
  <2>2. /\ cleared.aggregates \subseteq data.now.aggregates
        /\ cleared.samples \subseteq data.now.samples
        /\ cleared.aggregates = {} \/ cleared.aggregates = data.now.aggregates
        /\ job.store # "aggregates" => cleared.aggregates = data.now.aggregates
    BY <1>1, <2>1 DEF Store
  <2> HIDE DEF cleared
  <2>3. Cardinality(Keys(cleared.aggregates)) <= RecordLimit
    BY <2>2, NowRight, EmptyRight
  <2>4. /\ data'.now = cleared /\ data'.now \in data'.may /\ data'.may \subseteq Directory
        /\ FilesRight' /\ \A d \in data'.may : d = cleared \/ d \in data.may
    BY <1>2, <1>6, <2>1, <2>2, <2>3, NowRight, DataRight
  <2>5. job'.step = "sync" /\ job'.target = job.target /\ job'.store = job.store
    BY <1>6, StepRight DEF IInv, Types
  <2>6. ASSUME usable'["aggregates"], NEW d \in data'.may
        PROVE  \/ d.aggregates = kept'["aggregates"]
               \/ job.store = "aggregates" /\ d.aggregates = {}
    BY <1>1, <1>3, <1>4, <2>1, <2>2, <2>4, <2>6, NowRight
  <2>7. DiskRight'
    BY <1>6, <2>1, <2>4, <2>5, <2>6 DEF DiskRight
  <2>8. job.op = "forget" => \A t \in data'.now.temps : t.store # "samples"
    BY <2>1, <2>4 DEF IInv, JobRight, Forgetting
  <2> QED
    BY <1>1, <1>2, <1>6, <2>4, <2>7, <2>8, DiskStepKeeps
<1> QED
  BY <1>1, <1>5, <1>6 DEF StartWrite

LEMMA RenameKeeps == ASSUME IInv, Rename PROVE IInv'
<1> DEFINE temp == [store |-> job.store, content |-> job.target]
           kernel == [data.now EXCEPT ![job.store] = job.target]
           renamed == [data.now EXCEPT ![job.store] = job.target, !.temps = @ \ {temp}]
<1>1. /\ Busy /\ job.step = "rename" /\ job.target \in SUBSET Ids /\ job.store \in Store
      /\ job.target \subseteq Rightful(job.store) /\ job.target # {}
      /\ job.store = "aggregates" => Cardinality(Keys(job.target)) <= RecordLimit
  BY TargetRight DEF Rename, Busy, IInv, DiskRight
<1>2. /\ UNCHANGEDstores /\ UNCHANGED <<file, queue, today, events, forgotten, faults>>
      /\ Changed(renamed) /\ Step("sync")
  BY DEF Rename, UNCHANGEDworld
<1>3. usable["aggregates"] => \A d \in data.may : d.aggregates = kept["aggregates"]
  BY <1>1 DEF IInv, DiskRight
<1>4. usable' = usable /\ kept' = kept
  BY <1>2 DEF UNCHANGEDstores
<1>5. /\ renamed \in Directory /\ renamed[job.store] = job.target
      /\ renamed.temps \subseteq data.now.temps
      /\ \A st \in Store : st # job.store => renamed[st] = data.now[st]
  <2>1. CASE job.store = "aggregates"
    BY <1>1, <2>1, NowRight DEF Directory, Store
  <2>2. CASE job.store = "samples"
    BY <1>1, <2>2, NowRight DEF Directory, Store
  <2> QED
    BY <1>1, <2>1, <2>2 DEF Store
<1>6. /\ job.store = "aggregates" =>
            renamed.aggregates = job.target /\ renamed.samples = data.now.samples
      /\ job.store = "samples" =>
            renamed.samples = job.target /\ renamed.aggregates = data.now.aggregates
  BY <1>5 DEF Store
<1> HIDE DEF renamed
<1>7. /\ renamed.aggregates \subseteq Rightful("aggregates")
      /\ renamed.samples \subseteq Rightful("samples")
      /\ Cardinality(Keys(renamed.aggregates)) <= RecordLimit
  BY <1>1, <1>6, NowRight DEF Store
<1>8. /\ data'.now = renamed /\ data'.now \in data'.may /\ data'.may \subseteq Directory
      /\ FilesRight' /\ \A d \in data'.may : d = renamed \/ d \in data.may
  BY <1>2, <1>5, <1>7, NowRight, DataRight
<1>9. job'.step = "sync" /\ job'.target = job.target /\ job'.store = job.store
  BY <1>2, StepRight DEF IInv, Types
<1>10. ASSUME usable'["aggregates"], NEW d \in data'.may
       PROVE  \/ d.aggregates = kept'["aggregates"]
              \/ job.store = "aggregates" /\ d.aggregates = job.target
  BY <1>1, <1>3, <1>4, <1>6, <1>8, <1>10, NowRight DEF Store
<1>11. DiskRight'
  BY <1>5, <1>8, <1>9, <1>10 DEF DiskRight
<1>12. job.op # "forget"
  BY <1>1 DEF IInv, JobRight, Forgetting
<1> QED
  BY <1>1, <1>2, <1>8, <1>11, <1>12, DiskStepKeeps

LEMMA WriteFailsKeeps == ASSUME IInv, WriteFails PROVE IInv'
<1>1. /\ Busy /\ job.step = "write" /\ UNCHANGEDstores /\ Fails /\ Step("failed")
      /\ UNCHANGED <<file, data, queue, today, events, forgotten>>
  BY DEF WriteFails, Busy, Fails
<1>2. job'.step = "failed" /\ job'.target = job.target /\ job'.store = job.store
  BY <1>1, StepRight DEF IInv, Types
<1>3. DiskRight'
  BY <1>1, <1>2 DEF IInv, DiskRight, UNCHANGEDstores
<1>4. FilesRight' /\ data'.now \in data'.may /\ data'.may \subseteq Directory
  BY <1>1, FilesSame DEF IInv, Types
<1>5. job.op = "forget" => \A t \in data'.now.temps : t.store # "samples"
  BY <1>1 DEF IInv, JobRight, Forgetting
<1> QED
  BY <1>1, <1>3, <1>4, <1>5, DiskStepKeeps

LEMMA RenameFailsKeeps == ASSUME IInv, RenameFails PROVE IInv'
<1> DEFINE temp == [store |-> job.store, content |-> job.target]
           removed == [data.now EXCEPT !.temps = @ \ {temp}]
<1>1. /\ Busy /\ job.step = "rename" /\ job.target # {}
  BY DEF RenameFails, Busy, IInv, DiskRight
<1>2. /\ UNCHANGEDstores /\ Fails /\ UNCHANGED <<file, queue, today, events, forgotten>>
      /\ \/ Synced(removed) /\ Step("failed")
         \/ (UNCHANGED data \/ Changed(removed)) /\ Step("unknown")
  BY DEF RenameFails, Fails
<1>3. usable["aggregates"] => \A d \in data.may : d.aggregates = kept["aggregates"]
  BY <1>1 DEF IInv, DiskRight
<1>4. usable' = usable /\ kept' = kept
  BY <1>2 DEF UNCHANGEDstores
<1>5. PICK s \in {"failed", "unknown"} : Step(s)
  BY <1>2
<1>6. job'.step = s
  BY <1>5, StepRight DEF IInv, Types
<1>7. /\ data.now.temps \ {temp} \in SUBSET Temporary
      /\ removed \in Directory /\ removed.temps \subseteq data.now.temps
      /\ removed.aggregates = data.now.aggregates /\ removed.samples = data.now.samples
  BY NowRight DEF Directory
<1> HIDE DEF removed
<1>8. /\ data'.now \in data'.may /\ data'.may \subseteq Directory /\ FilesRight'
      /\ \A d \in data'.may : d = removed \/ d \in data.may
  <2>1. CASE Synced(removed) \/ Changed(removed)
    BY <1>2, <1>7, <2>1, NowRight, DataRight
  <2>2. CASE UNCHANGED data
    BY <1>2, <2>2, FilesSame DEF IInv, Types
  <2> QED
    BY <1>2, <2>1, <2>2
<1>9. usable'["aggregates"] => \A d \in data'.may : d.aggregates = kept'["aggregates"]
  BY <1>3, <1>4, <1>7, <1>8, NowRight
<1>10. DiskRight'
  BY <1>6, <1>9 DEF DiskRight
<1>11. job.op # "forget"
  BY <1>1 DEF IInv, JobRight, Forgetting
<1> QED
  BY <1>1, <1>2, <1>5, <1>8, <1>10, <1>11, DiskStepKeeps

LEMMA SyncDirectoryKeeps == ASSUME IInv, SyncDirectory PROVE IInv'
<1>1. /\ Busy /\ job.step = "sync" /\ data.now[job.store] = job.target
  BY DEF SyncDirectory, Busy, IInv, DiskRight
<1>2. /\ UNCHANGEDstores /\ UNCHANGED <<file, queue, today, events, forgotten, faults>>
      /\ Synced(data.now) /\ Step("done")
  BY DEF SyncDirectory, UNCHANGEDworld
<1>3. job'.step = "done" /\ job'.target = job.target /\ job'.store = job.store
  BY <1>2, StepRight DEF IInv, Types
<1>4. /\ data'.now = data.now /\ data'.may = {data.now}
      /\ data'.now \in data'.may /\ data'.may \subseteq Directory /\ FilesRight'
  BY <1>2, NowRight, DataRight DEF Synced
<1>5. DiskRight'
  BY <1>1, <1>2, <1>3, <1>4, NowRight DEF IInv, DiskRight, UNCHANGEDstores
<1>6. job.op = "forget" => \A t \in data'.now.temps : t.store # "samples"
  BY <1>4 DEF IInv, JobRight, Forgetting
<1> QED
  BY <1>1, <1>2, <1>4, <1>5, <1>6, DiskStepKeeps

LEMMA SyncFailsKeeps == ASSUME IInv, SyncFails PROVE IInv'
<1>1. /\ Busy /\ job.step = "sync" /\ UNCHANGEDstores /\ Fails /\ Step("unknown")
      /\ UNCHANGED <<file, data, queue, today, events, forgotten>>
  BY DEF SyncFails, Busy, Fails
<1>2. job'.step = "unknown" /\ job'.target = job.target /\ job'.store = job.store
  BY <1>1, StepRight DEF IInv, Types
<1>3. DiskRight'
  BY <1>1, <1>2 DEF IInv, DiskRight, UNCHANGEDstores
<1>4. FilesRight' /\ data'.now \in data'.may /\ data'.may \subseteq Directory
  BY <1>1, FilesSame DEF IInv, Types
<1>5. job.op = "forget" => \A t \in data'.now.temps : t.store # "samples"
  BY <1>1 DEF IInv, JobRight, Forgetting
<1> QED
  BY <1>1, <1>3, <1>4, <1>5, DiskStepKeeps

-----------------------------------------------------------------------------
(* The stages of a sweep and of a replacement                              *)

\* The samples are next, to be within d, and then the rest.
AfterSamples(d, rest) ==
    \/ job.op = "sweep" /\ d = settings.doc /\ rest \in {Last(d), LastLook(d)}
    \/ /\ job.op = "replace" /\ settings.rev < MaxRev
       /\ \E n \in Admitted :
            \/ usable["aggregates"] /\ d = Floor(settings.doc, n) /\ rest = Rest(d, n)
            \/ ~usable["aggregates"] /\ d = n /\ rest = <<Commit(n)>>
    \/ /\ job.op = "replace" /\ d = settings.doc /\ rest = Last(d)
       /\ usable["aggregates"] /\ SamplesWithin(d) /\ AggregatesWithin(d)

\* The aggregates are next, to be within d, and then the rest.
AfterAggregates(d, rest) ==
    /\ SamplesWithin(d)
    /\ \/ job.op = "sweep" /\ d = settings.doc /\ rest \in {<<>>, <<Inspect>>}
       \/ /\ job.op = "replace" /\ settings.rev < MaxRev /\ usable["aggregates"]
          /\ \E n \in Admitted : d = Floor(settings.doc, n) /\ rest = After(n)
       \/ /\ job.op = "replace" /\ d = settings.doc /\ rest = <<>>
          /\ usable["aggregates"] /\ AggregatesWithin(d)

LEMMA PurgeSamplesStage ==
    ASSUME IInv, Planning("purge", "samples")
    PROVE  AfterSamples(Head(job.todo).doc, Tail(job.todo))
<1>1. job.step = "plan" /\ ~Busy /\ job.todo # <<>> /\ JobRight /\ job \in Job
  BY DEF Planning, Busy, IInv, Types
<1>2. Head(job.todo).do = "purge" /\ Head(job.todo).store = "samples"
  BY DEF Planning
<1>3. CASE job.op = "sweep"
  BY <1>1, <1>2, <1>3, Todos, Tasks, Lists DEF JobRight, Sweeping, AfterSamples
<1>4. CASE job.op = "replace"
  <2>1. CASE Enforced
    <3>1. job.todo = Both(settings.doc)
      BY <1>1, <1>2, <2>1, Todos, Tasks DEF Enforced
    <3>2. Head(job.todo).doc = settings.doc /\ Tail(job.todo) = Last(settings.doc)
      BY <3>1, Todos, Tasks
    <3> QED
      BY <1>4, <2>1, <3>2 DEF Enforced, AfterSamples
  <2>2. CASE ~Enforced
    <3>1. PICK n \in Admitted :
            /\ settings.rev < MaxRev
            /\ \/ usable["aggregates"] /\ WithAggregates(n)
               \/ ~usable["aggregates"] /\ WithoutAggregates(n)
      BY <1>1, <1>4, <2>2 DEF JobRight, Replacing
    <3>2. CASE usable["aggregates"] /\ WithAggregates(n)
      <4>1. job.todo = Whole(Floor(settings.doc, n), n)
        BY <1>1, <1>2, <3>2, Todos, Tasks DEF WithAggregates
      <4>2. /\ Head(job.todo).doc = Floor(settings.doc, n)
            /\ Tail(job.todo) = Rest(Head(job.todo).doc, n)
        BY <4>1, Todos, Tasks
      <4> QED
        BY <1>4, <3>1, <3>2, <4>2 DEF AfterSamples
    <3>3. CASE ~usable["aggregates"] /\ WithoutAggregates(n)
      <4>1. job.todo = First(n)
        BY <1>1, <1>2, <3>3, Lists, Tasks DEF WithoutAggregates
      <4> QED
        BY <1>4, <3>1, <3>3, <4>1, Todos, Tasks DEF AfterSamples
    <3> QED
      BY <3>1, <3>2, <3>3
  <2> QED
    BY <2>1, <2>2
<1>5. job.op = "open" => FALSE
  BY <1>1, <1>2, Lists, Tasks DEF JobRight, Opening
<1>6. job.op \notin {"signal", "sample", "clear", "forget"}
  BY <1>1 DEF JobRight, Signalling, Clearing, Forgetting
<1>7. job.op \notin {"idle", "down"}
  BY <1>1, BlankRight DEF JobRight, Blank, Down
<1> QED
  BY <1>1, <1>3, <1>4, <1>5, <1>6, <1>7 DEF Job

LEMMA PurgeAggregatesStage ==
    ASSUME IInv, Planning("purge", "aggregates")
    PROVE  AfterAggregates(Head(job.todo).doc, Tail(job.todo))
<1>1. job.step = "plan" /\ ~Busy /\ job.todo # <<>> /\ JobRight /\ job \in Job
  BY DEF Planning, Busy, IInv, Types
<1>2. Head(job.todo).do = "purge" /\ Head(job.todo).store = "aggregates"
  BY DEF Planning
<1>3. CASE job.op = "sweep"
  BY <1>1, <1>2, <1>3, Todos, Tasks, Lists DEF JobRight, Sweeping, AfterAggregates
<1>4. CASE job.op = "replace"
  <2>1. CASE Enforced
    <3>1. job.todo = Last(settings.doc)
      BY <1>1, <1>2, <2>1, Todos, Tasks DEF Enforced
    <3>2. Head(job.todo).doc = settings.doc /\ Tail(job.todo) = <<>>
      BY <3>1, Todos, Tasks
    <3> QED
      BY <1>4, <2>1, <3>2 DEF Enforced, AfterAggregates
  <2>2. CASE ~Enforced
    <3>1. PICK n \in Admitted :
            /\ settings.rev < MaxRev
            /\ \/ usable["aggregates"] /\ WithAggregates(n)
               \/ ~usable["aggregates"] /\ WithoutAggregates(n)
      BY <1>1, <1>4, <2>2 DEF JobRight, Replacing
    <3>2. CASE usable["aggregates"] /\ WithAggregates(n)
      <4>1. job.todo = Rest(Floor(settings.doc, n), n) /\ SamplesWithin(Floor(settings.doc, n))
        BY <1>1, <1>2, <3>2, Todos, Tasks DEF WithAggregates
      <4>2. Head(job.todo).doc = Floor(settings.doc, n) /\ Tail(job.todo) = After(n)
        BY <4>1, Todos, Tasks
      <4>3. SamplesWithin(Head(job.todo).doc)
        BY <4>1, <4>2
      <4> QED
        BY <1>4, <3>1, <3>2, <4>2, <4>3 DEF AfterAggregates
    <3>3. CASE ~usable["aggregates"] /\ WithoutAggregates(n)
      BY <1>1, <1>2, <3>3, Lists, Todos, Tasks DEF WithoutAggregates
    <3> QED
      BY <3>1, <3>2, <3>3
  <2> QED
    BY <2>1, <2>2
<1>5. job.op = "open" => FALSE
  BY <1>1, <1>2, Lists, Tasks DEF JobRight, Opening
<1>6. job.op \notin {"signal", "sample", "clear", "forget"}
  BY <1>1 DEF JobRight, Signalling, Clearing, Forgetting
<1>7. job.op \notin {"idle", "down"}
  BY <1>1, BlankRight DEF JobRight, Blank, Down
<1> QED
  BY <1>1, <1>3, <1>4, <1>5, <1>6, <1>7 DEF Job

\* A write that is under way for a sweep or a replacement.
LEMMA WritingStage ==
    ASSUME IInv, Busy, job.op \in {"sweep", "replace"}
    PROVE  \E d : \/ /\ job.store = "samples" /\ SamplesTo(d) /\ AfterSamples(d, job.todo)
                  \/ /\ job.store = "aggregates" /\ AggregatesTo(d)
                     /\ AfterAggregates(d, job.todo)
                     /\ job.op = "replace" => job.todo # <<>>
<1>1. job.step # "plan" /\ job.step # "settle" /\ JobRight
  BY DEF Busy, IInv
<1>2. CASE job.op = "sweep"
  <2>1. \/ SamplesTo(settings.doc) /\ AfterSamples(settings.doc, job.todo)
        \/ AggregatesTo(settings.doc) /\ AfterAggregates(settings.doc, job.todo)
    BY <1>1, <1>2 DEF JobRight, Sweeping, AfterSamples, AfterAggregates
  <2> QED
    BY <1>2, <2>1 DEF SamplesTo, AggregatesTo
<1>3. CASE job.op = "replace"
  <2>1. PICK n \in Admitted :
          /\ settings.rev < MaxRev
          /\ \/ usable["aggregates"] /\ WithAggregates(n)
             \/ ~usable["aggregates"] /\ WithoutAggregates(n)
    BY <1>1, <1>3 DEF JobRight, Replacing, Enforced
  <2> DEFINE f == Floor(settings.doc, n)
  <2>2. CASE usable["aggregates"] /\ SamplesTo(f) /\ job.todo = Rest(f, n)
    BY <1>3, <2>1, <2>2 DEF AfterSamples, SamplesTo
  <2>3. CASE usable["aggregates"] /\ SamplesWithin(f) /\ AggregatesTo(f) /\ job.todo = After(n)
    <3>1. job.todo # <<>>
      BY <2>3, Todos
    <3>2. AfterAggregates(f, job.todo)
      BY <1>3, <2>1, <2>3 DEF AfterAggregates
    <3> QED
      BY <2>3, <3>1, <3>2 DEF AggregatesTo
  <2>4. CASE ~usable["aggregates"] /\ SamplesTo(n) /\ job.todo = <<Commit(n)>>
    BY <1>3, <2>1, <2>4 DEF AfterSamples, SamplesTo
  <2> QED
    BY <1>1, <2>1, <2>2, <2>3, <2>4 DEF WithAggregates, WithoutAggregates, Committing
<1> QED
  BY <1>2, <1>3

\* What is within a document stays so while the operation has the lock.
LEMMA WithinSame ==
    ASSUME job'.day = job.day, UNCHANGED events
    PROVE  /\ \A d : ~usable'["samples"] => SamplesWithin(d)'
           /\ \A d : /\ kept'["samples"] = kept["samples"]
                     /\ usable'["samples"] => usable["samples"]
                     /\ SamplesWithin(d)
                     => SamplesWithin(d)'
           /\ \A d : /\ kept'["aggregates"] = kept["aggregates"] /\ memory' = memory
                     /\ usable'["aggregates"] => usable["aggregates"]
                     /\ AggregatesWithin(d)
                     => AggregatesWithin(d)'
           /\ \A d : SamplesTo(d) /\ kept'["samples"] = job.target => SamplesWithin(d)'
           /\ \A d : /\ AggregatesTo(d) /\ kept'["aggregates"] = job.target /\ memory' = job.next
                     => AggregatesWithin(d)'
  BY DEF SamplesWithin, AggregatesWithin, SamplesTo, AggregatesTo, Projected

\* The samples are within d, and the operation plans the rest.
LEMMA SamplesNext ==
    ASSUME NEW d, NEW rest, AfterSamples(d, rest), job'.day = job.day, UNCHANGED <<settings, events>>,
           job'.op = job.op, job'.step = "plan", job'.todo = rest,
           usable'["aggregates"] = usable["aggregates"], memory' = memory,
           kept'["aggregates"] = kept["aggregates"], SamplesWithin(d)'
    PROVE  (job.op = "sweep" => Sweeping') /\ (job.op = "replace" => Replacing')
<1>1. job.op = "sweep" => Sweeping'
  BY DEF AfterSamples, Sweeping
<1>2. ASSUME job.op = "replace" PROVE Replacing'
  <2>1. CASE d = settings.doc /\ rest = Last(d) /\ usable["aggregates"] /\ AggregatesWithin(d)
    <3>1. AggregatesWithin(d)'
      BY <2>1, WithinSame
    <3>2. Enforced'
      BY <2>1, <3>1 DEF Enforced
    <3> QED
      BY <3>2 DEF Replacing
  <2>2. CASE settings.rev < MaxRev /\ \E n \in Admitted :
            \/ usable["aggregates"] /\ d = Floor(settings.doc, n) /\ rest = Rest(d, n)
            \/ ~usable["aggregates"] /\ d = n /\ rest = <<Commit(n)>>
    <3>1. PICK n \in Admitted :
            \/ usable["aggregates"] /\ d = Floor(settings.doc, n) /\ rest = Rest(d, n)
            \/ ~usable["aggregates"] /\ d = n /\ rest = <<Commit(n)>>
      BY <2>2
    <3>2. \/ usable'["aggregates"] /\ WithAggregates(n)'
          \/ ~usable'["aggregates"] /\ WithoutAggregates(n)'
      BY <3>1 DEF WithAggregates, WithoutAggregates, Committing
    <3> QED
      BY <2>2, <3>2 DEF Replacing, Admitted
  <2> QED
    BY <1>2, <2>1, <2>2 DEF AfterSamples
<1> QED
  BY <1>1, <1>2

\* The aggregates are within d, and the operation plans the rest.
LEMMA AggregatesNext ==
    ASSUME NEW d, NEW rest, AfterAggregates(d, rest), rest # <<>>, job'.day = job.day,
           UNCHANGED <<settings, events>>,
           job'.op = job.op, job'.step = "plan", job'.todo = rest,
           usable' = usable, kept'["samples"] = kept["samples"], AggregatesWithin(d)'
    PROVE  (job.op = "sweep" => Sweeping') /\ (job.op = "replace" => Replacing')
<1>1. SamplesWithin(d)'
  BY WithinSame DEF AfterAggregates
<1>2. job.op = "sweep" => Sweeping'
  BY <1>1 DEF AfterAggregates, Sweeping
<1>3. ASSUME job.op = "replace" PROVE Replacing'
  <2>1. PICK n \in Admitted : d = Floor(settings.doc, n) /\ rest = After(n)
    BY <1>3 DEF AfterAggregates
  <2>2. usable'["aggregates"] /\ WithAggregates(n)'
    BY <1>1, <1>3, <2>1 DEF AfterAggregates, WithAggregates, Committing
  <2> QED
    BY <1>3, <2>2 DEF AfterAggregates, Replacing, Admitted
<1> QED
  BY <1>2, <1>3

\* What is to be within d is being written.
LEMMA SamplesWrite ==
    ASSUME NEW d, NEW rest, AfterSamples(d, rest), job'.day = job.day, UNCHANGED <<settings, events>>,
           job'.op = job.op, Busy', job'.todo = rest, SamplesTo(d)',
           usable' = usable, ~(job.op = "replace" /\ SamplesWithin(d) /\ AggregatesWithin(d))
    PROVE  (job.op = "sweep" => Sweeping') /\ (job.op = "replace" => Replacing')
<1>1. job.op = "sweep" => Sweeping'
  BY DEF AfterSamples, Sweeping
<1>2. ASSUME job.op = "replace" PROVE Replacing'
  <2>1. PICK n \in Admitted :
          \/ usable["aggregates"] /\ d = Floor(settings.doc, n) /\ rest = Rest(d, n)
          \/ ~usable["aggregates"] /\ d = n /\ rest = <<Commit(n)>>
    BY <1>2 DEF AfterSamples
  <2>2. \/ usable'["aggregates"] /\ WithAggregates(n)'
        \/ ~usable'["aggregates"] /\ WithoutAggregates(n)'
    BY <2>1 DEF WithAggregates, WithoutAggregates
  <2> QED
    BY <1>2, <2>2 DEF AfterSamples, Replacing, Admitted
<1> QED
  BY <1>1, <1>2

LEMMA BlankKeeps ==
    ASSUME job' = Blank
    PROVE  job' \in Job /\ job'.op = "idle" /\ job'.step = "plan" /\ JobRight'
  BY BlankRight DEF JobRight

LEMMA StageKeeps ==
    ASSUME job'.op \in {"sweep", "replace"}, job'.op = "sweep" => Sweeping',
           job'.op = "replace" => Replacing',
           settings'.since <= job'.day, job'.day <= today'
    PROVE  JobRight'
  BY DEF JobRight

LEMMA NotWriting == ASSUME job'.step \in {"plan", "settle"} PROVE WriteRight'
  BY DEF WriteRight, Busy

LEMMA DiskKept ==
    ASSUME job'.step \in {"plan", "settle", "write"},
           usable'["aggregates"] => \A d \in data'.may : d.aggregates = kept'["aggregates"]
    PROVE  DiskRight'
  BY DEF DiskRight

LEMMA QueueKept ==
    ASSUME QueueRight, UNCHANGED <<queue, events, forgotten>>,
           \/ job'.op \notin {"clear", "forget", "down", "open"}
           \/ job'.op = job.op /\ job'.id = job.id
    PROVE  QueueRight'
  BY DEF QueueRight, Of

\* An operation that has the lock began since the settings were committed.
LEMMA DayRight ==
    ASSUME IInv, job.op \notin {"idle", "down"}
    PROVE  /\ settings.since <= job.day /\ job.day <= today /\ job.day \in Nat
           /\ settings.since \in Nat /\ settings.doc \in Doc /\ settings \in Settings
           /\ job \in Job /\ job.todo \in Seq(Task)
<1>1. job \in Job /\ settings \in Settings /\ JobRight
  BY DEF IInv, Types
<1>2. settings.since <= job.day /\ job.day <= today
  BY <1>1 DEF JobRight
<1> QED
  BY <1>1, <1>2, BoundsAssumption DEF Job, Settings

LEMMA BusyOp ==
    ASSUME IInv, Busy
    PROVE  job.op \notin {"idle", "down"}
  BY BlankRight DEF IInv, JobRight, Busy

\* A write that is done leaves the stores as it left the file.
LEMMA WriteDoneStores ==
    ASSUME IInv, WriteDone
    PROVE  /\ Busy /\ data.may = {data.now} /\ data.now[job.store] = job.target
           /\ job.store \in Store /\ job.target \in SUBSET Ids /\ job.next \in SUBSET Ids
           /\ kept' \in [Store -> SUBSET Ids] /\ usable' \in [Store -> BOOLEAN]
           /\ memory' \in SUBSET Ids
           /\ kept'[job.store] = job.target
           /\ \A st \in Store : st # job.store => kept'[st] = kept[st] /\ usable'[st] = usable[st]
           /\ job.store = "aggregates" => memory' = job.next
           /\ job.store # "aggregates" => memory' = memory
           /\ usable'[job.store]
           /\ job.op \notin {"open", "clear", "forget"} => usable' = usable
<1>1. Busy /\ data.may = {data.now} /\ data.now[job.store] = job.target
  BY DEF WriteDone, Busy, IInv, DiskRight
<1>2. /\ job.store \in Store /\ job.target \in SUBSET Ids /\ job.next \in SUBSET Ids
      /\ kept \in [Store -> SUBSET Ids] /\ usable \in [Store -> BOOLEAN] /\ memory \in SUBSET Ids
  BY JobFields DEF IInv, Types
<1>3. /\ kept' = [kept EXCEPT ![job.store] = job.target]
      /\ memory' = IF job.store = "aggregates" THEN job.next ELSE memory
  BY DEF WriteDone
<1>4. job.op \notin {"open", "clear", "forget"} => usable[job.store] /\ usable' = usable
  BY <1>1 DEF IInv, WriteRight, WriteDone, Forgets
<1>5. job.op \in {"open", "clear", "forget"} => usable' = [usable EXCEPT ![job.store] = TRUE]
  BY DEF WriteDone, Forgets
<1>6. /\ usable' \in [Store -> BOOLEAN] /\ usable'[job.store]
      /\ \A st \in Store : st # job.store => usable'[st] = usable[st]
  BY <1>2, <1>4, <1>5
<1> QED
  BY <1>1, <1>2, <1>3, <1>4, <1>6

\* What an operation that forgets covers is of its own store.
LEMMA CoveredRight ==
    ASSUME IInv, NEW st \in Store, NEW id \in 0 .. MaxEvent, UNCHANGED events,
           forgotten' = forgotten \cup Covered(st, id)
    PROVE  /\ Covered(st, id) \in SUBSET Ids /\ Covered(st, id) \subseteq Of(st)
           /\ \A s \in Store : s # st => Rightful(s)' = Rightful(s)
           /\ forgotten' \in SUBSET Ids
<1>1. /\ \A i \in DOMAIN events : i \in Ids /\ i \in Nat
      /\ forgotten \in SUBSET Ids
  BY EventFields DEF IInv, Types
<1>2. Covered(st, id) \in SUBSET Ids /\ Covered(st, id) \subseteq Of(st)
  BY <1>1 DEF Covered, Of
<1>3. \A s \in Store : s # st => Rightful(s)' = Rightful(s)
  BY <1>2 DEF Rightful, Of
<1> QED
  BY <1>1, <1>2, <1>3

\* A write that is done, but for what an operation forgets.
LEMMA WriteDoneKeeps == ASSUME IInv, WriteDone, job.op \notin {"clear", "forget"} PROVE IInv'
<1>1. /\ Busy /\ data.may = {data.now} /\ data.now[job.store] = job.target
      /\ job.store \in Store /\ job.target \in SUBSET Ids /\ job.next \in SUBSET Ids
      /\ kept' \in [Store -> SUBSET Ids] /\ usable' \in [Store -> BOOLEAN]
      /\ memory' \in SUBSET Ids
      /\ kept'[job.store] = job.target
      /\ \A st \in Store : st # job.store => kept'[st] = kept[st] /\ usable'[st] = usable[st]
      /\ job.store = "aggregates" => memory' = job.next
      /\ job.store # "aggregates" => memory' = memory
      /\ usable'[job.store]
      /\ job.op # "open" => usable' = usable
  BY WriteDoneStores
<1>2. UNCHANGED <<settings, file, data, queue, today, events, faults, forgotten>>
  BY DEF WriteDone, Forgets, UNCHANGEDworld
<1>3. Resume(job.todo) /\ job.todo \in Seq(Task) /\ job \in Job /\ job.op \notin {"idle", "down"}
      /\ settings.since <= job.day /\ job.day <= today
  BY <1>1, DayRight, BusyOp DEF WriteDone
<1>4. /\ job' \in Job /\ job'.step = "plan"
      /\ job.todo = <<>> => job' = Blank /\ job'.op = "idle"
      /\ job.todo # <<>> => job'.op = job.op /\ job'.todo = job.todo /\ job'.day = job.day
  BY <1>3, Resumed
<1>5. Types'
  BY <1>1, <1>2, <1>4 DEF IInv, Types
<1>6. job'.op \in {"idle", job.op}
  BY <1>4
<1>7. SettingsRight'
  BY <1>2, <1>3, <1>6, SettingsSame DEF IInv
<1>8. FilesRight'
  BY <1>2, FilesSame DEF IInv
<1>9. MemoryRight'
  <2>1. WriteRight /\ MemoryRight
    BY DEF IInv
  <2>2. \A st \in Store :
          kept'[st] \subseteq Rightful(st) /\ \A i \in kept'[st] : Outlives(i, settings)
    BY <1>1, <2>1 DEF MemoryRight, WriteRight
  <2>3. \A st \in Store :
          kept'[st] \subseteq Rightful(st)' /\ \A i \in kept'[st] : Outlives(i, settings)'
    BY <1>2, <2>2, RightfulSame, HeldSame
  <2>4. PICK m : m = memory'
    OBVIOUS
  <2>5. Held(m)
    BY <1>1, <2>1, <2>4 DEF MemoryRight, WriteRight
  <2>6. Held(m)'
    BY <1>2, <2>5, HeldSame
  <2>7. kept'["aggregates"] \subseteq memory'
    BY <1>1, <2>1 DEF MemoryRight, WriteRight, Store
  <2>8. /\ ~usable'["aggregates"] => memory' = {}
        /\ ~usable'["samples"] => kept'["samples"] = {}
    BY <1>1, <2>1 DEF MemoryRight, Store
  <2> QED
    BY <2>3, <2>4, <2>6, <2>7, <2>8 DEF MemoryRight, Held
<1>10. DiskRight'
  <2>1. ASSUME usable'["aggregates"] PROVE \A d \in data'.may : d.aggregates = kept'["aggregates"]
    <3>1. CASE job.store = "aggregates"
      BY <1>1, <1>2, <3>1
    <3>2. CASE job.store # "aggregates"
      BY <1>1, <1>2, <2>1, <3>2 DEF IInv, DiskRight, Store
    <3> QED
      BY <3>1, <3>2
  <2> QED
    BY <1>4, <2>1, DiskKept
<1>11. QueueRight'
  BY <1>2, <1>3, <1>4, <1>6, QueueKept DEF IInv, QueueRight
<1>12. JobRight'
  <2>1. CASE job.todo = <<>>
    BY <1>4, <2>1, BlankKeeps
  <2>2. CASE job.todo # <<>> /\ job.op = "open"
    <3>1. Opening
      BY <2>2 DEF IInv, JobRight
    <3>2. job.store = "aggregates" /\ job.todo = <<Open("samples", settings.doc)>>
      BY <1>1, <2>2, <3>1 DEF Opening, Busy
    <3>3. ~usable'["samples"] /\ settings' = settings /\ settings = file.now /\ file' = file
      BY <1>1, <1>2, <3>1, <3>2 DEF Opening, Store
    <3>4. job'.todo = <<Open("samples", settings.doc)>> /\ job'.op = "open" /\ job'.day = job.day
      BY <1>4, <2>2, <3>2
    <3> QED
      BY <1>2, <1>3, <1>4, <3>3, <3>4 DEF JobRight, Opening
  <2>3. CASE job.todo # <<>> /\ job.op \in {"sweep", "replace"}
    <3>1. job'.op = job.op /\ job'.todo = job.todo /\ job'.day = job.day /\ usable' = usable
      BY <1>1, <1>4, <2>3
    <3>2. PICK d : \/ /\ job.store = "samples" /\ SamplesTo(d) /\ AfterSamples(d, job.todo)
                   \/ /\ job.store = "aggregates" /\ AggregatesTo(d)
                      /\ AfterAggregates(d, job.todo)
      BY <1>1, <2>3, WritingStage
    <3>3. PICK rest : rest = job.todo
      OBVIOUS
    <3>4. CASE job.store = "samples"
      <4>1. kept'["samples"] = job.target /\ kept'["aggregates"] = kept["aggregates"]
            /\ memory' = memory
        BY <1>1, <3>4 DEF Store
      <4>2. SamplesTo(d) /\ AfterSamples(d, rest)
        BY <3>2, <3>3, <3>4
      <4>3. SamplesWithin(d)'
        BY <1>2, <3>1, <4>1, <4>2, WithinSame
      <4>4. (job.op = "sweep" => Sweeping') /\ (job.op = "replace" => Replacing')
        BY <1>2, <1>4, <3>1, <3>3, <4>1, <4>2, <4>3, SamplesNext
      <4> QED
        BY <1>2, <1>3, <2>3, <3>1, <4>4, StageKeeps
    <3>5. CASE job.store = "aggregates"
      <4>1. /\ kept'["aggregates"] = job.target /\ kept'["samples"] = kept["samples"]
            /\ memory' = job.next
        BY <1>1, <3>5 DEF Store
      <4>2. AggregatesTo(d) /\ AfterAggregates(d, rest) /\ rest # <<>>
        BY <2>3, <3>2, <3>3, <3>5
      <4>3. AggregatesWithin(d)'
        BY <1>2, <3>1, <4>1, <4>2, WithinSame
      <4>4. (job.op = "sweep" => Sweeping') /\ (job.op = "replace" => Replacing')
        BY <1>2, <1>4, <3>1, <3>3, <4>1, <4>2, <4>3, AggregatesNext
      <4> QED
        BY <1>2, <1>3, <2>3, <3>1, <4>4, StageKeeps
    <3> QED
      BY <1>1, <3>4, <3>5 DEF Store
  <2>4. job.op \notin {"signal", "sample"} \/ job.todo = <<>>
    BY DEF IInv, JobRight, Signalling
  <2> QED
    BY <1>3, <2>1, <2>2, <2>3, <2>4 DEF Job
<1> QED
  BY <1>4, <1>5, <1>7, <1>8, <1>9, <1>10, <1>11, <1>12, NotWriting DEF IInv

\* The worker's own command goes before what is queued.
LEMMA SnapshotPut ==
    ASSUME NEW q \in Seq(Command)
    PROVE  /\ <<Snapshot>> \o q \in Seq(Command) /\ Len(<<Snapshot>> \o q) = Len(q) + 1
           /\ (<<Snapshot>> \o q)[1].op = "snapshot" /\ (<<Snapshot>> \o q)[1].id = 0
           /\ \A k \in DOMAIN (<<Snapshot>> \o q) :
                k # 1 => k - 1 \in DOMAIN q /\ (<<Snapshot>> \o q)[k] = q[k - 1]
           /\ 1 \in DOMAIN (<<Snapshot>> \o q) /\ DOMAIN (<<Snapshot>> \o q) \subseteq Nat
<1>1. Snapshot \in Command /\ Snapshot.op = "snapshot" /\ Snapshot.id = 0
  BY BoundsAssumption DEF Snapshot, Command
<1> HIDE DEF Snapshot
<1>2. <<Snapshot>> \in Seq(Command) /\ Len(<<Snapshot>>) = 1 /\ <<Snapshot>>[1] = Snapshot
  BY <1>1
<1>3. /\ <<Snapshot>> \o q \in Seq(Command) /\ Len(<<Snapshot>> \o q) = Len(q) + 1
      /\ \A k \in 1 .. Len(q) + 1 :
            (<<Snapshot>> \o q)[k] = IF k <= 1 THEN <<Snapshot>>[k] ELSE q[k - 1]
  BY <1>2, ConcatProperties
<1>4. DOMAIN (<<Snapshot>> \o q) = 1 .. Len(q) + 1 /\ Len(q) \in Nat /\ DOMAIN q = 1 .. Len(q)
  BY <1>3
<1> QED
  BY <1>1, <1>2, <1>3, <1>4

\* The queue after a clear that covered the aggregates up to id.
LEMMA SnapshotFirst ==
    ASSUME IInv, NEW q \in Seq(Command), Len(q) <= Capacity, NEW id \in 0 .. MaxEvent,
           \A k \in DOMAIN q :
             /\ q[k].id <= Len(events) /\ q[k].op # "snapshot"
             /\ q[k].op = "signal" => q[k].id \in Of("aggregates") \ forgotten
             /\ q[k].op = "sample" => q[k].id \in Of("samples") \ forgotten
             /\ q[k].op \in {"signal", "sample"} =>
                 /\ id < q[k].id
                 /\ \A l \in DOMAIN q :
                     l < k /\ q[l].op \in {"clear", "forget"} => q[l].id < q[k].id,
           queue' = <<Snapshot>> \o q, forgotten' = forgotten \cup Covered("aggregates", id),
           UNCHANGED events, job'.op = "idle"
    PROVE  queue' \in Seq(Command) /\ QueueRight'
<1>1. /\ queue' \in Seq(Command) /\ Len(queue') = Len(q) + 1
      /\ queue'[1].op = "snapshot" /\ queue'[1].id = 0
      /\ \A k \in DOMAIN queue' : k # 1 => k - 1 \in DOMAIN q /\ queue'[k] = q[k - 1]
      /\ 1 \in DOMAIN queue' /\ DOMAIN queue' \subseteq Nat
  BY SnapshotPut
<1>2. Covered("aggregates", id) \subseteq Of("aggregates")
  BY CoveredRight DEF Store
<1>3. \A st : Of(st)' = Of(st)
  BY DEF Of
<1>4. \A k \in DOMAIN q : q[k].id \in Nat
  <2>1. \A k \in DOMAIN q : q[k] \in Command
    OBVIOUS
  <2> QED
    BY <2>1, BoundsAssumption DEF Command
<1>5. \A k \in DOMAIN q :
        /\ q[k].op = "signal" => q[k].id \in Of("aggregates") \ forgotten'
        /\ q[k].op = "sample" => q[k].id \in Of("samples") \ forgotten'
  BY <1>2, <1>4, BoundsAssumption DEF Covered, Of
<1>6. ASSUME NEW k \in DOMAIN queue'
      PROVE  /\ queue'[k].id <= Len(events)
             /\ queue'[k].op = "snapshot" => k = 1
             /\ queue'[k].op = "signal" => queue'[k].id \in Of("aggregates")' \ forgotten'
             /\ queue'[k].op = "sample" => queue'[k].id \in Of("samples")' \ forgotten'
             /\ queue'[k].op \in {"signal", "sample"} =>
                  \A l \in DOMAIN queue' :
                    l < k /\ queue'[l].op \in {"clear", "forget"} => queue'[l].id < queue'[k].id
  <2>1. CASE k = 1
    BY <1>1, <2>1, EventFields DEF IInv, Types
  <2>2. CASE k # 1
    <3>1. k - 1 \in DOMAIN q /\ queue'[k] = q[k - 1] /\ k \in Nat
      BY <1>1, <1>6, <2>2
    <3>2. \A l \in DOMAIN queue' : l < k /\ queue'[l].op \in {"clear", "forget"} =>
              l - 1 \in DOMAIN q /\ queue'[l] = q[l - 1] /\ l - 1 < k - 1
      BY <1>1, <3>1
    <3> QED
      BY <1>3, <1>5, <2>2, <3>1, <3>2
  <2> QED
    BY <2>1, <2>2
<1>7. Len(queue') <= Capacity + 1
  BY <1>1, BoundsAssumption
<1>8. forgotten' \subseteq DOMAIN events'
  BY DEF IInv, QueueRight, Covered
<1> QED
  BY <1>1, <1>6, <1>7, <1>8 DEF QueueRight

LEMMA WriteDoneClearKeeps == ASSUME IInv, WriteDone, job.op = "clear" PROVE IInv'
<1>1. /\ Busy /\ data.may = {data.now} /\ data.now[job.store] = job.target
      /\ kept' \in [Store -> SUBSET Ids] /\ usable' \in [Store -> BOOLEAN]
      /\ memory' \in SUBSET Ids
      /\ kept'[job.store] = job.target
      /\ \A st \in Store : st # job.store => kept'[st] = kept[st] /\ usable'[st] = usable[st]
      /\ job.store = "aggregates" => memory' = job.next
      /\ usable'[job.store]
  BY WriteDoneStores
<1>2. job.store = "aggregates" /\ job.target = {} /\ job.next = {} /\ job.todo = <<>>
  BY DEF IInv, JobRight, Clearing
<1>3. /\ UNCHANGED <<settings, file, data, today, events, faults>>
      /\ forgotten' = forgotten \cup Covered("aggregates", job.id)
      /\ queue' = <<Snapshot>> \o queue
  BY <1>2 DEF WriteDone, Forgets, UNCHANGEDworld
<1>4. /\ job' = Blank /\ job' \in Job /\ job'.op = "idle" /\ job'.step = "plan" /\ JobRight'
  BY <1>2, BlankKeeps DEF WriteDone, Resume
<1>5. /\ Covered("aggregates", job.id) \in SUBSET Ids
      /\ Covered("aggregates", job.id) \subseteq Of("aggregates")
      /\ Rightful("samples")' = Rightful("samples") /\ forgotten' \in SUBSET Ids
      /\ job.id \in 0 .. MaxEvent /\ queue \in Seq(Command)
  BY <1>3, JobFields, CoveredRight DEF Store, IInv, Types
<1>6. /\ queue' \in Seq(Command) /\ Len(queue') = Len(queue) + 1
      /\ queue'[1].op = "snapshot" /\ queue'[1].id = 0
      /\ \A k \in DOMAIN queue' : k # 1 => k - 1 \in DOMAIN queue /\ queue'[k] = queue[k - 1]
      /\ 1 \in DOMAIN queue' /\ DOMAIN queue' \subseteq Nat
  BY <1>3, <1>5, SnapshotPut
<1>7. Types'
  BY <1>1, <1>3, <1>4, <1>5, <1>6 DEF IInv, Types
<1>8. SettingsRight'
  BY <1>3, <1>4, BusyOp, <1>1, SettingsSame DEF IInv
<1>9. data.now.aggregates = {} /\ data' = data
  BY <1>1, <1>2, <1>3
<1>10. Keys({})' = Keys({})
  BY DEF Keys
<1>11. FilesRight'
  BY <1>1, <1>5, <1>9, <1>10, NowRight, EmptyRight DEF FilesRight
<1>12. MemoryRight'
  <2>1. \A i : Outlives(i, settings) <=> Outlives(i, settings)'
    BY <1>3 DEF Outlives
  <2>2. memory' = {} /\ kept'["aggregates"] = {} /\ kept'["samples"] = kept["samples"]
        /\ usable'["samples"] = usable["samples"] /\ usable'["aggregates"]
    BY <1>1, <1>2 DEF Store
  <2>3. Held(memory)'
    BY <2>2, <1>10, EmptyRight DEF Held
  <2> QED
    BY <1>5, <2>1, <2>2, <2>3 DEF IInv, MemoryRight, Store
<1>13. DiskRight'
  BY <1>1, <1>2, <1>4, <1>9, DiskKept
<1>14. QueueRight'
  <2>1. /\ \A k \in DOMAIN queue :
             /\ queue[k].id <= Len(events) /\ queue[k].op # "snapshot"
             /\ queue[k].op = "signal" => queue[k].id \in Of("aggregates") \ forgotten
             /\ queue[k].op = "sample" => queue[k].id \in Of("samples") \ forgotten
             /\ queue[k].op \in {"signal", "sample"} =>
                 /\ job.id < queue[k].id
                 /\ \A l \in DOMAIN queue :
                     l < k /\ queue[l].op \in {"clear", "forget"} => queue[l].id < queue[k].id
        /\ Len(queue) <= Capacity + (IF \E k \in DOMAIN queue : queue[k].op = "snapshot"
                                     THEN 1 ELSE 0)
    BY DEF IInv, QueueRight
  <2>2. Len(queue) <= Capacity
    <3>1. ~ \E k \in DOMAIN queue : queue[k].op = "snapshot"
      BY <2>1
    <3> QED
      BY <1>5, <2>1, <3>1, BoundsAssumption
  <2> QED
    BY <1>3, <1>4, <1>5, <2>1, <2>2, SnapshotFirst
<1> QED
  BY <1>4, <1>7, <1>8, <1>11, <1>12, <1>13, <1>14, NotWriting DEF IInv

LEMMA WriteDoneForgetKeeps == ASSUME IInv, WriteDone, job.op = "forget" PROVE IInv'
<1>1. /\ Busy /\ data.may = {data.now} /\ data.now[job.store] = job.target
      /\ kept' \in [Store -> SUBSET Ids] /\ usable' \in [Store -> BOOLEAN]
      /\ memory' \in SUBSET Ids
      /\ kept'[job.store] = job.target
      /\ \A st \in Store : st # job.store => kept'[st] = kept[st] /\ usable'[st] = usable[st]
      /\ job.store # "aggregates" => memory' = memory
      /\ usable'[job.store]
  BY WriteDoneStores
<1>2. /\ job.store = "samples" /\ job.target = {} /\ job.todo = <<>>
      /\ \A t \in data.now.temps : t.store # "samples"
  BY DEF IInv, JobRight, Forgetting
<1>3. /\ UNCHANGED <<settings, file, data, today, events, faults, queue>>
      /\ forgotten' = forgotten \cup Covered("samples", job.id)
  BY <1>2 DEF WriteDone, Forgets, UNCHANGEDworld
<1>4. /\ job' = Blank /\ job' \in Job /\ job'.op = "idle" /\ job'.step = "plan" /\ JobRight'
  BY <1>2, BlankKeeps DEF WriteDone, Resume
<1>5. /\ Covered("samples", job.id) \in SUBSET Ids
      /\ Covered("samples", job.id) \subseteq Of("samples")
      /\ Rightful("aggregates")' = Rightful("aggregates") /\ forgotten' \in SUBSET Ids
      /\ job.id \in 0 .. MaxEvent /\ queue \in Seq(Command)
  BY <1>3, JobFields, CoveredRight DEF Store, IInv, Types
<1>6. Types'
  BY <1>1, <1>3, <1>4, <1>5 DEF IInv, Types
<1>7. SettingsRight'
  BY <1>3, <1>4, BusyOp, <1>1, SettingsSame DEF IInv
<1>8. data.now.samples = {} /\ data' = data
  BY <1>1, <1>2, <1>3
<1>9. /\ \A ids : Keys(ids)' = Keys(ids)
      /\ \A st : Of(st)' = Of(st)
  BY <1>3 DEF Keys, Key, Of
<1>10. FilesRight'
  BY <1>1, <1>2, <1>5, <1>8, <1>9, NowRight DEF FilesRight
<1>11. MemoryRight'
  <2>1. \A i : Outlives(i, settings) <=> Outlives(i, settings)'
    BY <1>3 DEF Outlives
  <2>2. memory' = memory /\ kept'["samples"] = {} /\ kept'["aggregates"] = kept["aggregates"]
        /\ usable'["aggregates"] = usable["aggregates"] /\ usable'["samples"]
    BY <1>1, <1>2 DEF Store
  <2>3. Of("aggregates") \cap Covered("samples", job.id) = {}
    BY DEF Of, Covered
  <2>4. Held(memory) /\ MemoryRight
    BY DEF IInv, MemoryRight
  <2>5. Held(memory)'
    BY <1>3, <1>9, <2>2, <2>3, <2>4 DEF Held
  <2> QED
    BY <1>5, <2>1, <2>2, <2>4, <2>5 DEF MemoryRight, Store
<1>12. DiskRight'
  <2>1. usable'["aggregates"] => \A d \in data'.may : d.aggregates = kept'["aggregates"]
    BY <1>1, <1>2, <1>8 DEF IInv, DiskRight, Store
  <2> QED
    BY <1>4, <2>1, DiskKept
<1>13. QueueRight'
  <2>1. \A k \in DOMAIN queue : queue[k].id \in Nat
    <3>1. \A k \in DOMAIN queue : queue[k] \in Command
      BY <1>5
    <3> QED
      BY <3>1, BoundsAssumption DEF Command
  <2>2. \A k \in DOMAIN queue :
          /\ queue[k].op = "signal" => queue[k].id \in Of("aggregates")
          /\ queue[k].op = "sample" => job.id < queue[k].id
    BY DEF IInv, QueueRight
  <2>3. \A k \in DOMAIN queue :
          queue[k].op \in {"signal", "sample"} => queue[k].id \notin Covered("samples", job.id)
    BY <1>5, <2>1, <2>2, BoundsAssumption DEF Covered, Of
  <2>4. forgotten' \subseteq DOMAIN events'
    BY <1>3 DEF IInv, QueueRight, Covered
  <2> QED
    BY <1>3, <1>4, <1>9, <2>3, <2>4 DEF IInv, QueueRight
<1> QED
  BY <1>4, <1>6, <1>7, <1>10, <1>11, <1>12, <1>13, NotWriting DEF IInv

\* A write that failed, or may or may not have been done.
LEMMA WriteEndsBadlyKeeps == ASSUME IInv, WriteEndsBadly PROVE IInv'
<1> DEFINE left == IF job.store = "samples" \/ job.op = "open" THEN job.todo ELSE <<>>
<1>1. /\ Busy /\ job.step \in {"failed", "unknown"}
      /\ UNCHANGED <<settings, file, data, queue, today, events, faults, forgotten>>
      /\ Resume(left)
  BY DEF WriteEndsBadly, Busy, UNCHANGEDworld
<1>2. /\ job \in Job /\ job.todo \in Seq(Task) /\ job.store \in Store
      /\ job.op \notin {"idle", "down"} /\ settings.since <= job.day /\ job.day <= today
      /\ kept \in [Store -> SUBSET Ids] /\ usable \in [Store -> BOOLEAN] /\ memory \in SUBSET Ids
      /\ MemoryRight
  BY <1>1, DayRight, BusyOp, JobFields DEF IInv, Types
<1>3. left \in Seq(Task)
  BY <1>2, EmptySeq
<1>4. /\ job' \in Job /\ job'.step = "plan"
      /\ left = <<>> => job' = Blank /\ job'.op = "idle"
      /\ left # <<>> => job'.op = job.op /\ job'.todo = left /\ job'.day = job.day
  BY <1>1, <1>2, <1>3, Resumed
<1>5. /\ kept' \in [Store -> SUBSET Ids] /\ usable' \in [Store -> BOOLEAN] /\ memory' \in SUBSET Ids
      /\ \A st \in Store : st # job.store => kept'[st] = kept[st] /\ usable'[st] = usable[st]
      /\ job.store # "aggregates" => memory' = memory
      /\ GivenUp => /\ ~usable'[job.store] /\ kept'[job.store] = {}
                    /\ job.store = "aggregates" => memory' = {}
      /\ ~GivenUp => UNCHANGED <<usable, kept, memory>>
  <2>1. CASE GivenUp
    <3>1. /\ usable' = [usable EXCEPT ![job.store] = FALSE]
          /\ kept' = [kept EXCEPT ![job.store] = {}]
          /\ memory' = IF job.store = "aggregates" THEN {} ELSE memory
      BY <2>1 DEF WriteEndsBadly
    <3> QED
      BY <1>2, <2>1, <3>1
  <2>2. CASE ~GivenUp
    <3>1. UNCHANGED <<usable, kept, memory>>
      BY <2>2 DEF WriteEndsBadly
    <3> QED
      BY <1>2, <2>2, <3>1
  <2> QED
    BY <2>1, <2>2
<1>6. Types'
  BY <1>1, <1>4, <1>5 DEF IInv, Types
<1>7. SettingsRight'
  BY <1>1, <1>2, <1>4, SettingsSame DEF IInv
<1>8. FilesRight'
  BY <1>1, FilesSame DEF IInv
<1>9. MemoryRight'
  <2>1. CASE ~GivenUp
    BY <1>1, <1>2, <1>5, <2>1, MemorySame
  <2>2. CASE GivenUp /\ job.store = "samples"
    <3>1. /\ memory' = memory /\ kept'["samples"] = {} /\ kept'["aggregates"] = kept["aggregates"]
          /\ usable'["aggregates"] = usable["aggregates"]
      BY <1>5, <2>2 DEF Store
    <3>2. Held(memory)' /\ \A i : Outlives(i, settings) <=> Outlives(i, settings)'
      BY <1>1, <1>2, <3>1, RightfulSame DEF MemoryRight, Held, Outlives
    <3> QED
      BY <1>1, <1>2, <3>1, <3>2, RightfulSame DEF MemoryRight, Store
  <2>3. CASE GivenUp /\ job.store = "aggregates"
    <3>1. /\ memory' = {} /\ kept'["aggregates"] = {} /\ kept'["samples"] = kept["samples"]
          /\ usable'["samples"] = usable["samples"]
      BY <1>5, <2>3 DEF Store
    <3>2. Held(memory)'
      BY <3>1, EmptyRight DEF Held, Keys
    <3>3. \A i : Outlives(i, settings) <=> Outlives(i, settings)'
      BY <1>1 DEF Outlives
    <3> QED
      BY <1>1, <1>2, <3>1, <3>2, <3>3, RightfulSame DEF MemoryRight, Store
  <2> QED
    BY <1>2, <2>1, <2>2, <2>3 DEF Store
<1>10. DiskRight'
  <2>1. ASSUME usable'["aggregates"] PROVE \A d \in data'.may : d.aggregates = kept'["aggregates"]
    <3>1. CASE job.store = "aggregates"
      <4>1. ~GivenUp /\ kept' = kept /\ usable["aggregates"]
        BY <1>5, <2>1, <3>1
      <4>2. job.op \notin {"sample", "forget"}
        BY <3>1 DEF IInv, JobRight, Forgetting
      <4>3. job.step # "unknown"
        BY <1>2, <3>1, <4>1, <4>2 DEF GivenUp, Job
      <4> QED
        BY <1>1, <4>1, <4>3 DEF IInv, DiskRight
    <3>2. CASE job.store # "aggregates"
      BY <1>1, <1>5, <2>1, <3>2 DEF IInv, DiskRight, Store
    <3> QED
      BY <3>1, <3>2
  <2> QED
    BY <1>4, <2>1, DiskKept
<1>11. QueueRight'
  <2>1. left # <<>> => job.op \notin {"clear", "forget"}
    BY DEF IInv, JobRight, Clearing, Forgetting
  <2>2. job'.op \notin {"clear", "forget", "down"}
    BY <1>2, <1>4, <2>1
  <2>3. job'.op = "open" => queue = <<>>
    BY <1>2, <1>4 DEF IInv, QueueRight
  <2> QED
    BY <1>1, <2>2, <2>3, RightfulSame DEF IInv, QueueRight
<1>12. JobRight'
  <2>1. CASE left = <<>>
    BY <1>4, <2>1, BlankKeeps
  <2>2. CASE left # <<>> /\ job.op = "open"
    <3>1. Opening
      BY <2>2 DEF IInv, JobRight
    <3>2. job.todo = <<Open("samples", settings.doc)>> /\ job.store = "aggregates"
      BY <1>1, <2>2, <3>1 DEF Opening, Busy
    <3>3. ~usable'["samples"] /\ settings' = settings /\ settings = file.now /\ file' = file
      BY <1>1, <1>5, <3>1, <3>2 DEF Opening, Store
    <3>4. job'.todo = <<Open("samples", settings.doc)>> /\ job'.op = "open" /\ job'.day = job.day
      BY <1>4, <2>2, <3>2
    <3> QED
      BY <1>1, <1>2, <1>4, <3>3, <3>4 DEF JobRight, Opening
  <2>3. CASE left # <<>> /\ job.op \in {"sweep", "replace"}
    <3>1. job.store = "samples" /\ left = job.todo
      BY <2>3
    <3>2. job'.op = job.op /\ job'.todo = job.todo /\ job'.day = job.day
      BY <1>4, <2>3, <3>1
    <3>3. PICK d : AfterSamples(d, job.todo)
      BY <1>1, <2>3, <3>1, WritingStage
    <3>4. PICK rest : rest = job.todo
      OBVIOUS
    <3>5. GivenUp
      BY <2>3, <3>1 DEF GivenUp
    <3>6. /\ ~usable'["samples"] /\ usable'["aggregates"] = usable["aggregates"]
          /\ kept'["aggregates"] = kept["aggregates"] /\ memory' = memory
      BY <1>5, <3>1, <3>5 DEF Store
    <3>7. SamplesWithin(d)'
      BY <1>1, <3>2, <3>6, WithinSame
    <3>8. (job.op = "sweep" => Sweeping') /\ (job.op = "replace" => Replacing')
      BY <1>1, <1>4, <3>2, <3>3, <3>4, <3>6, <3>7, SamplesNext
    <3> QED
      BY <1>1, <1>2, <2>3, <3>2, <3>8, StageKeeps
  <2>4. job.op \in {"signal", "sample", "clear", "forget"} => left = <<>>
    BY DEF IInv, JobRight, Signalling, Clearing, Forgetting
  <2> QED
    BY <1>2, <2>1, <2>2, <2>3, <2>4 DEF Job
<1> QED
  BY <1>4, <1>6, <1>7, <1>8, <1>9, <1>10, <1>11, <1>12, NotWriting DEF IInv

-----------------------------------------------------------------------------
(* Tasks                                                                   *)

LEMMA DiskPlan ==
    ASSUME IInv, job.step \in {"plan", "settle"}, usable["aggregates"]
    PROVE  \A d \in data.may : d.aggregates = kept["aggregates"]
  BY DEF IInv, DiskRight

LEMMA PlanningRight ==
    ASSUME IInv, NEW do, NEW st, Planning(do, st)
    PROVE  /\ job.step = "plan" /\ ~Busy /\ job.todo # <<>> /\ job \in Job
           /\ job.op \in {"open", "sweep", "replace"}
           /\ Tail(job.todo) \in Seq(Task) /\ Head(job.todo) \in Task
           /\ Head(job.todo).doc \in Doc /\ job.day \in Nat
           /\ settings.since <= job.day /\ job.day <= today
<1>1. job.step = "plan" /\ ~Busy /\ job.todo # <<>> /\ job \in Job /\ JobRight
  BY DEF Planning, Busy, IInv, Types
<1>2. job.op \notin {"idle", "down", "signal", "sample", "clear", "forget"}
  BY <1>1, BlankRight DEF JobRight, Signalling, Clearing, Forgetting, Blank, Down
<1>3. job.op \in {"open", "sweep", "replace"}
  BY <1>1, <1>2 DEF Job
<1>4. Tail(job.todo) \in Seq(Task) /\ Head(job.todo) \in Task
  BY <1>1, Rested
<1>5. Head(job.todo).doc \in Doc
  BY <1>4 DEF Task
<1> QED
  BY <1>1, <1>3, <1>4, <1>5, DayRight

LEMMA RestLeft ==
    ASSUME NEW d, NEW rest, AfterSamples(d, rest)
    PROVE  rest # <<>> /\ job.op \in {"sweep", "replace"}
  BY Todos, Lists DEF AfterSamples

LEMMA PurgeSamplesKeeps == ASSUME IInv, PurgeSamples PROVE IInv'
<1> DEFINE durable == Projected(Head(job.todo).doc, kept["samples"], job.day)
<1>1. PICK d : d = Head(job.todo).doc
  OBVIOUS
<1>2. PICK rest : rest = Tail(job.todo)
  OBVIOUS
<1>3. /\ job.step = "plan" /\ ~Busy /\ job.todo # <<>> /\ job \in Job /\ rest \in Seq(Task)
      /\ job.day \in Nat /\ settings.since <= job.day /\ job.day <= today
  BY <1>2, PlanningRight DEF PurgeSamples
<1>4. AfterSamples(d, rest) /\ rest # <<>> /\ job.op \in {"sweep", "replace"}
  BY <1>1, <1>2, PurgeSamplesStage, RestLeft DEF PurgeSamples
<1>5. UNCHANGED <<settings, memory, kept, usable, file, data, queue, today, events, faults, forgotten>>
  BY DEF PurgeSamples, UNCHANGEDstores, UNCHANGEDworld
<1>6. durable \subseteq kept["samples"] /\ kept["samples"] \in SUBSET Ids
      /\ \A i \in durable : Durable(d, events[i], job.day)
  BY <1>1 DEF Projected, IInv, Types, Store
<1>7. /\ job' \in Job /\ job'.op = job.op /\ job'.todo = rest /\ job'.day = job.day
      /\ job'.step \in {"plan", "write"} /\ WriteRight' /\ JobRight'
  <2>1. CASE ~usable["samples"] \/ durable = kept["samples"]
    <3>1. Resume(rest)
      BY <1>2, <2>1 DEF PurgeSamples
    <3>2. /\ job' \in Job /\ job'.step = "plan" /\ job'.op = job.op /\ job'.todo = rest
          /\ job'.day = job.day
      BY <1>3, <1>4, <3>1, Resumed
    <3>3. SamplesWithin(d)
      BY <1>6, <2>1 DEF SamplesWithin
    <3>4. SamplesWithin(d)'
      BY <1>5, <3>2, <3>3, WithinSame
    <3>5. (job.op = "sweep" => Sweeping') /\ (job.op = "replace" => Replacing')
      BY <1>4, <1>5, <3>2, <3>4, SamplesNext
    <3>6. JobRight'
      BY <1>3, <1>4, <1>5, <3>2, <3>5, StageKeeps
    <3> QED
      BY <3>2, <3>6, NotWriting
  <2>2. CASE usable["samples"] /\ durable # kept["samples"]
    <3>1. Write([job EXCEPT !.todo = Tail(@)], "samples", durable, durable)
      BY <2>2 DEF PurgeSamples
    <3>2. /\ job' \in Job /\ job'.step = "write" /\ job'.op = job.op /\ job'.todo = rest
          /\ job'.store = "samples" /\ job'.target = durable /\ job'.day = job.day
      BY <1>2, <1>3, <1>6, <3>1, Rested, Written DEF Store
    <3>3. Busy'
      BY <3>2 DEF Busy
    <3>4. SamplesTo(d)'
      BY <1>5, <1>6, <3>2 DEF SamplesTo
    <3>5. ~SamplesWithin(d)
      BY <1>1, <2>2 DEF SamplesWithin, Projected
    <3>6. (job.op = "sweep" => Sweeping') /\ (job.op = "replace" => Replacing')
      BY <1>4, <1>5, <3>2, <3>3, <3>4, <3>5, SamplesWrite
    <3>7. JobRight'
      BY <1>3, <1>4, <1>5, <3>2, <3>6, StageKeeps
    <3>8. /\ durable \subseteq Rightful("samples") /\ \A i \in durable : Outlives(i, settings)
      BY <1>6 DEF IInv, MemoryRight, Store
    <3>9. WriteRight'
      BY <1>4, <1>5, <2>2, <3>2, <3>8, RightfulSame, HeldSame DEF WriteRight
    <3> QED
      BY <3>2, <3>7, <3>9
  <2> QED
    BY <2>1, <2>2
<1>8. Types' /\ SettingsRight' /\ FilesRight' /\ MemoryRight' /\ QueueRight'
  BY <1>4, <1>5, <1>7, SettingsSame, FilesSame, MemorySame, QueueKept DEF IInv, Types
<1>9. DiskRight'
  BY <1>3, <1>5, <1>7, DiskPlan, DiskKept
<1> QED
  BY <1>7, <1>8, <1>9 DEF IInv

\* The aggregates to keep of those in memory.
LEMMA PurgeRight ==
    ASSUME IInv, NEW d \in Doc, NEW ids, Held(ids), Narrower(d, settings.doc),
           settings.since <= job.day, job.day \in Nat
    PROVE  LET next == Reconciled(d, ids, job.day)
               durable == Projected(d, next, job.day)
           IN  /\ next \subseteq ids /\ durable \subseteq next /\ next \in SUBSET Ids
               /\ Held(next) /\ durable \subseteq Rightful("aggregates")
               /\ \A i \in durable : Outlives(i, settings)
<1> DEFINE next == Reconciled(d, ids, job.day)
           durable == Projected(d, next, job.day)
<1>1. next \subseteq ids /\ durable \subseteq next
  BY DEF Reconciled, Projected
<1>2. ids \subseteq Of("aggregates") \ forgotten /\ ids \subseteq DOMAIN events
  BY DEF Held, Of
<1>3. events \in Seq(Event) /\ Len(events) <= MaxEvent /\ settings \in Settings
  BY DEF IInv, Types
<1>4. \A i \in durable : Durable(d, events[i], job.day)
  BY DEF Projected
<1> HIDE DEF next, durable
<1>5. Held(next)
  <2>1. /\ Cardinality(Keys(next)) \in Nat /\ Cardinality(Keys(ids)) \in Nat
        /\ Cardinality(Keys(next)) <= Cardinality(Keys(ids))
    BY <1>1, <1>2, <1>3, KeysFewer
  <2>2. Cardinality(Keys(next)) <= RecordLimit
    BY <2>1, BoundsAssumption DEF Held
  <2> QED
    BY <1>1, <2>2 DEF Held
<1>6. \A i \in durable : Outlives(i, settings) /\ settings.doc.days[events[i].subject] # 0
  BY <1>1, <1>2, <1>3, <1>4, DurableOutlives
<1>7. durable \subseteq Rightful("aggregates")
  BY <1>1, <1>2, <1>6 DEF Held, Rightful
<1>8. next \in SUBSET Ids
  BY <1>1, <1>2, <1>3, EventFields
<1> QED
  BY <1>1, <1>5, <1>6, <1>7, <1>8 DEF next, durable

LEMMA AggregatesNarrower ==
    ASSUME IInv, NEW d, NEW rest, AfterAggregates(d, rest)
    PROVE  d \in Doc /\ Narrower(d, settings.doc) /\ job.op \in {"sweep", "replace"}
<1>1. settings.doc \in Doc
  BY DEF IInv, Types, Settings
<1>2. CASE d = settings.doc
  <2>1. \A s \in Subject : settings.doc.days[s] <= settings.doc.days[s]
    BY <1>1, DocFields
  <2> QED
    BY <1>1, <1>2, <2>1 DEF Narrower, AfterAggregates
<1>3. ASSUME NEW n \in Admitted, d = Floor(settings.doc, n), job.op = "replace"
      PROVE  d \in Doc /\ Narrower(d, settings.doc) /\ job.op \in {"sweep", "replace"}
  BY <1>1, <1>3, FloorRight DEF Narrower, Admitted
<1> QED
  BY <1>2, <1>3 DEF AfterAggregates

LEMMA AggregatesWrite ==
    ASSUME NEW d, NEW rest, AfterAggregates(d, rest), job'.day = job.day,
           UNCHANGED <<settings, events>>,
           job'.op = job.op, Busy', job'.todo = rest, AggregatesTo(d)',
           usable' = usable, kept' = kept, ~AggregatesWithin(d)
    PROVE  (job.op = "sweep" => Sweeping') /\ (job.op = "replace" => Replacing')
<1>1. SamplesWithin(d)'
  BY WithinSame DEF AfterAggregates
<1>2. job.op = "sweep" => Sweeping'
  BY <1>1 DEF AfterAggregates, Sweeping
<1>3. ASSUME job.op = "replace" PROVE Replacing'
  <2>1. PICK n \in Admitted : d = Floor(settings.doc, n) /\ rest = After(n)
    BY <1>3 DEF AfterAggregates
  <2>2. usable'["aggregates"] /\ WithAggregates(n)'
    BY <1>1, <1>3, <2>1 DEF AfterAggregates, WithAggregates
  <2> QED
    BY <1>3, <2>2 DEF AfterAggregates, Replacing, Admitted
<1> QED
  BY <1>2, <1>3

LEMMA PurgeAggregatesKeeps == ASSUME IInv, PurgeAggregates PROVE IInv'
<1>1. PICK d : d = Head(job.todo).doc
  OBVIOUS
<1>2. PICK rest : rest = Tail(job.todo)
  OBVIOUS
<1>3. PICK next : next = Reconciled(d, memory, job.day)
  OBVIOUS
<1>4. PICK durable : durable = Projected(d, next, job.day)
  OBVIOUS
<1>5. /\ job.step = "plan" /\ ~Busy /\ job.todo # <<>> /\ job \in Job /\ rest \in Seq(Task)
      /\ job.day \in Nat /\ settings.since <= job.day /\ job.day <= today
  BY <1>2, PlanningRight DEF PurgeAggregates
<1>6. /\ AfterAggregates(d, rest) /\ job.op \in {"sweep", "replace"}
      /\ d \in Doc /\ Narrower(d, settings.doc)
  BY <1>1, <1>2, PurgeAggregatesStage, AggregatesNarrower DEF PurgeAggregates
<1>7. UNCHANGED <<settings, kept, usable, file, data, queue, today, events, faults, forgotten>>
  BY DEF PurgeAggregates, UNCHANGEDworld
<1>8. MemoryRight /\ Held(memory) /\ kept["aggregates"] \subseteq memory
      /\ (~usable["aggregates"] => memory = {})
  BY DEF IInv, MemoryRight
<1>9. /\ next \subseteq memory /\ durable \subseteq next /\ next \in SUBSET Ids
      /\ Held(next) /\ durable \subseteq Rightful("aggregates")
      /\ \A i \in durable : Outlives(i, settings)
  BY <1>3, <1>4, <1>5, <1>6, <1>8, PurgeRight
<1>10. \A i \in next : Live(d, events[i], job.day)
  BY <1>3 DEF Reconciled
<1>11. /\ job' \in Job /\ WriteRight' /\ JobRight' /\ memory' \in SUBSET Ids /\ MemoryRight'
       /\ job'.step \in {"plan", "write"}
       /\ job'.op \in {"idle", job.op}
  <2>1. CASE ~usable["aggregates"] \/ durable = kept["aggregates"]
    <3>1. memory' = next /\ Resume(rest)
      BY <1>1, <1>2, <1>3, <1>4, <2>1 DEF PurgeAggregates
    <3>2. /\ job' \in Job /\ job'.step = "plan"
          /\ rest = <<>> => job' = Blank /\ job'.op = "idle"
          /\ rest # <<>> => job'.op = job.op /\ job'.todo = rest /\ job'.day = job.day
      BY <1>5, <3>1, Resumed
    <3>3. ASSUME rest # <<>> PROVE JobRight'
      <4>1. AggregatesWithin(d)'
        BY <1>4, <1>7, <1>10, <2>1, <3>1, <3>2, <3>3 DEF AggregatesWithin, Projected
      <4>2. (job.op = "sweep" => Sweeping') /\ (job.op = "replace" => Replacing')
        BY <1>6, <1>7, <3>2, <3>3, <4>1, AggregatesNext
      <4> QED
        BY <1>5, <1>6, <1>7, <3>2, <3>3, <4>2, StageKeeps
    <3>4. JobRight'
      BY <3>2, <3>3, BlankKeeps
    <3>5. Held(memory)'
      BY <1>7, <1>9, <3>1, RightfulSame DEF Held
    <3>6. kept["aggregates"] \subseteq next /\ (~usable["aggregates"] => next = {})
      BY <1>8, <1>9, <2>1
    <3>7. MemoryRight'
      BY <1>7, <1>8, <3>1, <3>5, <3>6, RightfulSame, HeldSame DEF MemoryRight
    <3> QED
      BY <1>9, <3>1, <3>2, <3>4, <3>7, NotWriting
  <2>2. CASE usable["aggregates"] /\ durable # kept["aggregates"]
    <3>1. /\ Write([job EXCEPT !.todo = Tail(@)], "aggregates", durable, next)
          /\ UNCHANGED memory
      BY <1>1, <1>3, <1>4, <2>2 DEF PurgeAggregates
    <3>2. /\ job' \in Job /\ job'.step = "write" /\ job'.op = job.op /\ job'.todo = rest
          /\ job'.store = "aggregates" /\ job'.target = durable /\ job'.next = next
          /\ job'.day = job.day
      BY <1>2, <1>5, <1>9, <3>1, Rested, Written DEF Store
    <3>3. Busy'
      BY <3>2 DEF Busy
    <3>4. AggregatesTo(d)'
      BY <1>4, <1>7, <1>10, <3>2 DEF AggregatesTo, Projected
    <3>5. ~AggregatesWithin(d)
      <4>1. (\A i \in memory : Live(d, events[i], job.day)) => next = memory
        BY <1>3 DEF Reconciled
      <4> QED
        BY <1>4, <2>2, <4>1 DEF AggregatesWithin
    <3>6. (job.op = "sweep" => Sweeping') /\ (job.op = "replace" => Replacing')
      BY <1>6, <1>7, <3>2, <3>3, <3>4, <3>5, AggregatesWrite
    <3>7. JobRight'
      BY <1>5, <1>6, <1>7, <3>2, <3>6, StageKeeps
    <3>8. Held(next)' /\ \A i : Outlives(i, settings) <=> Outlives(i, settings)'
      BY <1>7, <1>9, HeldSame
    <3>9. WriteRight'
      BY <1>6, <1>7, <1>9, <2>2, <3>2, <3>8, RightfulSame DEF WriteRight, Held
    <3>10. MemoryRight' /\ memory' \in SUBSET Ids
      BY <1>7, <1>8, <3>1, MemorySame DEF IInv, Types
    <3> QED
      BY <3>2, <3>7, <3>9, <3>10
  <2> QED
    BY <2>1, <2>2
<1>12. Types' /\ SettingsRight' /\ FilesRight' /\ QueueRight'
  BY <1>6, <1>7, <1>11, SettingsSame, FilesSame, QueueKept DEF IInv, Types
<1>13. DiskRight'
  BY <1>5, <1>7, <1>11, DiskPlan, DiskKept
<1> QED
  BY <1>11, <1>12, <1>13 DEF IInv

LEMMA OpeningStage ==
    ASSUME IInv, NEW st \in Store, Planning("open", st)
    PROVE  /\ job.op = "open" /\ Opening /\ Head(job.todo).doc = settings.doc
           /\ settings = file.now /\ ~usable["samples"] /\ kept["samples"] = {} /\ queue = <<>>
           /\ st = "aggregates" => /\ Tail(job.todo) = <<Open("samples", settings.doc)>>
                                   /\ ~usable["aggregates"] /\ memory = {}
                                   /\ kept["aggregates"] = {}
           /\ st = "samples" => Tail(job.todo) = <<>>
<1>1. /\ job.step = "plan" /\ ~Busy /\ job.todo # <<>> /\ job \in Job /\ JobRight
      /\ job.op \in {"open", "sweep", "replace"}
      /\ Head(job.todo).do = "open" /\ Head(job.todo).store = st
  BY PlanningRight DEF Planning, IInv
<1>2. job.op # "sweep"
  BY <1>1, Todos, Tasks, Lists DEF JobRight, Sweeping
<1>3. job.op # "replace"
  <2>1. ASSUME NEW n, WithAggregates(n) PROVE FALSE
    BY <1>1, <2>1, Todos, Tasks DEF WithAggregates
  <2>2. ASSUME NEW n, WithoutAggregates(n) PROVE FALSE
    BY <1>1, <2>2, Todos, Tasks, Lists DEF WithoutAggregates
  <2>3. ASSUME Enforced PROVE FALSE
    BY <1>1, <2>3, Todos, Tasks DEF Enforced
  <2> QED
    BY <1>1, <2>1, <2>2, <2>3 DEF JobRight, Replacing
<1>4. job.op = "open" /\ Opening
  BY <1>1, <1>2, <1>3 DEF JobRight
<1>5. \/ /\ ~usable["aggregates"]
         /\ job.todo = <<Open("aggregates", settings.doc), Open("samples", settings.doc)>>
      \/ job.todo = <<Open("samples", settings.doc)>>
  BY <1>1, <1>4 DEF Opening
<1>6. /\ settings = file.now /\ ~usable["samples"]
      /\ kept["samples"] = {} /\ queue = <<>>
      /\ ~usable["aggregates"] => memory = {} /\ kept["aggregates"] = {}
  BY <1>4 DEF Opening, IInv, MemoryRight, QueueRight
<1>7. CASE job.todo = <<Open("samples", settings.doc)>>
  <2>1. /\ Head(job.todo) = Open("samples", settings.doc) /\ Tail(job.todo) = <<>>
        /\ st = "samples"
    BY <1>1, <1>7, Lists, Tasks
  <2> QED
    BY <1>4, <1>6, <2>1, Tasks
<1>8. CASE /\ ~usable["aggregates"]
           /\ job.todo = <<Open("aggregates", settings.doc), Open("samples", settings.doc)>>
  <2>1. /\ Head(job.todo) = Open("aggregates", settings.doc)
        /\ Tail(job.todo) = <<Open("samples", settings.doc)>> /\ st = "aggregates"
    BY <1>1, <1>8, Lists, Tasks
  <2> QED
    BY <1>4, <1>6, <1>8, <2>1, Tasks
<1> QED
  BY <1>5, <1>7, <1>8

\* What a file may hold, an opened store may hold in memory.
LEMMA NowHeld == ASSUME IInv PROVE Held(data.now.aggregates)
  BY NowRight DEF Held, Rightful

LEMMA SelfNarrower == ASSUME IInv PROVE settings.doc \in Doc /\ Narrower(settings.doc, settings.doc)
<1>1. settings.doc \in Doc
  BY DEF IInv, Types, Settings
<1>2. \A s \in Subject : settings.doc.days[s] <= settings.doc.days[s]
  BY <1>1, DocFields
<1> QED
  BY <1>1, <1>2 DEF Narrower

LEMMA OpenAggregatesKeeps == ASSUME IInv, OpenAggregates PROVE IInv'
<1>1. PICK d : d = Head(job.todo).doc
  OBVIOUS
<1>2. PICK next : next = Reconciled(d, data.now.aggregates, job.day)
  OBVIOUS
<1>3. PICK durable : durable = Projected(d, next, job.day)
  OBVIOUS
<1>4. /\ job.step = "plan" /\ ~Busy /\ job.todo # <<>> /\ job \in Job
      /\ job.day \in Nat /\ settings.since <= job.day /\ job.day <= today
  BY PlanningRight DEF OpenAggregates
<1>5. /\ job.op = "open" /\ d = settings.doc /\ settings = file.now /\ ~usable["samples"]
      /\ Tail(job.todo) = <<Open("samples", settings.doc)>> /\ ~usable["aggregates"]
  BY <1>1, OpeningStage DEF OpenAggregates, Store
<1>6. /\ UNCHANGED <<settings, memory, kept, usable, file, data, queue, today, events, faults,
                     forgotten>>
      /\ Write([job EXCEPT !.todo = Tail(@)], "aggregates", durable, next)
  BY <1>1, <1>2, <1>3 DEF OpenAggregates, UNCHANGEDstores, UNCHANGEDworld
<1>7. /\ durable \subseteq next /\ next \in SUBSET Ids
      /\ Held(next) /\ durable \subseteq Rightful("aggregates")
      /\ \A i \in durable : Outlives(i, settings)
  BY <1>2, <1>3, <1>4, <1>5, NowHeld, SelfNarrower, PurgeRight
<1>8. /\ job' \in Job /\ job'.step = "write" /\ job'.op = "open"
      /\ job'.todo = <<Open("samples", settings.doc)>> /\ job'.id = job.id
      /\ job'.store = "aggregates" /\ job'.target = durable /\ job'.next = next
      /\ job'.day = job.day
  <2>1. PICK j : j = [job EXCEPT !.todo = Tail(@)]
    OBVIOUS
  <2>2. /\ j \in Job /\ j.op = "open" /\ j.todo = <<Open("samples", settings.doc)>>
        /\ j.id = job.id /\ j.day = job.day
    BY <1>4, <1>5, <2>1, Rested
  <2>3. Write(j, "aggregates", durable, next) /\ durable \in SUBSET Ids /\ next \in SUBSET Ids
    BY <1>6, <1>7, <2>1
  <2> QED
    BY <2>2, <2>3, Written DEF Store
<1>9. Held(next)' /\ \A i : Outlives(i, settings) <=> Outlives(i, settings)'
  BY <1>6, <1>7, HeldSame
<1>10. WriteRight'
  BY <1>6, <1>7, <1>8, <1>9, RightfulSame DEF WriteRight, Held
<1>11. JobRight'
  BY <1>4, <1>5, <1>6, <1>8 DEF JobRight, Opening, Busy
<1>12. Types' /\ SettingsRight' /\ FilesRight' /\ MemoryRight' /\ QueueRight'
  BY <1>5, <1>6, <1>8, SettingsSame, FilesSame, MemorySame, QueueKept DEF IInv, Types
<1>13. DiskRight'
  BY <1>4, <1>6, <1>8, DiskPlan, DiskKept
<1> QED
  BY <1>8, <1>10, <1>11, <1>12, <1>13 DEF IInv

LEMMA OpenSamplesKeeps == ASSUME IInv, OpenSamples PROVE IInv'
<1>1. PICK durable : durable = Projected(settings.doc, data.now.samples, job.day)
  OBVIOUS
<1>2. /\ job.step = "plan" /\ ~Busy /\ job.todo # <<>> /\ job \in Job
      /\ job.day \in Nat /\ settings.since <= job.day /\ job.day <= today
  BY PlanningRight DEF OpenSamples
<1>3. /\ job.op = "open" /\ Head(job.todo).doc = settings.doc /\ settings = file.now
      /\ ~usable["samples"] /\ Tail(job.todo) = <<>>
  BY OpeningStage DEF OpenSamples, Store
<1>4. UNCHANGED <<settings, memory, file, data, queue, today, events, faults, forgotten>>
  BY DEF OpenSamples, UNCHANGEDworld
<1>5. durable \subseteq Rightful("samples") /\ durable \in SUBSET Ids
      /\ \A i \in durable : Durable(settings.doc, events[i], job.day)
  BY <1>1, NowRight DEF Projected
<1>6. \A i \in durable : Outlives(i, settings)
  <2>1. events \in Seq(Event) /\ Len(events) <= MaxEvent /\ settings \in Settings
    BY DEF IInv, Types
  <2>2. durable \subseteq DOMAIN events
    BY <1>5 DEF Rightful, Of
  <2> QED
    BY <1>2, <1>5, <2>1, <2>2, SelfNarrower, DurableOutlives
<1>7. MemoryRight /\ kept \in [Store -> SUBSET Ids] /\ usable \in [Store -> BOOLEAN]
  BY DEF IInv, Types
<1>8. /\ kept' \in [Store -> SUBSET Ids] /\ usable' \in [Store -> BOOLEAN]
      /\ job' \in Job /\ job'.op \in {"idle", job.op} /\ job'.id \in {0, job.id}
      /\ MemoryRight' /\ JobRight' /\ WriteRight' /\ job'.step \in {"plan", "write"}
      /\ usable'["aggregates"] = usable["aggregates"] /\ kept'["aggregates"] = kept["aggregates"]
  <2>1. CASE durable = data.now.samples
    <3>1. /\ kept' = [kept EXCEPT !["samples"] = durable]
          /\ usable' = [usable EXCEPT !["samples"] = TRUE] /\ Resume(<<>>)
      BY <1>1, <1>3, <2>1 DEF OpenSamples
    <3>2. job' = Blank /\ job'.id = 0
      BY <3>1 DEF Resume, Blank
    <3>3. /\ kept' \in [Store -> SUBSET Ids] /\ usable' \in [Store -> BOOLEAN]
          /\ kept'["samples"] = durable /\ usable'["samples"]
          /\ kept'["aggregates"] = kept["aggregates"] /\ usable'["aggregates"] = usable["aggregates"]
      BY <1>5, <1>7, <3>1 DEF Store
    <3>4. Held(memory)'
      BY <1>4, <1>7, RightfulSame DEF Held, MemoryRight
    <3>5. MemoryRight'
      BY <1>4, <1>5, <1>6, <1>7, <3>3, <3>4, RightfulSame, HeldSame DEF MemoryRight, Store
    <3> QED
      BY <3>2, <3>3, <3>5, BlankKeeps, NotWriting
  <2>2. CASE durable # data.now.samples
    <3>1. /\ Write([job EXCEPT !.todo = Tail(@)], "samples", durable, durable)
          /\ UNCHANGED <<kept, usable>>
      BY <1>1, <1>3, <2>2 DEF OpenSamples
    <3>2. /\ job' \in Job /\ job'.step = "write" /\ job'.op = "open" /\ job'.todo = <<>>
          /\ job'.store = "samples" /\ job'.target = durable /\ job'.day = job.day
          /\ job'.id = job.id
      BY <1>2, <1>3, <1>5, <3>1, Rested, Written DEF Store
    <3>3. WriteRight'
      BY <1>4, <1>5, <1>6, <3>2, RightfulSame, HeldSame DEF WriteRight
    <3>4. JobRight'
      BY <1>2, <1>3, <1>4, <3>1, <3>2 DEF JobRight, Opening, Busy
    <3>5. MemoryRight'
      BY <1>4, <1>7, <3>1, MemorySame
    <3> QED
      BY <1>3, <1>7, <3>1, <3>2, <3>3, <3>4, <3>5
  <2> QED
    BY <2>1, <2>2
<1>9. job'.op = "open" => job'.op = job.op
  BY <1>8
<1>10. Types' /\ SettingsRight' /\ FilesRight'
  BY <1>3, <1>4, <1>8, SettingsSame, FilesSame DEF IInv, Types
<1>11. QueueRight'
  BY <1>3, <1>4, <1>8, RightfulSame DEF IInv, QueueRight
<1>12. DiskRight'
  BY <1>2, <1>4, <1>8, DiskPlan, DiskKept
<1> QED
  BY <1>8, <1>10, <1>11, <1>12 DEF IInv

LEMMA OpenUnreadableKeeps == ASSUME IInv, NEW st \in Store, OpenUnreadable(st) PROVE IInv'
<1>1. /\ job.step = "plan" /\ ~Busy /\ job.todo # <<>> /\ job \in Job
      /\ Tail(job.todo) \in Seq(Task)
      /\ job.day \in Nat /\ settings.since <= job.day /\ job.day <= today
  BY PlanningRight DEF OpenUnreadable
<1>2. /\ job.op = "open" /\ settings = file.now /\ ~usable["samples"] /\ queue = <<>>
      /\ st = "aggregates" => Tail(job.todo) = <<Open("samples", settings.doc)>>
      /\ st = "samples" => Tail(job.todo) = <<>>
  BY OpeningStage DEF OpenUnreadable
<1>3. /\ UNCHANGED <<settings, memory, kept, usable, file, data, queue, today, events, forgotten>>
      /\ Resume(Tail(job.todo)) /\ Fails
  BY DEF OpenUnreadable, UNCHANGEDstores, Fails
<1>4. /\ job' \in Job /\ job'.step = "plan"
      /\ Tail(job.todo) = <<>> => job' = Blank /\ job'.op = "idle"
      /\ Tail(job.todo) # <<>> =>
            job'.op = job.op /\ job'.todo = Tail(job.todo) /\ job'.day = job.day
  BY <1>1, <1>3, Resumed
<1>5. job'.op \in {"idle", "open"}
  BY <1>2, <1>4
<1>6. JobRight'
  <2>1. CASE st = "samples"
    BY <1>2, <1>4, <2>1, BlankKeeps
  <2>2. CASE st = "aggregates"
    <3>1. Tail(job.todo) = <<Open("samples", settings.doc)>> /\ Tail(job.todo) # <<>>
      BY <1>2, <2>2, Lists
    <3> QED
      BY <1>1, <1>2, <1>3, <1>4, <3>1 DEF JobRight, Opening
  <2> QED
    BY <2>1, <2>2 DEF Store
<1>7. Types'
  BY <1>3, <1>4, FaultsRight DEF IInv, Types
<1>8. SettingsRight' /\ FilesRight' /\ MemoryRight'
  BY <1>2, <1>3, <1>5, SettingsSame, FilesSame, MemorySame DEF IInv
<1>9. QueueRight'
  BY <1>2, <1>3, <1>5, RightfulSame DEF IInv, QueueRight
<1>10. DiskRight'
  BY <1>1, <1>3, <1>4, DiskPlan, DiskKept
<1> QED
  BY <1>4, <1>6, <1>7, <1>8, <1>9, <1>10, NotWriting DEF IInv

\* The last look of a snapshot's sweep.
LEMMA InspectStage ==
    ASSUME IInv, Planning("inspect", "aggregates")
    PROVE  /\ job.op = "sweep" /\ Tail(job.todo) = <<>>
           /\ SamplesWithin(settings.doc) /\ AggregatesWithin(settings.doc)
<1>1. /\ job.step = "plan" /\ ~Busy /\ job.todo # <<>> /\ job \in Job /\ JobRight
      /\ job.op \in {"open", "sweep", "replace"} /\ Head(job.todo).do = "inspect"
  BY PlanningRight DEF Planning, IInv
<1>2. job.op # "open"
  BY <1>1, Tasks, Lists DEF JobRight, Opening
<1>3. job.op # "replace"
  <2>1. ASSUME NEW n, WithAggregates(n) PROVE FALSE
    BY <1>1, <2>1, Todos, Tasks DEF WithAggregates
  <2>2. ASSUME NEW n, WithoutAggregates(n) PROVE FALSE
    BY <1>1, <2>2, Todos, Tasks, Lists DEF WithoutAggregates
  <2>3. ASSUME Enforced PROVE FALSE
    BY <1>1, <2>3, Todos, Tasks DEF Enforced
  <2> QED
    BY <1>1, <2>1, <2>2, <2>3 DEF JobRight, Replacing
<1>4. job.op = "sweep" /\ Sweeping
  BY <1>1, <1>2, <1>3 DEF JobRight
<1>5. /\ job.todo = <<Inspect>>
      /\ SamplesWithin(settings.doc) /\ AggregatesWithin(settings.doc)
  <2>1. Head(job.todo) # Purge("samples", settings.doc)
        /\ Head(job.todo) # Purge("aggregates", settings.doc)
    BY <1>1, Tasks
  <2>2. job.todo \notin {Both(settings.doc), BothLook(settings.doc), Last(settings.doc),
                        LastLook(settings.doc)}
    BY <2>1, Todos
  <2> QED
    BY <1>1, <1>4, <2>2 DEF Sweeping
<1> QED
  BY <1>4, <1>5, Lists

LEMMA InspectStoreKeeps == ASSUME IInv, InspectStore PROVE IInv'
<1>1. job.op = "sweep" /\ Tail(job.todo) = <<>> /\ job.step = "plan"
  BY InspectStage DEF InspectStore, Planning
<1>2. /\ UNCHANGED <<settings, memory, kept, usable, file, data, queue, today, events, faults,
                     forgotten>>
      /\ job' = Blank
  BY <1>1 DEF InspectStore, UNCHANGEDstores, UNCHANGEDworld, Resume
<1>3. job' \in Job /\ job'.op = "idle" /\ job'.step = "plan" /\ JobRight'
  BY <1>2, BlankKeeps
<1>4. Types' /\ SettingsRight' /\ FilesRight' /\ MemoryRight' /\ QueueRight'
  BY <1>1, <1>2, <1>3, SettingsSame, FilesSame, MemorySame, QueueKept DEF IInv, Types
<1>5. DiskRight'
  BY <1>1, <1>2, <1>3, DiskPlan, DiskKept
<1> QED
  BY <1>3, <1>4, <1>5, NotWriting DEF IInv

LEMMA InspectFailsKeeps == ASSUME IInv, InspectFails PROVE IInv'
<1>1. job.op = "sweep" /\ Tail(job.todo) = <<>> /\ job.step = "plan"
  BY InspectStage DEF InspectFails, Planning
<1>2. /\ UNCHANGED <<settings, file, data, queue, today, events, forgotten>> /\ Fails
      /\ job' = Blank /\ memory' = {}
      /\ kept' = [kept EXCEPT !["aggregates"] = {}]
      /\ usable' = [usable EXCEPT !["aggregates"] = FALSE]
  BY <1>1 DEF InspectFails, Resume, Fails
<1>3. job' \in Job /\ job'.op = "idle" /\ job'.step = "plan" /\ JobRight'
  BY <1>2, BlankKeeps
<1>4. /\ MemoryRight /\ kept \in [Store -> SUBSET Ids] /\ usable \in [Store -> BOOLEAN]
  BY DEF IInv, Types
<1>5. /\ kept' \in [Store -> SUBSET Ids] /\ usable' \in [Store -> BOOLEAN]
      /\ kept'["aggregates"] = {} /\ kept'["samples"] = kept["samples"]
      /\ ~usable'["aggregates"] /\ usable'["samples"] = usable["samples"]
  BY <1>2, <1>4 DEF Store
<1>6. Held(memory)'
  BY <1>2, EmptyRight DEF Held, Keys
<1>7. MemoryRight'
  BY <1>2, <1>4, <1>5, <1>6, RightfulSame, HeldSame DEF MemoryRight, Store
<1>8. Types'
  BY <1>2, <1>3, <1>5, FaultsRight DEF IInv, Types
<1>9. SettingsRight' /\ FilesRight' /\ QueueRight'
  BY <1>1, <1>2, <1>3, SettingsSame, FilesSame, QueueKept DEF IInv
<1>10. DiskRight'
  BY <1>3, <1>5, DiskKept
<1> QED
  BY <1>3, <1>7, <1>8, <1>9, <1>10, NotWriting DEF IInv

-----------------------------------------------------------------------------
(* The commit of a document                                                *)

\* What its floor forbids has gone when a document is committed.
Cleared(n) ==
    \/ /\ usable["aggregates"] /\ job.todo = After(n)
       /\ SamplesWithin(Floor(settings.doc, n)) /\ AggregatesWithin(Floor(settings.doc, n))
    \/ ~usable["aggregates"] /\ job.todo = <<Commit(n)>> /\ SamplesWithin(n)

LEMMA CommitStage ==
    ASSUME IInv, Planning("commit", "aggregates") \/ job.step = "settle"
    PROVE  /\ job.op = "replace" /\ settings.rev < MaxRev /\ job.step \in {"plan", "settle"}
           /\ \E n \in Admitted :
                /\ Cleared(n) /\ Head(job.todo).doc = n
                /\ job.step = "settle" =>
                    file.now = [rev |-> settings.rev + 1, doc |-> n, since |-> job.day]
<1>1. job \in Job /\ JobRight /\ job.step \in {"plan", "settle"} /\ ~Busy
  BY DEF IInv, Types, Planning, Busy
<1>2. job.op \notin {"signal", "sample", "clear", "forget"}
  BY <1>1 DEF JobRight, Signalling, Clearing, Forgetting
<1>3. job.op \notin {"idle", "down"}
  BY <1>1, BlankRight DEF JobRight, Planning, Blank, Down
<1>4. job.step = "settle" \/ Head(job.todo).do = "commit"
  BY DEF Planning
<1>5. job.op # "open"
  BY <1>1, <1>4, Tasks, Lists DEF JobRight, Opening
<1>6. job.op # "sweep"
  BY <1>1, <1>4, Todos, Tasks, Lists DEF JobRight, Sweeping
<1>7. job.op = "replace" /\ Replacing
  BY <1>1, <1>2, <1>3, <1>5, <1>6 DEF Job, JobRight
<1>8. ~Enforced
  BY <1>4, Todos, Tasks DEF Enforced
<1>9. PICK n \in Admitted :
        /\ settings.rev < MaxRev
        /\ \/ usable["aggregates"] /\ WithAggregates(n)
           \/ ~usable["aggregates"] /\ WithoutAggregates(n)
  BY <1>7, <1>8 DEF Replacing
<1>10. CASE usable["aggregates"] /\ WithAggregates(n)
  <2>1. PICK f : f = Floor(settings.doc, n)
    OBVIOUS
  <2>2. job.todo # Whole(f, n) \/ job.step # "plan"
    BY <1>4, Todos, Tasks
  <2>3. job.todo # Rest(f, n) \/ job.step # "plan"
    BY <1>4, Todos, Tasks
  <2>4. Committing(n) /\ SamplesWithin(f) /\ AggregatesWithin(f) /\ job.todo = After(n)
    BY <1>1, <1>10, <2>1, <2>2, <2>3 DEF WithAggregates
  <2>5. Head(job.todo).doc = n
    BY <2>4, Todos, Tasks
  <2> QED
    BY <1>1, <1>7, <1>9, <1>10, <2>1, <2>4, <2>5 DEF Cleared, Committing
<1>11. CASE ~usable["aggregates"] /\ WithoutAggregates(n)
  <2>1. job.todo # First(n) \/ job.step # "plan"
    BY <1>4, Todos, Tasks
  <2>2. Committing(n) /\ SamplesWithin(n) /\ job.todo = <<Commit(n)>>
    BY <1>1, <1>11, <2>1 DEF WithoutAggregates
  <2>3. Head(job.todo).doc = n
    BY <2>2, Lists, Tasks
  <2> QED
    BY <1>1, <1>7, <1>9, <1>11, <2>2, <2>3 DEF Cleared, Committing
<1> QED
  BY <1>9, <1>10, <1>11

\* An operation that ends with nothing changed.
LEMMA ReleaseKeeps ==
    ASSUME IInv, job' = Blank, job.op # "down", job.step \in {"plan", "settle"},
           UNCHANGED <<settings, memory, kept, usable, file, data, queue, today, events, forgotten>>,
           faults' = faults \/ Fails
    PROVE  IInv'
<1>1. job' \in Job /\ job'.op = "idle" /\ job'.step = "plan" /\ JobRight'
  BY BlankKeeps
<1>2. Types'
  BY <1>1, FaultsRight DEF IInv, Types
<1>3. SettingsRight' /\ FilesRight' /\ MemoryRight' /\ QueueRight'
  BY <1>1, SettingsSame, FilesSame, MemorySame, QueueKept DEF IInv
<1>4. DiskRight'
  BY <1>1, DiskPlan, DiskKept
<1> QED
  BY <1>1, <1>2, <1>3, <1>4, NotWriting DEF IInv

LEMMA CommitConflictKeeps == ASSUME IInv, CommitConflict PROVE IInv'
  BY CommitStage, ReleaseKeeps DEF CommitConflict, UNCHANGEDstores, UNCHANGEDworld

LEMMA CommitFailsKeeps == ASSUME IInv, CommitFails PROVE IInv'
  BY CommitStage, ReleaseKeeps DEF CommitFails, UNCHANGEDstores, Fails

LEMMA SettleFailsKeeps == ASSUME IInv, SettleFails PROVE IInv'
  BY CommitStage, ReleaseKeeps DEF SettleFails, UNCHANGEDstores, Fails

LEMMA CommitSettingsKeeps == ASSUME IInv, CommitSettings PROVE IInv'
<1>1. PICK n \in Admitted : Cleared(n) /\ Head(job.todo).doc = n
  BY CommitStage DEF CommitSettings
<1>2. PICK next : next = [rev |-> settings.rev + 1, doc |-> n, since |-> job.day]
  OBVIOUS
<1>3. /\ job.op = "replace" /\ settings.rev < MaxRev /\ job.step = "plan"
      /\ job.day \in 0 .. MaxDay /\ settings.since <= job.day /\ job.day <= today /\ job \in Job
  BY CommitStage, PlanningRight, JobFields DEF CommitSettings, Planning
<1>4. /\ file.now.rev = settings.rev
      /\ file' = [now |-> next, may |-> file.may \cup {next}] /\ Step("settle")
      /\ UNCHANGED <<settings, memory, kept, usable, data, queue, today, events, faults, forgotten>>
  BY <1>1, <1>2 DEF CommitSettings, UNCHANGEDstores, UNCHANGEDworld
<1>5. /\ job' \in Job /\ job'.step = "settle" /\ job'.op = "replace" /\ job'.todo = job.todo
      /\ job'.id = job.id /\ job'.day = job.day
  BY <1>3, <1>4, StepRight
<1>6. settings \in Settings /\ settings.rev \in Nat /\ file.may \subseteq Settings
      /\ events \in Seq(Event) /\ Len(events) <= MaxEvent
  BY BoundsAssumption DEF IInv, Types, Settings
<1>7. /\ next \in Settings /\ next.rev = settings.rev + 1 /\ next.doc = n /\ next.since = job.day
      /\ Valid(next.doc)
  BY <1>1, <1>2, <1>3, <1>6, BoundsAssumption DEF Settings, Admitted
<1>8. file.may = {settings} /\ file.now = settings
  <2>1. PICK old \in Settings :
          /\ file.may = {old, file.now} /\ (old = file.now \/ file.now.rev = old.rev + 1)
          /\ job.op # "down" => settings = old
    BY DEF IInv, SettingsRight
  <2>2. settings = old
    BY <1>3, <2>1
  <2> QED
    BY <1>4, <1>6, <2>1, <2>2
<1>9. file'.may = {settings, next} /\ file'.now = next
  BY <1>4, <1>8
<1>10. Types'
  BY <1>4, <1>5, <1>6, <1>7, <1>9 DEF IInv, Types
<1>11. SettingsRight'
  <2>1. \E old \in Settings :
          /\ file'.may = {old, file'.now}
          /\ old = file'.now \/ file'.now.rev = old.rev + 1
          /\ job'.op # "down" => settings' = old
    BY <1>4, <1>6, <1>7, <1>9
  <2>2. \A f \in file'.may \cup {settings'} : Valid(f.doc) /\ f.since <= today'
    BY <1>3, <1>4, <1>7, <1>8, <1>9 DEF IInv, SettingsRight
  <2>3. ASSUME NEW i \in DOMAIN events
        PROVE  /\ events[i].day <= today
               /\ \A f \in file'.may :
                    /\ events[i].rev <= f.rev
                    /\ events[i].rev = f.rev =>
                        (events[i].keep <=> f.doc.days[events[i].subject] # 0)
    <3>1. /\ events[i].day <= today /\ events[i].rev <= settings.rev /\ events[i].rev \in Nat
          /\ events[i].rev = settings.rev =>
              (events[i].keep <=> settings.doc.days[events[i].subject] # 0)
      BY <1>6, <1>8, EventFields DEF IInv, SettingsRight
    <3>2. events[i].rev < next.rev /\ events[i].rev <= next.rev
      BY <1>6, <1>7, <3>1
    <3>3. events[i].rev # next.rev
      BY <1>6, <1>7, <3>1
    <3> QED
      BY <1>9, <3>1, <3>2, <3>3
  <2> QED
    BY <1>4, <2>1, <2>2, <2>3 DEF SettingsRight
<1>12. JobRight'
  <2>1. \A d : (SamplesWithin(d) => SamplesWithin(d)') /\ (AggregatesWithin(d) => AggregatesWithin(d)')
    BY <1>4, <1>5, WithinSame
  <2>2. Committing(n)'
    BY <1>2, <1>4, <1>5, <1>9 DEF Committing
  <2>3. \/ usable'["aggregates"] /\ WithAggregates(n)'
        \/ ~usable'["aggregates"] /\ WithoutAggregates(n)'
    BY <1>1, <1>4, <1>5, <2>1, <2>2 DEF Cleared, WithAggregates, WithoutAggregates
  <2>4. Replacing'
    BY <1>3, <1>4, <2>3 DEF Replacing, Admitted
  <2> QED
    BY <1>3, <1>4, <1>5, <2>4, StageKeeps
<1>13. FilesRight' /\ MemoryRight' /\ QueueRight'
  BY <1>3, <1>4, <1>5, FilesSame, MemorySame, QueueKept DEF IInv
<1>14. DiskRight'
  BY <1>3, <1>4, <1>5, DiskPlan, DiskKept
<1> QED
  BY <1>5, <1>10, <1>11, <1>12, <1>13, <1>14, NotWriting DEF IInv

\* What is within the floor is within the document that is now in force.
LEMMA ClearedRight ==
    ASSUME IInv, NEW n \in Admitted, Cleared(n), job.day \in Nat
    PROVE  /\ \A st \in Store : \A i \in kept[st] : Durable(n, events[i], job.day)
           /\ \A i \in memory : /\ Live(n, events[i], job.day)
                                /\ n.days[events[i].subject] # 0 => events[i].keep
           /\ usable["aggregates"] => kept["aggregates"] = Projected(n, memory, job.day)
<1>1. /\ settings.doc \in Doc /\ n \in Doc /\ events \in Seq(Event) /\ Len(events) <= MaxEvent
      /\ MemoryRight
  BY DEF IInv, Types, Settings, Admitted
<1>2. /\ \A st \in Store : kept[st] \subseteq Rightful(st)
      /\ \A i \in memory : settings.doc.days[events[i].subject] # 0 => events[i].keep
      /\ memory \subseteq Of("aggregates") /\ kept["aggregates"] \subseteq memory
      /\ ~usable["aggregates"] => memory = {}
      /\ ~usable["samples"] => kept["samples"] = {}
  BY <1>1 DEF MemoryRight, Held
<1>3. \A st \in Store : kept[st] \subseteq DOMAIN events
  BY <1>2 DEF Rightful, Of
<1>4. memory \subseteq DOMAIN events /\ \A i \in DOMAIN events : events[i] \in Event
  BY <1>1, <1>2, EventFields DEF Of
<1>5. CASE usable["aggregates"]
  <2>1. PICK f : f = Floor(settings.doc, n)
    OBVIOUS
  <2>2. SamplesWithin(f) /\ AggregatesWithin(f)
    BY <1>5, <2>1 DEF Cleared
  <2>3. \A i \in DOMAIN events :
          /\ Live(f, events[i], job.day) => Live(n, events[i], job.day)
          /\ Live(f, events[i], job.day) =>
               (n.days[events[i].subject] # 0 => settings.doc.days[events[i].subject] # 0)
          /\ Durable(f, events[i], job.day) => Durable(n, events[i], job.day)
          /\ Live(f, events[i], job.day) /\ Durable(n, events[i], job.day) =>
               Durable(f, events[i], job.day)
    BY <1>1, <1>4, <2>1, FloorNarrows
  <2>4. /\ \A i \in memory : Live(f, events[i], job.day)
        /\ kept["aggregates"] = Projected(f, memory, job.day)
    BY <1>5, <2>2 DEF AggregatesWithin
  <2>5. Projected(n, memory, job.day) = Projected(f, memory, job.day)
    BY <1>4, <2>3, <2>4 DEF Projected
  <2>6. \A i \in kept["aggregates"] : Durable(n, events[i], job.day)
    BY <2>4, <2>5 DEF Projected
  <2>7. \A i \in kept["samples"] : Durable(n, events[i], job.day)
    BY <1>2, <1>3, <2>2, <2>3 DEF SamplesWithin, Store
  <2>8. \A i \in memory : Live(n, events[i], job.day)
                          /\ (n.days[events[i].subject] # 0 => events[i].keep)
    BY <1>2, <1>4, <2>3, <2>4
  <2> QED
    BY <2>4, <2>5, <2>6, <2>7, <2>8 DEF Store
<1>6. CASE ~usable["aggregates"]
  <2>1. memory = {} /\ kept["aggregates"] = {}
    BY <1>2, <1>6
  <2>2. SamplesWithin(n)
    BY <1>6 DEF Cleared
  <2>3. \A i \in kept["samples"] : Durable(n, events[i], job.day)
    BY <1>2, <2>2 DEF SamplesWithin
  <2> QED
    BY <1>6, <2>1, <2>3 DEF Store
<1> QED
  BY <1>5, <1>6

LEMMA SettleSettingsKeeps == ASSUME IInv, SettleSettings PROVE IInv'
<1>1. PICK n \in Admitted :
        /\ Cleared(n)
        /\ file.now = [rev |-> settings.rev + 1, doc |-> n, since |-> job.day]
  BY CommitStage DEF SettleSettings
<1>2. PICK new : new = file.now
  OBVIOUS
<1>3. /\ job.op = "replace" /\ job.step = "settle" /\ job.day \in Nat /\ job.day <= today
      /\ job \in Job /\ job.todo \in Seq(Task)
      /\ new.doc = n /\ new.since = job.day
  BY <1>1, <1>2, CommitStage, DayRight DEF SettleSettings
<1>4. /\ file' = [now |-> new, may |-> {new}] /\ settings' = new /\ Resume(Tail(job.todo))
      /\ UNCHANGED <<memory, kept, usable, data, queue, today, events, faults, forgotten>>
  BY <1>2 DEF SettleSettings, UNCHANGEDworld
<1>5. /\ job.todo # <<>> /\ Tail(job.todo) \in Seq(Task)
      /\ usable["aggregates"] => Tail(job.todo) = Both(n) /\ Tail(job.todo) # <<>>
      /\ ~usable["aggregates"] => Tail(job.todo) = <<>>
  <2>1. CASE usable["aggregates"]
    <3>1. job.todo = After(n)
      BY <1>1, <2>1 DEF Cleared
    <3>2. job.todo # <<>> /\ Tail(job.todo) = Both(n) /\ Both(n) # <<>>
      BY <3>1, Todos
    <3> QED
      BY <1>3, <2>1, <3>2, Rested
  <2>2. CASE ~usable["aggregates"]
    <3>1. job.todo = <<Commit(n)>>
      BY <1>1, <2>2 DEF Cleared
    <3>2. job.todo # <<>> /\ Tail(job.todo) = <<>>
      BY <3>1, Lists
    <3> QED
      BY <1>3, <2>2, <3>2, Rested
  <2> QED
    BY <2>1, <2>2
<1>6. /\ job' \in Job /\ job'.step = "plan"
      /\ ~usable["aggregates"] => job' = Blank /\ job'.op = "idle"
      /\ usable["aggregates"] => job'.op = "replace" /\ job'.todo = Both(n) /\ job'.day = job.day
  BY <1>3, <1>4, <1>5, Resumed
<1>7. /\ \A st \in Store : \A i \in kept[st] : Durable(n, events[i], job.day)
      /\ \A i \in memory : /\ Live(n, events[i], job.day)
                           /\ n.days[events[i].subject] # 0 => events[i].keep
      /\ usable["aggregates"] => kept["aggregates"] = Projected(n, memory, job.day)
  BY <1>1, <1>3, ClearedRight
<1>8. new \in Settings /\ new \in file.may
  BY <1>2 DEF IInv, Types
<1>9. Types'
  BY <1>4, <1>6, <1>8 DEF IInv, Types
<1>10. SettingsRight'
  <2>1. file'.may = {new} /\ file'.now = new /\ settings' = new
    BY <1>4
  <2>2. \E old \in Settings :
          /\ file'.may = {old, file'.now} /\ (old = file'.now \/ file'.now.rev = old.rev + 1)
          /\ job'.op # "down" => settings' = old
    BY <1>8, <2>1
  <2> QED
    BY <1>4, <1>8, <2>1, <2>2 DEF IInv, SettingsRight
<1>11. MemoryRight'
  <2>1. MemoryRight
    BY DEF IInv
  <2>2. Held(memory)'
    <3>1. /\ memory \subseteq Of("aggregates") \ forgotten
          /\ Cardinality(Keys(memory)) <= RecordLimit
      BY <2>1 DEF MemoryRight, Held
    <3>2. \A i \in memory : settings'.doc.days[events'[i].subject] # 0 => events'[i].keep
      BY <1>3, <1>4, <1>7
    <3> QED
      BY <1>4, <3>1, <3>2, RightfulSame DEF Held
  <2>3. \A st \in Store : \A i \in kept[st] : Outlives(i, settings)'
    BY <1>3, <1>4, <1>7 DEF Outlives, Durable
  <2> QED
    BY <1>4, <2>1, <2>2, <2>3, RightfulSame DEF MemoryRight
<1>12. JobRight'
  <2>1. CASE ~usable["aggregates"]
    BY <1>6, <2>1, BlankKeeps
  <2>2. CASE usable["aggregates"]
    <3>1. SamplesWithin(n)' /\ AggregatesWithin(n)'
      BY <1>4, <1>6, <1>7, <2>2 DEF SamplesWithin, AggregatesWithin, Projected, Store
    <3>2. settings'.doc = n /\ settings'.since = job.day
      BY <1>3, <1>4
    <3>3. Enforced'
      BY <1>4, <1>6, <2>2, <3>1, <3>2 DEF Enforced
    <3>4. settings'.since <= job'.day /\ job'.day <= today'
      BY <1>3, <1>4, <1>6, <2>2, <3>2
    <3> QED
      BY <1>6, <2>2, <3>3, <3>4, StageKeeps DEF Replacing
  <2> QED
    BY <2>1, <2>2
<1>13. FilesRight' /\ QueueRight'
  BY <1>3, <1>4, <1>6, FilesSame, QueueKept DEF IInv
<1>14. DiskRight'
  BY <1>3, <1>4, <1>6, DiskPlan, DiskKept
<1> QED
  BY <1>6, <1>9, <1>10, <1>11, <1>12, <1>13, <1>14, NotWriting DEF IInv

-----------------------------------------------------------------------------
(* What takes the lock                                                     *)

LEMMA TodosTyped ==
    ASSUME NEW f \in Doc, NEW n \in Doc
    PROVE  /\ Whole(f, n) \in Seq(Task) /\ First(n) \in Seq(Task)
           /\ Both(n) \in Seq(Task) /\ BothLook(n) \in Seq(Task)
           /\ <<Open("aggregates", n), Open("samples", n)>> \in Seq(Task)
<1>1. /\ \A d \in Doc, st \in Store : Purge(st, d) \in Task /\ Open(st, d) \in Task
      /\ \A d \in Doc : Commit(d) \in Task
  BY DEF Purge, Open, Commit, Task, Store
<1>2. Inspect \in Task
  <2>1. DenyAll \in Doc
    BY BoundsAssumption DEF DenyAll, Doc
  <2> QED
    BY <2>1 DEF Inspect, Task, Store
<1>3. "aggregates" \in Store /\ "samples" \in Store
  BY DEF Store
<1> HIDE DEF Task
<1>4. Whole(f, n) \in Seq(Task)
  BY <1>1, <1>3 DEF Whole
<1>5. First(n) \in Seq(Task)
  BY <1>1, <1>3 DEF First
<1>6. Both(n) \in Seq(Task)
  BY <1>1, <1>3 DEF Both
<1>7. BothLook(n) \in Seq(Task)
  BY <1>1, <1>2, <1>3 DEF BothLook
<1>8. <<Open("aggregates", n), Open("samples", n)>> \in Seq(Task)
  BY <1>1, <1>3
<1> QED
  BY <1>4, <1>5, <1>6, <1>7, <1>8

LEMMA IdleRight ==
    ASSUME IInv, Idle
    PROVE  /\ job = Blank /\ job.step = "plan" /\ ~Busy /\ job.op = "idle"
           /\ settings \in Settings /\ settings.doc \in Doc /\ Valid(settings.doc)
           /\ settings.since <= today /\ settings.since \in Nat /\ today \in Nat
           /\ today \in 0 .. MaxDay
           /\ usable["aggregates"] => \A d \in data.may : d.aggregates = kept["aggregates"]
<1>1. job.op = "idle" /\ job = Blank /\ job.step = "plan" /\ ~Busy
  BY BlankRight DEF Idle, IInv, JobRight, Busy
<1>2. /\ settings \in Settings /\ settings.doc \in Doc /\ settings.since \in Nat /\ today \in Nat
      /\ today \in 0 .. MaxDay
  BY BoundsAssumption DEF IInv, Types, Settings
<1>3. settings.since <= today /\ Valid(settings.doc)
  BY DEF IInv, SettingsRight
<1> QED
  BY <1>1, <1>2, <1>3, DiskPlan

\* An operation that begins to plan.
LEMMA BeginKeeps ==
    ASSUME IInv, Idle, NEW op \in {"sweep", "replace"}, NEW todo \in Seq(Task), Begin(op, todo),
           UNCHANGEDstores, UNCHANGEDworld, UNCHANGED <<file, data, forgotten>>,
           queue' \in Seq(Command), QueueRight',
           op = "sweep" => todo \in {Both(settings.doc), BothLook(settings.doc)},
           op = "replace" => Replacing'
    PROVE  IInv'
<1>1. /\ job' \in Job /\ job'.step = "plan" /\ job'.op = op /\ job'.todo = todo
      /\ job'.day = today
  BY IdleRight, Begun
<1>2. UNCHANGED <<settings, memory, kept, usable, file, data, today, events, faults, forgotten>>
  BY DEF UNCHANGEDstores, UNCHANGEDworld
<1>3. op = "sweep" => Sweeping'
  BY <1>1, <1>2 DEF Sweeping
<1>4. JobRight'
  BY <1>1, <1>2, <1>3, IdleRight, StageKeeps
<1>5. Types' /\ SettingsRight' /\ FilesRight' /\ MemoryRight'
  BY <1>1, <1>2, IdleRight, SettingsSame, FilesSame, MemorySame DEF IInv, Types
<1>6. DiskRight'
  BY <1>1, <1>2, IdleRight, DiskKept
<1> QED
  BY <1>1, <1>4, <1>5, <1>6, NotWriting DEF IInv

LEMMA BeginReplaceKeeps == ASSUME IInv, NEW d \in Docs, BeginReplace(d) PROVE IInv'
<1>1. d \in Admitted /\ d \in Doc
  BY DocsAssumption DEF Admitted
<1>2. PICK f : f = Floor(settings.doc, d)
  OBVIOUS
<1>3. /\ Idle /\ settings.rev < MaxRev
      /\ UNCHANGED <<settings, memory, kept, usable, file, data, queue, today, events, faults,
                     forgotten>>
  BY DEF BeginReplace, UNCHANGEDstores, UNCHANGEDworld
<1>4. f \in Doc
  BY <1>1, <1>2, <1>3, IdleRight, FloorRight
<1>5. \/ usable["aggregates"] /\ Begin("replace", Whole(f, d))
      \/ ~usable["aggregates"] /\ Begin("replace", First(d))
  BY <1>2 DEF BeginReplace, Whole, First
<1>6. PICK todo \in Seq(Task) :
        /\ Begin("replace", todo)
        /\ \/ usable["aggregates"] /\ todo = Whole(f, d)
           \/ ~usable["aggregates"] /\ todo = First(d)
  BY <1>1, <1>4, <1>5, TodosTyped
<1>7. /\ job'.step = "plan" /\ job'.op = "replace" /\ job'.todo = todo
  BY <1>3, <1>6, IdleRight, Begun
<1>8. Replacing'
  <2>1. \/ usable'["aggregates"] /\ WithAggregates(d)'
        \/ ~usable'["aggregates"] /\ WithoutAggregates(d)'
    BY <1>2, <1>3, <1>6, <1>7 DEF WithAggregates, WithoutAggregates
  <2> QED
    BY <1>1, <1>3, <2>1 DEF Replacing, Admitted
<1>9. QueueRight' /\ queue' \in Seq(Command)
  BY <1>3, <1>7, QueueKept DEF IInv, Types
<1> QED
  BY <1>3, <1>6, <1>8, <1>9, BeginKeeps DEF BeginReplace

LEMMA SweepKeeps == ASSUME IInv, Sweep PROVE IInv'
<1>1. /\ Idle /\ Begin("sweep", Both(settings.doc))
      /\ UNCHANGED <<queue, events, forgotten>>
  BY DEF Sweep, Enforce, Both, UNCHANGEDworld
<1>2. Both(settings.doc) \in Seq(Task)
  BY <1>1, IdleRight, TodosTyped
<1>3. job'.op = "sweep"
  BY <1>1, <1>2, IdleRight, Begun
<1>4. QueueRight' /\ queue' \in Seq(Command)
  BY <1>1, <1>3, QueueKept DEF IInv, Types
<1> QED
  BY <1>1, <1>2, <1>4, BeginKeeps DEF Sweep

\* What is left in the queue when the worker took a command.
LEMMA Taken ==
    ASSUME IInv, queue # <<>>
    PROVE  LET c == Head(queue)
               q == Tail(queue)
           IN  /\ q \in Seq(Command) /\ c \in Command /\ c = queue[1] /\ c.id <= Len(events)
               /\ c.id \in 0 .. MaxEvent /\ c.id \in Nat
               /\ Len(q) + 1 = Len(queue) /\ Len(q) \in Nat
               /\ Len(q) <= Capacity /\ (c.op # "snapshot" => Len(q) + 1 <= Capacity)
               /\ c.op = "signal" => c.id \in Of("aggregates") \ forgotten
               /\ c.op = "sample" => c.id \in Of("samples") \ forgotten
               /\ \A k \in DOMAIN q :
                   /\ k \in Nat /\ k + 1 \in DOMAIN queue /\ q[k] = queue[k + 1]
                   /\ q[k].id <= Len(events) /\ q[k].op # "snapshot" /\ q[k].id \in Nat
                   /\ q[k].op = "signal" => q[k].id \in Of("aggregates") \ forgotten
                   /\ q[k].op = "sample" => q[k].id \in Of("samples") \ forgotten
                   /\ q[k].op \in {"signal", "sample"} =>
                        /\ c.op \in {"clear", "forget"} => c.id < q[k].id
                        /\ \A l \in DOMAIN q :
                            l < k /\ q[l].op \in {"clear", "forget"} => q[l].id < q[k].id
<1>1. PICK c : c = Head(queue)
  OBVIOUS
<1>2. PICK q : q = Tail(queue)
  OBVIOUS
<1>3. queue \in Seq(Command) /\ QueueRight
  BY DEF IInv, Types
<1>4. /\ DOMAIN queue = 1 .. Len(queue) /\ Len(queue) \in Nat /\ 1 \in DOMAIN queue
      /\ c = queue[1] /\ q \in Seq(Command) /\ Len(q) = Len(queue) - 1 /\ Len(q) \in Nat
      /\ DOMAIN q = 1 .. Len(q)
      /\ \A k \in DOMAIN q : k \in Nat /\ k + 1 \in DOMAIN queue /\ q[k] = queue[k + 1]
  BY <1>1, <1>2, <1>3, HeadTailProperties
<1>5. \A k \in DOMAIN queue : queue[k] \in Command
  BY <1>3
<1>6. c \in Command /\ \A k \in DOMAIN q : q[k] \in Command
  BY <1>4, <1>5
<1>7. c.id \in 0 .. MaxEvent /\ c.id \in Nat /\ \A k \in DOMAIN q : q[k].id \in Nat
  BY <1>6, BoundsAssumption DEF Command
<1>8. ASSUME NEW k \in DOMAIN q
      PROVE  /\ q[k].id <= Len(events) /\ q[k].op # "snapshot"
             /\ q[k].op = "signal" => q[k].id \in Of("aggregates") \ forgotten
             /\ q[k].op = "sample" => q[k].id \in Of("samples") \ forgotten
             /\ q[k].op \in {"signal", "sample"} =>
                  /\ c.op \in {"clear", "forget"} => c.id < q[k].id
                  /\ \A l \in DOMAIN q :
                      l < k /\ q[l].op \in {"clear", "forget"} => q[l].id < q[k].id
  <2>1. k \in Nat /\ k >= 1 /\ k + 1 \in DOMAIN queue /\ q[k] = queue[k + 1] /\ k + 1 # 1 /\ 1 < k + 1
    BY <1>4
  <2>2. \A l \in DOMAIN q : l < k => l + 1 \in DOMAIN queue /\ q[l] = queue[l + 1] /\ l + 1 < k + 1
    BY <1>4, <2>1
  <2>3. PICK m \in DOMAIN queue : m = k + 1
    BY <2>1
  <2>4. /\ queue[m].id <= Len(events)
        /\ queue[m].op = "snapshot" => m = 1
        /\ queue[m].op = "signal" => queue[m].id \in Of("aggregates") \ forgotten
        /\ queue[m].op = "sample" => queue[m].id \in Of("samples") \ forgotten
        /\ queue[m].op \in {"signal", "sample"} =>
              \A l \in DOMAIN queue :
                l < m /\ queue[l].op \in {"clear", "forget"} => queue[l].id < queue[m].id
    BY <1>3 DEF QueueRight
  <2> QED
    BY <1>4, <2>1, <2>2, <2>3, <2>4
<1>9. Len(q) <= Capacity /\ (c.op # "snapshot" => Len(q) + 1 <= Capacity)
  <2>1. Len(queue) <= Capacity + (IF \E k \in DOMAIN queue : queue[k].op = "snapshot"
                                  THEN 1 ELSE 0)
    BY <1>3 DEF QueueRight
  <2>2. (\E k \in DOMAIN queue : queue[k].op = "snapshot") => c.op = "snapshot"
    BY <1>3, <1>4 DEF QueueRight
  <2> QED
    BY <1>4, <2>1, <2>2, BoundsAssumption
<1>10. /\ c.id <= Len(events)
       /\ c.op = "signal" => c.id \in Of("aggregates") \ forgotten
       /\ c.op = "sample" => c.id \in Of("samples") \ forgotten
  BY <1>3, <1>4 DEF QueueRight
<1> QED
  BY <1>1, <1>2, <1>4, <1>6, <1>7, <1>8, <1>9, <1>10

\* What is left in the queue is in order, for an operation that began with the first of it.
LEMMA TailRight ==
    ASSUME IInv, queue # <<>>, queue' = Tail(queue), Len(events') = Len(events),
           DOMAIN events' = DOMAIN events,
           \A st \in Store : Of(st)' = Of(st), forgotten' = forgotten,
           job'.op \notin {"down", "open"},
           job'.op \in {"clear", "forget"} =>
              job'.op = Head(queue).op /\ job'.id = Head(queue).id
    PROVE  queue' \in Seq(Command) /\ QueueRight'
<1>1. PICK c : c = Head(queue)
  OBVIOUS
<1>2. PICK q : q = Tail(queue)
  OBVIOUS
<1>3. /\ q \in Seq(Command) /\ Len(q) <= Capacity /\ Len(q) \in Nat
      /\ \A k \in DOMAIN q :
          /\ q[k].id <= Len(events) /\ q[k].op # "snapshot"
          /\ q[k].op = "signal" => q[k].id \in Of("aggregates") \ forgotten
          /\ q[k].op = "sample" => q[k].id \in Of("samples") \ forgotten
          /\ q[k].op \in {"signal", "sample"} =>
               /\ c.op \in {"clear", "forget"} => c.id < q[k].id
               /\ \A l \in DOMAIN q :
                   l < k /\ q[l].op \in {"clear", "forget"} => q[l].id < q[k].id
  BY <1>1, <1>2, Taken
<1>4. queue' = q /\ (job'.op \in {"clear", "forget"} => job'.op = c.op /\ job'.id = c.id)
  BY <1>1, <1>2
<1>5. \A k \in DOMAIN q :
        /\ q[k].op = "signal" => q[k].id \in Of("aggregates")' \ forgotten'
        /\ q[k].op = "sample" => q[k].id \in Of("samples")' \ forgotten'
  BY <1>3 DEF Store
<1>6. Len(q) <= Capacity + (IF \E k \in DOMAIN q : q[k].op = "snapshot" THEN 1 ELSE 0)
  <2>1. ~ \E k \in DOMAIN q : q[k].op = "snapshot"
    BY <1>3
  <2> QED
    BY <1>3, <2>1, BoundsAssumption
<1>7. /\ forgotten' \subseteq DOMAIN events'
      /\ job'.op \in {"clear", "forget"} => job'.id <= Len(events')
  BY <1>1, <1>4, Taken DEF IInv, QueueRight
<1> QED
  BY <1>3, <1>4, <1>5, <1>6, <1>7 DEF QueueRight

LEMMA TakeSnapshotKeeps == ASSUME IInv, TakeSnapshot PROVE IInv'
<1>1. /\ Idle /\ Begin("sweep", BothLook(settings.doc)) /\ queue # <<>> /\ queue' = Tail(queue)
      /\ UNCHANGED <<events, forgotten>>
  <2>1. ASSUME NEW a, NEW b, NEW c PROVE Append(<<a, b>>, c) = <<a, b, c>>
    <3>1. /\ <<a, b>> \in Seq({a, b, c}) /\ Len(<<a, b>>) = 2
          /\ <<a, b, c>> \in Seq({a, b, c}) /\ Len(<<a, b, c>>) = 3
      OBVIOUS
    <3>2. PICK s \in Seq({a, b, c}) : s = Append(<<a, b>>, c)
      BY <3>1, AppendProperties
    <3>3. Len(s) = 3 /\ s[3] = c /\ \A i \in 1 .. 2 : s[i] = <<a, b>>[i]
      BY <3>1, <3>2, AppendProperties
    <3>4. \A i \in 1 .. 3 : s[i] = <<a, b, c>>[i]
      BY <3>3
    <3> QED
      BY <3>1, <3>2, <3>3, <3>4, SeqEqual
  <2>2. Append(Enforce, Inspect) = BothLook(settings.doc)
    BY <2>1 DEF Enforce, BothLook
  <2> QED
    BY <2>2 DEF TakeSnapshot, Taking, UNCHANGEDworld
<1>2. BothLook(settings.doc) \in Seq(Task)
  BY <1>1, IdleRight, TodosTyped
<1>3. job'.op = "sweep"
  BY <1>1, <1>2, IdleRight, Begun
<1>4. QueueRight' /\ queue' \in Seq(Command)
  BY <1>1, <1>3, RightfulSame, TailRight
<1> QED
  BY <1>1, <1>2, <1>4, BeginKeeps DEF TakeSnapshot

\* What begins to write.
LEMMA WriteBegins ==
    ASSUME IInv, Idle, NEW op \in {"signal", "sample", "clear", "forget"}, NEW id \in 0 .. MaxEvent,
           NEW st \in Store, NEW target \in SUBSET Ids, NEW next \in SUBSET Ids,
           Write(Fresh(op, id), st, target, next)
    PROVE  /\ job' \in Job /\ job'.step = "write" /\ job'.op = op /\ job'.id = id /\ job'.todo = <<>>
           /\ job'.store = st /\ job'.target = target /\ job'.next = next /\ job'.day = today
           /\ Busy'
<1>1. /\ Fresh(op, id) \in Job /\ Fresh(op, id).op = op /\ Fresh(op, id).todo = <<>>
      /\ Fresh(op, id).id = id /\ Fresh(op, id).day = today
  BY IdleRight, FreshRight
<1>2. PICK j \in Job : j = Fresh(op, id)
  BY <1>1
<1>3. Write(j, st, target, next)
  BY <1>2
<1>4. /\ job' \in Job /\ job'.step = "write" /\ job'.op = j.op /\ job'.todo = j.todo
      /\ job'.store = st /\ job'.target = target /\ job'.next = next
      /\ job'.id = j.id /\ job'.day = j.day
  BY <1>3, Written
<1> QED
  BY <1>1, <1>2, <1>4 DEF Busy

-----------------------------------------------------------------------------
(* Clearing and forgetting                                                 *)

\* The directory without the temporary files of a store.
LEMMA TempsRight ==
    ASSUME IInv, NEW st
    PROVE  /\ WithoutTemps(st) \in Directory
           /\ WithoutTemps(st).aggregates = data.now.aggregates
           /\ WithoutTemps(st).samples = data.now.samples
           /\ \A t \in WithoutTemps(st).temps : t \in data.now.temps /\ t.store # st
  BY NowRight DEF WithoutTemps, Directory

LEMMA TempsKept ==
    ASSUME IInv, NEW st, \/ UNCHANGED data
                         \/ Changed(WithoutTemps(st))
                         \/ Synced(WithoutTemps(st)),
           UNCHANGED <<events, forgotten>>
    PROVE  /\ data'.now \in data'.may /\ data'.may \subseteq Directory /\ FilesRight'
           /\ (\A d \in data.may : d.aggregates = kept["aggregates"]) =>
                 \A d \in data'.may : d.aggregates = kept["aggregates"]
<1>1. CASE UNCHANGED data
  BY <1>1, FilesSame DEF IInv, Types
<1>2. CASE Changed(WithoutTemps(st)) \/ Synced(WithoutTemps(st))
  <2>1. PICK now : now = WithoutTemps(st)
    OBVIOUS
  <2>2. /\ now \in Directory /\ now.aggregates = data.now.aggregates
        /\ now.samples = data.now.samples /\ \A t \in now.temps : t \in data.now.temps
    BY <2>1, TempsRight
  <2>3. Changed(now) \/ Synced(now)
    BY <1>2, <2>1
  <2>4. /\ data'.now = now /\ data'.now \in data'.may /\ data'.may \subseteq Directory
        /\ FilesRight' /\ \A d \in data'.may : d = now \/ d \in data.may
    BY <2>2, <2>3, NowRight, DataRight
  <2> QED
    BY <2>2, <2>4, NowRight
<1> QED
  BY <1>1, <1>2

LEMMA TempsStayKeeps ==
    ASSUME IInv, NEW op, NEW st, TempsStay(op, st)
    PROVE  IInv'
<1>1. /\ Idle /\ queue # <<>> /\ queue' = Tail(queue) /\ Changed(WithoutTemps(st)) /\ Fails
      /\ UNCHANGED <<settings, memory, kept, usable, file, job, today, events, forgotten>>
  BY DEF TempsStay, Taking, UNCHANGEDstores, Fails
<1>2. /\ job = Blank /\ job.step = "plan" /\ ~Busy /\ job.op = "idle"
      /\ usable["aggregates"] => \A d \in data.may : d.aggregates = kept["aggregates"]
  BY <1>1, IdleRight
<1>3. queue' \in Seq(Command) /\ QueueRight'
  BY <1>1, <1>2, RightfulSame, TailRight
<1>4. /\ data'.now \in data'.may /\ data'.may \subseteq Directory /\ FilesRight'
      /\ usable["aggregates"] => \A d \in data'.may : d.aggregates = kept["aggregates"]
  BY <1>1, <1>2, TempsKept
<1>5. Types'
  BY <1>1, <1>3, <1>4, FaultsRight DEF IInv, Types
<1>6. SettingsRight' /\ MemoryRight' /\ JobRight'
  BY <1>1, <1>2, SettingsSame, MemorySame, BlankKeeps DEF IInv
<1>7. DiskRight' /\ WriteRight'
  BY <1>1, <1>2, <1>4, DiskKept, NotWriting
<1> QED
  BY <1>3, <1>4, <1>5, <1>6, <1>7 DEF IInv

\* Nothing is what is written when a store is emptied.
LEMMA TakeForgetKeeps == ASSUME IInv, TakeForget PROVE IInv'
<1>1. PICK id : id = Head(queue).id
  OBVIOUS
<1>2. /\ Idle /\ queue # <<>> /\ Head(queue).op = "forget" /\ queue' = Tail(queue)
      /\ TempsGone("samples") /\ Write(Fresh("forget", id), "samples", {}, {})
      /\ UNCHANGED <<settings, memory, kept, usable, file, today, events, faults, forgotten>>
  BY <1>1 DEF TakeForget, Taking, UNCHANGEDstores, UNCHANGEDworld
<1>3. id \in 0 .. MaxEvent
  BY <1>1, <1>2, Taken
<1>4. /\ job' \in Job /\ job'.step = "write" /\ job'.op = "forget" /\ job'.id = id
      /\ job'.todo = <<>> /\ job'.store = "samples" /\ job'.target = {} /\ job'.next = {}
      /\ job'.day = today /\ Busy'
  BY <1>2, <1>3, WriteBegins DEF Store
<1>5. queue' \in Seq(Command) /\ QueueRight'
  BY <1>1, <1>2, <1>4, RightfulSame, TailRight
<1>6. /\ UNCHANGED data \/ Synced(WithoutTemps("samples"))
      /\ \A t \in data'.now.temps : t.store # "samples"
  BY <1>2, TempsRight DEF TempsGone, Synced
<1>7. /\ data'.now \in data'.may /\ data'.may \subseteq Directory /\ FilesRight'
      /\ usable["aggregates"] => \A d \in data'.may : d.aggregates = kept["aggregates"]
  BY <1>2, <1>6, IdleRight, TempsKept
<1>8. Types'
  BY <1>2, <1>4, <1>5, <1>7 DEF IInv, Types
<1>9. SettingsRight' /\ MemoryRight'
  BY <1>2, <1>4, IdleRight, SettingsSame, MemorySame DEF IInv
<1>10. DiskRight'
  BY <1>2, <1>4, <1>7, DiskKept
<1>11. WriteRight'
  BY <1>4 DEF WriteRight
<1>12. JobRight'
  BY <1>2, <1>4, <1>6, IdleRight DEF JobRight, Forgetting
<1> QED
  BY <1>5, <1>7, <1>8, <1>9, <1>10, <1>11, <1>12 DEF IInv

\* An operation that clears what it finds kept, or writes that nothing is.
LEMMA TakeClearKeeps == ASSUME IInv, TakeClear PROVE IInv'
<1>1. PICK id : id = Head(queue).id
  OBVIOUS
<1>2. PICK q : q = Tail(queue)
  OBVIOUS
<1>3. /\ Idle /\ queue # <<>> /\ Head(queue).op = "clear" /\ TempsGone("aggregates")
      /\ UNCHANGED <<settings, kept, usable, file, today, events, faults>>
  BY DEF TakeClear, Taking, UNCHANGEDworld
<1>4. /\ id \in 0 .. MaxEvent /\ q \in Seq(Command) /\ Len(q) <= Capacity
      /\ \A k \in DOMAIN q :
           /\ q[k].id <= Len(events) /\ q[k].op # "snapshot"
           /\ q[k].op = "signal" => q[k].id \in Of("aggregates") \ forgotten
           /\ q[k].op = "sample" => q[k].id \in Of("samples") \ forgotten
           /\ q[k].op \in {"signal", "sample"} =>
                /\ id < q[k].id
                /\ \A l \in DOMAIN q :
                    l < k /\ q[l].op \in {"clear", "forget"} => q[l].id < q[k].id
  BY <1>1, <1>2, <1>3, Taken
<1>5. /\ job = Blank /\ ~Busy /\ job.step = "plan" /\ job.op = "idle" /\ settings.since <= today
      /\ usable["aggregates"] => \A d \in data.may : d.aggregates = kept["aggregates"]
  BY <1>3, IdleRight
<1>6. /\ UNCHANGED data \/ Synced(WithoutTemps("aggregates"))
  BY <1>3 DEF TempsGone
<1>7. MemoryRight /\ kept["aggregates"] \subseteq memory
  BY DEF IInv, MemoryRight
<1>8. CASE /\ usable["aggregates"] /\ (memory = {} \/ kept["aggregates"] = {})
           /\ memory' = {} /\ forgotten' = forgotten \cup Covered("aggregates", id)
           /\ queue' = <<Snapshot>> \o q /\ UNCHANGED job
  <2>1. kept["aggregates"] = {} /\ \A d \in data.may : d.aggregates = {}
    BY <1>5, <1>7, <1>8
  <2>2. /\ data'.now \in data'.may /\ data'.may \subseteq Directory
        /\ \A d \in data'.may : d \in data.may \/ d = WithoutTemps("aggregates")
    BY <1>6, TempsRight, NowRight DEF Synced
  <2>3. \A d \in data'.may :
          /\ d.aggregates = {} /\ d.samples \subseteq Rightful("samples")
          /\ \A t \in d.temps : t.store = "samples" => t.content \subseteq Rightful("samples")
    BY <2>1, <2>2, TempsRight, NowRight DEF IInv, FilesRight
  <2>4. Rightful("samples")' = Rightful("samples") /\ forgotten' \in SUBSET Ids
    BY <1>3, <1>4, <1>8, CoveredRight DEF Store
  <2>5. Keys({})' = Keys({})
    BY DEF Keys
  <2>6. FilesRight'
    BY <2>3, <2>4, <2>5, EmptyRight DEF FilesRight
  <2>7. Held(memory)'
    BY <1>8, <2>5, EmptyRight DEF Held
  <2>8. \A i : Outlives(i, settings) <=> Outlives(i, settings)'
    BY <1>3 DEF Outlives
  <2>9. MemoryRight'
    BY <1>3, <1>7, <1>8, <2>1, <2>4, <2>7, <2>8 DEF MemoryRight, Store
  <2>10. queue' \in Seq(Command) /\ QueueRight'
    BY <1>3, <1>4, <1>5, <1>8, SnapshotFirst
  <2>11. Types'
    BY <1>3, <1>8, <2>2, <2>4, <2>10 DEF IInv, Types
  <2>12. SettingsRight' /\ JobRight'
    BY <1>3, <1>5, <1>8, SettingsSame, BlankKeeps DEF IInv
  <2>13. DiskRight' /\ WriteRight'
    BY <1>3, <1>5, <1>8, <2>1, <2>3, DiskKept, NotWriting
  <2> QED
    BY <2>6, <2>9, <2>10, <2>11, <2>12, <2>13 DEF IInv
<1>9. CASE /\ Write(Fresh("clear", id), "aggregates", {}, {}) /\ queue' = q
           /\ UNCHANGED <<memory, forgotten>>
  <2>1. /\ job' \in Job /\ job'.step = "write" /\ job'.op = "clear" /\ job'.id = id
        /\ job'.todo = <<>> /\ job'.store = "aggregates" /\ job'.target = {} /\ job'.next = {}
        /\ job'.day = today /\ Busy'
    BY <1>3, <1>4, <1>9, WriteBegins DEF Store
  <2>2. queue' \in Seq(Command) /\ QueueRight'
    BY <1>1, <1>2, <1>3, <1>9, <2>1, RightfulSame, TailRight
  <2>3. /\ data'.now \in data'.may /\ data'.may \subseteq Directory /\ FilesRight'
        /\ usable["aggregates"] => \A d \in data'.may : d.aggregates = kept["aggregates"]
    BY <1>3, <1>5, <1>6, <1>9, TempsKept
  <2>4. Types'
    BY <1>3, <1>9, <2>1, <2>2, <2>3 DEF IInv, Types
  <2>5. SettingsRight' /\ MemoryRight'
    BY <1>3, <1>5, <1>9, <2>1, SettingsSame, MemorySame DEF IInv
  <2>6. DiskRight'
    BY <1>3, <2>1, <2>3, DiskKept
  <2>7. WriteRight'
    <3>1. Held({})'
      BY EmptyRight DEF Held, Keys
    <3> QED
      BY <2>1, <3>1 DEF WriteRight
  <2>8. JobRight'
    BY <1>3, <1>5, <2>1, IdleRight DEF JobRight, Clearing
  <2> QED
    BY <2>2, <2>3, <2>4, <2>5, <2>6, <2>7, <2>8 DEF IInv
<1> QED
  BY <1>1, <1>2, <1>8, <1>9 DEF TakeClear

-----------------------------------------------------------------------------
(* Samples and signals                                                     *)

\* A sample is dated the day it is sealed.
LEMMA SampleDated ==
    ASSUME IInv, NEW id \in Of("samples"), events' = [events EXCEPT ![id].day = today],
           UNCHANGED <<settings, forgotten, today>>
    PROVE  /\ events' \in Seq(Event) /\ Len(events') = Len(events) /\ DOMAIN events' = DOMAIN events
           /\ \A i \in DOMAIN events :
                /\ events'[i].store = events[i].store /\ events'[i].subject = events[i].subject
                /\ events'[i].rev = events[i].rev /\ events'[i].keep = events[i].keep
                /\ events'[i].day = (IF i = id THEN today ELSE events[i].day)
           /\ \A st : Of(st)' = Of(st) /\ Rightful(st)' = Rightful(st)
           /\ \A ids \in SUBSET Of("aggregates") : Keys(ids)' = Keys(ids)
           /\ \A ids : Held(ids) => Held(ids)'
           /\ \A i \in DOMAIN events : Outlives(i, settings) => Outlives(i, settings)'
<1>1. /\ events \in Seq(Event) /\ Len(events) <= MaxEvent /\ today \in 0 .. MaxDay /\ today \in Nat
      /\ id \in DOMAIN events /\ settings \in Settings /\ SettingsRight
  BY BoundsAssumption DEF IInv, Types, Of
<1>2. \A i \in DOMAIN events : events[i] \in Event
  BY <1>1
<1>3. [events[id] EXCEPT !.day = today] \in Event
  BY <1>1, <1>2 DEF Event
<1>4. DOMAIN events' = DOMAIN events /\ Len(events') = Len(events) /\ events' \in Seq(Event)
  BY <1>1, <1>3
<1>5. \A i \in DOMAIN events : i # id => events'[i] = events[i]
  BY <1>1
<1>6. events'[id] = [events[id] EXCEPT !.day = today]
  BY <1>1
<1>7. /\ events'[id].store = events[id].store /\ events'[id].subject = events[id].subject
      /\ events'[id].rev = events[id].rev /\ events'[id].keep = events[id].keep
      /\ events'[id].day = today
  BY <1>1, <1>2, <1>6 DEF Event
<1>8. \A i \in DOMAIN events :
        /\ events'[i].store = events[i].store /\ events'[i].subject = events[i].subject
        /\ events'[i].rev = events[i].rev /\ events'[i].keep = events[i].keep
        /\ events'[i].day = (IF i = id THEN today ELSE events[i].day)
  BY <1>5, <1>7
<1>9. \A st : Of(st)' = Of(st) /\ Rightful(st)' = Rightful(st)
  BY <1>4, <1>8 DEF Of, Rightful
<1>10. ASSUME NEW ids \in SUBSET Of("aggregates") PROVE Keys(ids)' = Keys(ids)
  <2>1. id \notin ids /\ \A i \in ids : i \in DOMAIN events
    BY DEF Of
  <2>2. \A i \in ids : events'[i] = events[i]
    BY <1>5, <2>1
  <2> QED
    BY <2>2 DEF Keys, Key
<1>11. ASSUME NEW ids, Held(ids) PROVE Held(ids)'
  <2>1. /\ ids \subseteq Of("aggregates") \ forgotten
        /\ \A i \in ids : settings.doc.days[events[i].subject] # 0 => events[i].keep
        /\ Cardinality(Keys(ids)) <= RecordLimit
    BY <1>11 DEF Held
  <2>2. Keys(ids)' = Keys(ids)
    BY <1>10, <2>1
  <2>3. \A i \in ids : i \in DOMAIN events
    BY <2>1 DEF Of
  <2> QED
    BY <1>8, <1>9, <2>1, <2>2, <2>3 DEF Held
<1>12. ASSUME NEW i \in DOMAIN events, Outlives(i, settings) PROVE Outlives(i, settings)'
  <2>1. /\ events[i].day \in Nat /\ events[i].day <= today /\ settings.since \in Nat
        /\ events[i].subject \in Subject /\ settings.doc \in Doc
    BY <1>1, EventFields, BoundsAssumption DEF SettingsRight, Settings
  <2>2. PICK s : s = events[i].subject
    OBVIOUS
  <2>3. settings.doc.days[s] \in Nat
    BY <2>1, <2>2, DocFields
  <2>4. settings.since - events[i].day < settings.doc.days[s]
    BY <1>12, <2>2 DEF Outlives
  <2>5. PICK day : day = events'[i].day
    OBVIOUS
  <2>6. day = today \/ day = events[i].day
    BY <1>8, <2>5
  <2>7. settings.since - day < settings.doc.days[s]
    BY <1>1, <2>1, <2>3, <2>4, <2>6
  <2> QED
    BY <1>8, <2>2, <2>5, <2>7 DEF Outlives
<1> QED
  BY <1>4, <1>8, <1>9, <1>10, <1>11, <1>12

LEMMA TakeSampleKeeps == ASSUME IInv, TakeSample PROVE IInv'
<1>1. PICK id : id = Head(queue).id
  OBVIOUS
<1>2. PICK next : next = MakeRoom(kept["samples"]) \cup {id}
  OBVIOUS
<1>3. /\ Idle /\ queue # <<>> /\ Head(queue).op = "sample" /\ queue' = Tail(queue)
      /\ UNCHANGED <<settings, memory, kept, usable, file, data, today, forgotten, faults>>
  BY DEF TakeSample, Taking, UNCHANGEDstores
<1>4. /\ job = Blank /\ ~Busy /\ job.step = "plan" /\ job.op = "idle"
      /\ settings.since <= today /\ settings.since \in Nat /\ today \in Nat
      /\ settings \in Settings /\ settings.doc \in Doc
      /\ usable["aggregates"] => \A d \in data.may : d.aggregates = kept["aggregates"]
  BY <1>3, IdleRight
<1>5. id \in 0 .. MaxEvent /\ id \in Of("samples") \ forgotten
  BY <1>1, <1>3, Taken
<1>6. CASE UNCHANGED <<job, events>>
  <2>1. queue' \in Seq(Command) /\ QueueRight'
    BY <1>3, <1>4, <1>6, RightfulSame, TailRight
  <2>2. Types' /\ SettingsRight' /\ FilesRight' /\ MemoryRight' /\ JobRight'
    BY <1>3, <1>4, <1>6, <2>1, SettingsSame, FilesSame, MemorySame, BlankKeeps DEF IInv, Types
  <2>3. DiskRight' /\ WriteRight'
    BY <1>3, <1>4, <1>6, DiskKept, NotWriting
  <2> QED
    BY <2>1, <2>2, <2>3 DEF IInv
<1>7. CASE /\ usable["samples"] /\ events[id].rev = settings.rev
           /\ settings.doc.days[events[id].subject] # 0
           /\ events' = [events EXCEPT ![id].day = today]
           /\ Write(Fresh("sample", id), "samples", next, next)
  <2>1. MakeRoom(kept["samples"]) \subseteq kept["samples"]
    BY DEF MakeRoom
  <2>2. /\ kept["samples"] \subseteq Rightful("samples")
        /\ \A i \in kept["samples"] : Outlives(i, settings)
    BY DEF IInv, MemoryRight, Store
  <2>3. /\ events \in Seq(Event) /\ Len(events) <= MaxEvent /\ id \in DOMAIN events
        /\ Rightful("samples") \subseteq DOMAIN events
    BY <1>5 DEF IInv, Types, Of, Rightful
  <2>4. next \in SUBSET Ids /\ next \subseteq Rightful("samples") \cup {id}
    BY <1>2, <2>1, <2>2, <2>3, EventFields
  <2>5. /\ job' \in Job /\ job'.step = "write" /\ job'.op = "sample" /\ job'.id = id
        /\ job'.todo = <<>> /\ job'.store = "samples" /\ job'.target = next /\ job'.next = next
        /\ job'.day = today /\ Busy'
    BY <1>3, <1>5, <1>7, <2>4, WriteBegins DEF Store
  <2>6. /\ events' \in Seq(Event) /\ Len(events') = Len(events) /\ DOMAIN events' = DOMAIN events
        /\ \A i \in DOMAIN events :
             /\ events'[i].store = events[i].store /\ events'[i].subject = events[i].subject
             /\ events'[i].rev = events[i].rev /\ events'[i].keep = events[i].keep
             /\ events'[i].day = (IF i = id THEN today ELSE events[i].day)
        /\ \A st : Of(st)' = Of(st) /\ Rightful(st)' = Rightful(st)
        /\ \A ids \in SUBSET Of("aggregates") : Keys(ids)' = Keys(ids)
        /\ \A ids : Held(ids) => Held(ids)'
        /\ \A i \in DOMAIN events : Outlives(i, settings) => Outlives(i, settings)'
    BY <1>3, <1>5, <1>7, SampleDated
  <2>7. events[id].keep
    <3>1. settings \in file.may
      BY <1>4 DEF IInv, SettingsRight
    <3> QED
      BY <1>7, <2>3, <3>1 DEF IInv, SettingsRight
  <2>8. id \in Rightful("samples")
    BY <1>5, <2>7 DEF Rightful
  <2>9. Outlives(id, settings)'
    <3>1. events'[id].day = today /\ events'[id].subject = events[id].subject
      BY <2>3, <2>6
    <3>2. PICK s \in Subject : s = events[id].subject
      BY <2>3, EventFields
    <3>3. settings.doc.days[s] \in Nat /\ settings.doc.days[s] # 0
      BY <1>4, <1>7, <3>2, DocFields
    <3>4. settings.since - today < settings.doc.days[s]
      BY <1>4, <3>3
    <3> QED
      BY <1>3, <3>1, <3>2, <3>4 DEF Outlives
  <2>10. queue' \in Seq(Command) /\ QueueRight'
    BY <1>3, <2>5, <2>6, TailRight
  <2>11. Types'
    BY <1>3, <2>5, <2>6, <2>10 DEF IInv, Types
  <2>12. SettingsRight'
    <3>1. \A i \in DOMAIN events : events'[i].day <= today
      BY <1>4, <2>6 DEF IInv, SettingsRight
    <3>2. job.op # "down" /\ job'.op # "down"
      BY <1>4, <2>5
    <3>3. \A f \in file.may : \A i \in DOMAIN events :
            /\ events'[i].rev <= f.rev
            /\ events'[i].rev = f.rev =>
                (events'[i].keep <=> f.doc.days[events'[i].subject] # 0)
      BY <2>6 DEF IInv, SettingsRight
    <3> QED
      BY <1>3, <2>6, <3>1, <3>2, <3>3 DEF IInv, SettingsRight
  <2>13. FilesRight'
    <3>1. \A d \in data.may : Keys(d.aggregates)' = Keys(d.aggregates)
      <4>1. \A d \in data.may : d.aggregates \in SUBSET Of("aggregates")
        BY DEF IInv, FilesRight, Rightful
      <4> QED
        BY <2>6, <4>1
    <3> QED
      BY <1>3, <2>6, <3>1 DEF IInv, FilesRight
  <2>14. MemoryRight'
    <3>1. \A st \in Store : kept[st] \subseteq DOMAIN events
      BY DEF IInv, MemoryRight, Rightful, Of
    <3>2. \A st \in Store : \A i \in kept[st] : Outlives(i, settings)'
      BY <2>6, <3>1 DEF IInv, MemoryRight
    <3>3. Held(memory)'
      BY <1>3, <2>6 DEF IInv, MemoryRight, Held
    <3> QED
      BY <1>3, <2>6, <3>2, <3>3 DEF IInv, MemoryRight
  <2>15. WriteRight'
    <3>1. next \subseteq Rightful("samples")'
      BY <2>4, <2>6, <2>8
    <3>2. \A i \in next : Outlives(i, settings)'
      <4>1. \A i \in next : i = id \/ i \in kept["samples"]
        BY <1>2, <2>1
      <4> QED
        BY <2>2, <2>3, <2>6, <2>9, <4>1
    <3> QED
      BY <1>3, <1>7, <2>5, <3>1, <3>2 DEF WriteRight
  <2>16. DiskRight'
    BY <1>3, <1>4, <2>5, DiskKept
  <2>17. JobRight'
    BY <1>3, <1>4, <2>5 DEF JobRight
  <2> QED
    BY <2>10, <2>11, <2>12, <2>13, <2>14, <2>15, <2>16, <2>17 DEF IInv
<1> QED
  BY <1>1, <1>2, <1>6, <1>7 DEF TakeSample

\* A set of naturals has a least element.
LEMMA Least == ASSUME NEW T, T \subseteq Nat, T # {} PROVE \E x \in T : \A y \in T : x <= y
<1> DEFINE R == {p \in Nat \X Nat : p[1] < p[2]}
<1>1. IsWellFoundedOn(R, Nat)
  BY NatLessThanWellFounded DEF OpToRel
<1> HIDE DEF R
<1>2. PICK x \in T : \A y \in T : ~(<<y, x>> \in R)
  BY <1>1, WFMin
<1>3. \A y \in T : ~(y < x) /\ x \in Nat /\ y \in Nat
  BY <1>2 DEF R
<1> QED
  BY <1>3

\* One event adds at most one record.
LEMMA KeysAdd ==
    ASSUME NEW T, T \subseteq DOMAIN events, events \in Seq(Event), NEW id \in DOMAIN events
    PROVE  Cardinality(Keys(T \cup {id})) <= Cardinality(Keys(T)) + 1
<1>1. Keys(T \cup {id}) = Keys(T) \cup {Key(id)}
  BY DEF Keys
<1>2. IsFiniteSet(Keys(T)) /\ Cardinality(Keys(T)) \in Nat
  <2>1. T \in SUBSET T
    OBVIOUS
  <2> QED
    BY <2>1, KeysFewer
<1>3. \/ Cardinality(Keys(T) \cup {Key(id)}) = Cardinality(Keys(T))
      \/ Cardinality(Keys(T) \cup {Key(id)}) = Cardinality(Keys(T)) + 1
  BY <1>2, FS_AddElement
<1>4. PICK n \in Nat : n = Cardinality(Keys(T))
  BY <1>2
<1>5. PICK m : m = Cardinality(Keys(T \cup {id}))
  OBVIOUS
<1>6. m = n \/ m = n + 1
  BY <1>1, <1>3, <1>4, <1>5
<1>7. m <= n + 1
  BY <1>6
<1> QED
  BY <1>4, <1>5, <1>7

\* The oldest record is one of them.
LEMMA OldestRight ==
    ASSUME NEW T, T \subseteq DOMAIN events, T # {}, events \in Seq(Event), Len(events) <= MaxEvent
    PROVE  OldestKey(T) \in Keys(T)
<1> DEFINE D == {events[i].day : i \in T}
<1>1. D \subseteq Nat /\ D # {}
  BY EventFields
<1>2. PICK x \in D : \A y \in D : x <= y
  BY <1>1, Least
<1>3. PICK i \in T : x = events[i].day
  BY <1>2
<1>4. Key(i) \in Keys(T) /\ Key(i)[2] = x
  BY <1>3 DEF Key, Keys
<1>5. \A l \in Keys(T) : l[2] \in D
  BY DEF Keys, Key
<1>6. \E k \in Keys(T) : \A l \in Keys(T) : k[2] <= l[2]
  BY <1>2, <1>4, <1>5
<1> QED
  BY <1>6 DEF OldestKey

\* A record goes when there is one too many: one that is not durable, if there is any.
LEMMA EvictRight ==
    ASSUME NEW ids, ids \subseteq DOMAIN events, events \in Seq(Event), Len(events) <= MaxEvent,
           NEW d, NEW day, Cardinality(Keys(ids)) <= RecordLimit + 1
    PROVE  /\ Evict(ids, d, day) \subseteq ids
           /\ Cardinality(Keys(Evict(ids, d, day))) <= RecordLimit
           /\ \A i \in ids \ Evict(ids, d, day) :
                /\ Cardinality(Keys(ids)) > RecordLimit
                /\ Durable(d, events[i], day) => \A j \in ids : Durable(d, events[j], day)
<1>1. Evict(ids, d, day) \subseteq ids
  BY DEF Evict
<1>2. /\ IsFiniteSet(Keys(ids)) /\ Cardinality(Keys(ids)) \in Nat
      /\ Cardinality(Keys(Evict(ids, d, day))) \in Nat /\ RecordLimit \in Nat
  <2>1. ids \in SUBSET ids /\ Evict(ids, d, day) \in SUBSET ids
    BY <1>1
  <2> QED
    BY <2>1, KeysFewer, BoundsAssumption
<1>3. CASE Cardinality(Keys(ids)) <= RecordLimit
  BY <1>1, <1>3 DEF Evict
<1>4. CASE ~(Cardinality(Keys(ids)) <= RecordLimit)
  <2>1. PICK old : old = Evictable(ids, d, day)
    OBVIOUS
  <2>2. ids # {}
    <3>1. Keys({}) = {} /\ Cardinality({}) = 0
      BY FS_EmptySet DEF Keys
    <3>2. Cardinality(Keys(ids)) # 0
      BY <1>2, <1>4
    <3>3. Keys(ids) # {}
      BY <3>1, <3>2
    <3> QED
      BY <3>1, <3>3
  <2>3. old \subseteq ids /\ old # {}
    BY <2>1, <2>2 DEF Evictable
  <2>4. PICK k \in Keys(old) : k = OldestKey(old)
    BY <2>3, OldestRight
  <2>5. Evict(ids, d, day) = {i \in ids : Key(i) # k}
    BY <1>4, <2>1, <2>4 DEF Evict
  <2>6. Cardinality(Keys(Evict(ids, d, day))) <= RecordLimit
    <3>1. k \in Keys(ids) /\ Keys(Evict(ids, d, day)) \subseteq Keys(ids) \ {k}
      BY <2>3, <2>4, <2>5 DEF Keys
    <3>2. IsFiniteSet(Keys(ids) \ {k}) /\ Cardinality(Keys(ids) \ {k}) = Cardinality(Keys(ids)) - 1
      BY <1>2, <3>1, FS_RemoveElement
    <3>3. Cardinality(Keys(Evict(ids, d, day))) <= Cardinality(Keys(ids) \ {k})
      BY <3>1, <3>2, FS_Subset
    <3> QED
      BY <1>2, <3>2, <3>3
  <2>7. ASSUME NEW i \in ids \ Evict(ids, d, day), Durable(d, events[i], day),
               NEW j \in ids, ~Durable(d, events[j], day)
        PROVE  FALSE
    <3>1. Key(i) = k
      BY <2>5, <2>7
    <3>2. j \in ids \ Projected(d, ids, day)
      BY <2>7 DEF Projected
    <3>3. old = ids \ Projected(d, ids, day)
      BY <2>1, <3>2 DEF Evictable
    <3>4. PICK m \in old : Key(m) = k
      BY <2>4 DEF Keys
    <3>5. events[m].subject = events[i].subject /\ events[m].day = events[i].day
      BY <3>1, <3>4 DEF Key
    <3>6. Durable(d, events[m], day)
      BY <2>7, <3>5 DEF Durable
    <3> QED
      BY <3>3, <3>4, <3>6 DEF Projected
  <2> QED
    BY <1>1, <1>2, <1>4, <2>6, <2>7
<1> QED
  BY <1>3, <1>4

\* What the aggregates hold with a signal, and what has gone for it.
LEMMA SignalRight ==
    ASSUME IInv, NEW id \in Of("aggregates") \ forgotten, events[id].rev = settings.rev,
           job.op = "idle", settings.since <= today, today \in Nat
    PROVE  LET d == settings.doc
               told == IF Eligible(d, events[id]) THEN {id} ELSE {}
               next == Evict(Reconciled(d, memory, today) \cup told, d, today)
               durable == Projected(d, next, today)
           IN  /\ Held(next) /\ next \in SUBSET Ids /\ durable \subseteq next
               /\ durable \subseteq Rightful("aggregates")
               /\ \A i \in durable : Outlives(i, settings)
               /\ \A i \in kept["aggregates"] \ durable :
                    Durable(d, events[i], today) => Durable(d, events[id], today)
<1>1. PICK d : d = settings.doc
  OBVIOUS
<1>2. PICK old : old = Reconciled(d, memory, today)
  OBVIOUS
<1>3. PICK told : told = IF Eligible(d, events[id]) THEN {id} ELSE {}
  OBVIOUS
<1>4. PICK ids : ids = old \cup told
  OBVIOUS
<1>5. PICK next : next = Evict(ids, d, today)
  OBVIOUS
<1>6. PICK durable : durable = Projected(d, next, today)
  OBVIOUS
<1>7. /\ events \in Seq(Event) /\ Len(events) <= MaxEvent /\ settings \in Settings /\ d \in Doc
      /\ MemoryRight /\ Held(memory) /\ kept["aggregates"] \subseteq memory
      /\ \A i \in DOMAIN events : events[i] \in Event
  BY <1>1 DEF IInv, Types, Settings, MemoryRight
<1>8. /\ memory \subseteq DOMAIN events /\ id \in DOMAIN events
      /\ memory \subseteq Of("aggregates") \ forgotten
      /\ old \subseteq memory /\ told \subseteq {id}
      /\ old \subseteq DOMAIN events /\ ids \subseteq DOMAIN events
  BY <1>2, <1>3, <1>4, <1>7 DEF Held, Of, Reconciled
<1>9. Cardinality(Keys(old)) <= RecordLimit /\ Cardinality(Keys(old)) \in Nat
      /\ RecordLimit \in Nat
  <2>1. /\ Cardinality(Keys(old)) \in Nat /\ Cardinality(Keys(memory)) \in Nat
        /\ Cardinality(Keys(old)) <= Cardinality(Keys(memory))
    BY <1>7, <1>8, KeysFewer
  <2> QED
    BY <1>7, <2>1, BoundsAssumption DEF Held
<1>10. Cardinality(Keys(ids)) <= RecordLimit + 1
  <2>1. CASE told = {}
    BY <1>4, <1>9, <2>1
  <2>2. CASE told # {}
    <3>1. ids = old \cup {id}
      BY <1>4, <1>8, <2>2
    <3>2. Cardinality(Keys(ids)) <= Cardinality(Keys(old)) + 1
      BY <1>7, <1>8, <3>1, KeysAdd
    <3>3. Cardinality(Keys(ids)) \in Nat
      <4>1. ids \in SUBSET ids
        OBVIOUS
      <4> QED
        BY <1>7, <1>8, <4>1, KeysFewer
    <3> QED
      BY <1>9, <3>2, <3>3
  <2> QED
    BY <2>1, <2>2
<1>11. /\ next \subseteq ids /\ Cardinality(Keys(next)) <= RecordLimit
       /\ \A i \in ids \ next :
            /\ Cardinality(Keys(ids)) > RecordLimit
            /\ Durable(d, events[i], today) => \A j \in ids : Durable(d, events[j], today)
  BY <1>5, <1>7, <1>8, <1>10, EvictRight
<1>12. \A i \in ids : d.days[events[i].subject] # 0 => events[i].keep
  <2>1. \A i \in memory : d.days[events[i].subject] # 0 => events[i].keep
    BY <1>1, <1>7 DEF Held
  <2>2. settings \in file.may
    BY DEF IInv, SettingsRight
  <2>3. d.days[events[id].subject] # 0 => events[id].keep
    BY <1>1, <1>8, <2>2 DEF IInv, SettingsRight
  <2> QED
    BY <1>4, <1>8, <2>1, <2>3
<1>13. Held(next) /\ next \in SUBSET Ids
  <2>1. next \subseteq Of("aggregates") \ forgotten
    BY <1>4, <1>8, <1>11
  <2> QED
    BY <1>1, <1>7, <1>8, <1>11, <1>12, <2>1, EventFields DEF Held
<1>14. durable \subseteq next /\ \A i \in durable : Durable(d, events[i], today)
  BY <1>6 DEF Projected
<1>15. \A i \in durable : Outlives(i, settings) /\ d.days[events[i].subject] # 0
  <2>1. Narrower(d, settings.doc)
    BY <1>1, SelfNarrower
  <2> QED
    BY <1>1, <1>7, <1>8, <1>11, <1>14, <2>1, DurableOutlives
<1>16. durable \subseteq Rightful("aggregates")
  BY <1>4, <1>8, <1>11, <1>12, <1>14, <1>15 DEF Rightful
<1>17. ASSUME NEW i \in kept["aggregates"] \ durable, Durable(d, events[i], today)
       PROVE  Durable(d, events[id], today)
  <2>1. i \in old
    <3>1. Live(d, events[i], today)
      <4>1. Valid(d) /\ events[i] \in Event
        BY <1>1, <1>7, <1>8 DEF IInv, SettingsRight
      <4> QED
        BY <1>7, <1>17, <4>1, DurableLives
    <3> QED
      BY <1>2, <1>7, <3>1 DEF Reconciled
  <2>2. i \in ids \ next
    BY <1>4, <1>6, <1>17, <2>1 DEF Projected
  <2>3. Cardinality(Keys(ids)) > RecordLimit /\ \A j \in ids : Durable(d, events[j], today)
    BY <1>11, <1>17, <2>2
  <2>4. told # {}
    BY <1>4, <1>9, <2>3
  <2>5. id \in ids
    BY <1>4, <1>8, <2>4
  <2> QED
    BY <2>3, <2>5
<1> QED
  BY <1>1, <1>2, <1>3, <1>4, <1>5, <1>6, <1>13, <1>14, <1>15, <1>16, <1>17

LEMMA TakeSignalKeeps == ASSUME IInv, TakeSignal PROVE IInv'
<1>1. PICK id : id = Head(queue).id
  OBVIOUS
<1>2. PICK told : told = IF Eligible(settings.doc, events[id]) THEN {id} ELSE {}
  OBVIOUS
<1>3. PICK next : next = Evict(Reconciled(settings.doc, memory, today) \cup told, settings.doc, today)
  OBVIOUS
<1>4. PICK durable : durable = Projected(settings.doc, next, today)
  OBVIOUS
<1>5. /\ Idle /\ queue # <<>> /\ Head(queue).op = "signal" /\ queue' = Tail(queue)
      /\ UNCHANGED <<settings, kept, usable, file, data, today, events, forgotten, faults>>
  BY DEF TakeSignal, Taking, UNCHANGEDworld
<1>6. /\ job = Blank /\ ~Busy /\ job.step = "plan" /\ job.op = "idle"
      /\ settings.since <= today /\ today \in Nat
      /\ usable["aggregates"] => \A d \in data.may : d.aggregates = kept["aggregates"]
  BY <1>5, IdleRight
<1>7. id \in 0 .. MaxEvent /\ id \in Of("aggregates") \ forgotten
  BY <1>1, <1>5, Taken
<1>8. /\ settings' = settings /\ MemoryRight /\ memory \in SUBSET Ids
  BY <1>5 DEF IInv, Types
<1>9. CASE /\ UNCHANGED job
           /\ \/ memory' = memory
              \/ /\ usable["aggregates"] /\ events[id].rev = settings.rev
                 /\ durable = kept["aggregates"] /\ memory' = next
  <2>1. queue' \in Seq(Command) /\ QueueRight'
    BY <1>5, <1>6, <1>9, RightfulSame, TailRight
  <2>2. memory' \in SUBSET Ids /\ MemoryRight'
    <3>1. CASE memory' = memory
      BY <1>5, <1>8, <3>1, MemorySame
    <3>2. CASE memory' # memory
      <4>1. /\ Held(next) /\ next \in SUBSET Ids /\ durable \subseteq next
        BY <1>2, <1>3, <1>4, <1>6, <1>7, <1>9, <3>2, SignalRight
      <4>2. Held(memory)'
        BY <1>5, <1>9, <3>2, <4>1, RightfulSame DEF Held
      <4> QED
        BY <1>5, <1>8, <1>9, <3>2, <4>1, <4>2, RightfulSame, HeldSame DEF MemoryRight
    <3> QED
      BY <3>1, <3>2
  <2>3. Types' /\ SettingsRight' /\ FilesRight' /\ JobRight'
    BY <1>5, <1>6, <1>9, <2>1, <2>2, SettingsSame, FilesSame, BlankKeeps DEF IInv, Types
  <2>4. DiskRight' /\ WriteRight'
    BY <1>5, <1>6, <1>9, DiskKept, NotWriting
  <2> QED
    BY <2>1, <2>2, <2>3, <2>4 DEF IInv
<1>10. CASE /\ usable["aggregates"] /\ events[id].rev = settings.rev
            /\ Write(Fresh("signal", id), "aggregates", durable, next) /\ UNCHANGED memory
  <2>1. /\ Held(next) /\ next \in SUBSET Ids /\ durable \subseteq next
        /\ durable \subseteq Rightful("aggregates") /\ \A i \in durable : Outlives(i, settings)
        /\ \A i \in kept["aggregates"] \ durable :
             Durable(settings.doc, events[i], today) => Durable(settings.doc, events[id], today)
    BY <1>2, <1>3, <1>4, <1>6, <1>7, <1>10, SignalRight
  <2>2. durable \in SUBSET Ids
    BY <2>1
  <2>3. /\ job' \in Job /\ job'.step = "write" /\ job'.op = "signal" /\ job'.id = id
        /\ job'.todo = <<>> /\ job'.store = "aggregates" /\ job'.target = durable
        /\ job'.next = next /\ job'.day = today /\ Busy'
    BY <1>5, <1>7, <1>10, <2>1, <2>2, WriteBegins DEF Store
  <2>4. queue' \in Seq(Command) /\ QueueRight'
    BY <1>5, <2>3, RightfulSame, TailRight
  <2>5. Types' /\ SettingsRight' /\ FilesRight' /\ MemoryRight'
    BY <1>5, <1>6, <1>10, <2>3, <2>4, SettingsSame, FilesSame, MemorySame DEF IInv, Types
  <2>6. DiskRight'
    BY <1>5, <1>6, <2>3, DiskKept
  <2>7. Held(next)' /\ durable \subseteq Rightful("aggregates")'
        /\ \A i \in durable : Outlives(i, settings)'
    BY <1>5, <2>1, RightfulSame, HeldSame
  <2>8. WriteRight'
    BY <1>5, <1>10, <2>1, <2>3, <2>7 DEF WriteRight, Held
  <2>9. Signalling'
    BY <1>5, <1>7, <2>1, <2>3 DEF Signalling, Of
  <2>10. JobRight'
    BY <1>5, <1>6, <2>3, <2>9 DEF JobRight
  <2> QED
    BY <2>4, <2>5, <2>6, <2>8, <2>10 DEF IInv
<1> QED
  BY <1>1, <1>2, <1>3, <1>4, <1>9, <1>10 DEF TakeSignal

-----------------------------------------------------------------------------
(* What users do                                                           *)

\* The queue with a command for which there was room.
LEMMA RoomRight ==
    ASSUME IInv, Running, Room, NEW c \in Command, c.op # "snapshot", queue' = Append(queue, c)
    PROVE  /\ queue' \in Seq(Command) /\ DOMAIN queue' = 1 .. Len(queue) + 1 /\ Len(queue) \in Nat
           /\ DOMAIN queue = 1 .. Len(queue) /\ queue'[Len(queue) + 1] = c
           /\ \A k \in DOMAIN queue : queue'[k] = queue[k] /\ k \in DOMAIN queue'
           /\ Len(queue') <= Capacity
                + (IF \E k \in DOMAIN queue' : queue'[k].op = "snapshot" THEN 1 ELSE 0)
<1>1. queue \in Seq(Command) /\ QueueRight
  BY DEF IInv, Types
<1>2. /\ queue' \in Seq(Command) /\ Len(queue') = Len(queue) + 1 /\ Len(queue) \in Nat
      /\ DOMAIN queue' = 1 .. Len(queue) + 1 /\ DOMAIN queue = 1 .. Len(queue)
      /\ queue'[Len(queue) + 1] = c
      /\ \A k \in DOMAIN queue : queue'[k] = queue[k] /\ k \in DOMAIN queue'
  BY <1>1, AppendProperties
<1>3. PICK n \in Nat : n = Len(queue)
  BY <1>2
<1>4. PICK S : S = {k \in DOMAIN queue : queue[k].op # "snapshot"}
  OBVIOUS
<1>5. Cardinality(S) < Capacity
  BY <1>4 DEF Room
<1>6. \A k \in DOMAIN queue : queue[k].op = "snapshot" => k = 1
  BY <1>1 DEF QueueRight
<1>7. CASE \E k \in DOMAIN queue : queue[k].op = "snapshot"
  <2>1. 1 \in DOMAIN queue /\ queue[1].op = "snapshot"
    BY <1>6, <1>7
  <2>2. S = 2 .. n
    BY <1>2, <1>3, <1>4, <1>6, <2>1
  <2>3. n >= 1
    BY <1>2, <1>3, <2>1
  <2>4. Cardinality(S) = n - 1
    BY <2>2, <2>3, FS_Interval
  <2>5. n + 1 <= Capacity + 1
    BY <1>5, <2>3, <2>4, BoundsAssumption
  <2>6. \E k \in DOMAIN queue' : queue'[k].op = "snapshot"
    BY <1>2, <2>1
  <2> QED
    BY <1>2, <1>3, <2>5, <2>6
<1>8. CASE ~ \E k \in DOMAIN queue : queue[k].op = "snapshot"
  <2>1. S = 1 .. n
    BY <1>2, <1>3, <1>4, <1>8
  <2>2. Cardinality(S) = n
    BY <2>1, FS_Interval
  <2>3. n + 1 <= Capacity
    BY <1>5, <2>2, BoundsAssumption
  <2>4. PICK x : x = IF \E k \in DOMAIN queue' : queue'[k].op = "snapshot" THEN 1 ELSE 0
    OBVIOUS
  <2>5. x = 0 \/ x = 1
    BY <2>4
  <2>6. Len(queue') <= Capacity + x
    BY <1>2, <1>3, <2>3, <2>5, BoundsAssumption
  <2> QED
    BY <1>2, <2>4, <2>6
<1> QED
  BY <1>2, <1>7, <1>8

LEMMA AskToForgetKeeps ==
    ASSUME IInv, NEW op \in {"clear", "forget"}, AskToForget(op)
    PROVE  IInv'
<1>1. PICK c : c = [op |-> op, id |-> Len(events)]
  OBVIOUS
<1>2. /\ Running /\ Room /\ queue' = Append(queue, c)
      /\ UNCHANGED <<settings, memory, kept, usable, file, data, job, today, events, faults,
                     forgotten>>
  BY <1>1 DEF AskToForget, UNCHANGEDstores, UNCHANGEDworld
<1>3. c \in Command /\ c.op \in {"clear", "forget"} /\ c.id = Len(events)
  <2>1. Len(events) \in 0 .. MaxEvent
    BY EventFields, BoundsAssumption DEF IInv, Types
  <2> QED
    BY <1>1, <2>1 DEF Command
<1>4. /\ queue' \in Seq(Command) /\ DOMAIN queue' = 1 .. Len(queue) + 1 /\ Len(queue) \in Nat
      /\ DOMAIN queue = 1 .. Len(queue) /\ queue'[Len(queue) + 1] = c
      /\ \A k \in DOMAIN queue : queue'[k] = queue[k] /\ k \in DOMAIN queue'
      /\ Len(queue') <= Capacity
           + (IF \E k \in DOMAIN queue' : queue'[k].op = "snapshot" THEN 1 ELSE 0)
  BY <1>2, <1>3, RoomRight
<1>5. QueueRight'
  <2>1. \A k \in DOMAIN queue' : k \in Nat /\ (k \in DOMAIN queue \/ queue'[k] = c)
    BY <1>4
  <2>2. Len(events) <= Len(events)
    BY EventFields DEF IInv, Types
  <2>3. ASSUME NEW k \in DOMAIN queue'
        PROVE  /\ queue'[k].id <= Len(events)
               /\ queue'[k].op = "snapshot" => k = 1 /\ job.op # "clear"
               /\ queue'[k].op = "signal" => queue'[k].id \in Of("aggregates") \ forgotten
               /\ queue'[k].op = "sample" => queue'[k].id \in Of("samples") \ forgotten
    BY <1>3, <1>4, <2>1, <2>2 DEF IInv, QueueRight
  <2>4. ASSUME NEW k \in DOMAIN queue', queue'[k].op \in {"signal", "sample"}
        PROVE  /\ job.op \in {"clear", "forget"} => job.id < queue'[k].id
               /\ \A l \in DOMAIN queue' :
                    l < k /\ queue'[l].op \in {"clear", "forget"} => queue'[l].id < queue'[k].id
    <3>1. k \in DOMAIN queue /\ queue'[k] = queue[k]
      BY <1>3, <1>4, <2>1, <2>4
    <3>2. \A l \in DOMAIN queue' : l < k => l \in DOMAIN queue /\ queue'[l] = queue[l]
      BY <1>4, <3>1
    <3> QED
      BY <2>4, <3>1, <3>2 DEF IInv, QueueRight
  <2>5. /\ job'.op \in {"clear", "forget"} => job'.id <= Len(events')
        /\ forgotten' \subseteq DOMAIN events'
    BY <1>2 DEF IInv, QueueRight
  <2> QED
    BY <1>2, <1>4, <2>3, <2>4, <2>5, RightfulSame DEF QueueRight, Running
<1>6. Types' /\ SettingsRight' /\ FilesRight' /\ MemoryRight'
  BY <1>2, <1>4, SettingsSame, FilesSame, MemorySame DEF IInv, Types
<1>7. WriteRight' /\ DiskRight' /\ JobRight'
  <2>1. Busy <=> Busy'
    BY <1>2 DEF Busy
  <2>2. WriteRight'
    BY <1>2, <2>1, NotWriting, WriteSame DEF IInv, WriteRight
  <2>3. DiskRight'
    BY <1>2 DEF IInv, DiskRight
  <2> QED
    BY <1>2, <2>2, <2>3, JobSame DEF IInv
<1> QED
  BY <1>4, <1>5, <1>6, <1>7 DEF IInv

\* What is observed changes nothing of what was.
LEMMA EventsGrow ==
    ASSUME IInv, NEW e \in Event, events' = Append(events, e), UNCHANGED <<settings, forgotten>>
    PROVE  /\ events' \in Seq(Event) /\ Len(events') = Len(events) + 1
           /\ DOMAIN events' = 1 .. Len(events) + 1 /\ DOMAIN events = 1 .. Len(events)
           /\ Len(events) \in Nat /\ events'[Len(events) + 1] = e
           /\ \A i \in DOMAIN events : events'[i] = events[i] /\ i \in DOMAIN events'
           /\ \A st : Of(st) \subseteq Of(st)' /\ Rightful(st) \subseteq Rightful(st)'
           /\ \A ids \in SUBSET DOMAIN events : Keys(ids)' = Keys(ids)
           /\ \A ids : Held(ids) => Held(ids)'
           /\ \A i \in DOMAIN events : Outlives(i, settings) <=> Outlives(i, settings)'
<1>1. events \in Seq(Event)
  BY DEF IInv, Types
<1>2. /\ events' \in Seq(Event) /\ Len(events') = Len(events) + 1
      /\ DOMAIN events' = 1 .. Len(events) + 1 /\ DOMAIN events = 1 .. Len(events)
      /\ Len(events) \in Nat /\ events'[Len(events) + 1] = e
      /\ \A i \in DOMAIN events : events'[i] = events[i] /\ i \in DOMAIN events'
  BY <1>1, AppendProperties
<1>3. \A st : Of(st) \subseteq Of(st)' /\ Rightful(st) \subseteq Rightful(st)'
  BY <1>2 DEF Of, Rightful
<1>4. ASSUME NEW ids \in SUBSET DOMAIN events PROVE Keys(ids)' = Keys(ids)
  BY <1>2 DEF Keys, Key
<1>5. ASSUME NEW ids, Held(ids) PROVE Held(ids)'
  <2>1. /\ ids \subseteq Of("aggregates") \ forgotten
        /\ \A i \in ids : settings.doc.days[events[i].subject] # 0 => events[i].keep
        /\ Cardinality(Keys(ids)) <= RecordLimit
    BY <1>5 DEF Held
  <2>2. ids \in SUBSET DOMAIN events
    BY <2>1 DEF Of
  <2> QED
    BY <1>2, <1>3, <1>4, <2>1, <2>2 DEF Held
<1>6. \A i \in DOMAIN events : Outlives(i, settings) <=> Outlives(i, settings)'
  BY <1>2 DEF Outlives
<1> QED
  BY <1>2, <1>3, <1>4, <1>5, <1>6

LEMMA ObserveKeeps ==
    ASSUME IInv, NEW st \in Store, NEW s \in Subject, Observe(st, s)
    PROVE  IInv'
<1>1. PICK e : e = [store |-> st, subject |-> s, day |-> today, rev |-> settings.rev,
                    keep |-> settings.doc.days[s] # 0]
  OBVIOUS
<1>2. PICK n : n = Len(events) + 1
  OBVIOUS
<1>3. PICK c : c = [op |-> IF st = "samples" THEN "sample" ELSE "signal", id |-> n]
  OBVIOUS
<1>4. /\ Running /\ Room /\ job.op # "replace" /\ settings = file.now /\ Len(events) < MaxEvent
      /\ events' = Append(events, e) /\ queue' = Append(queue, c)
      /\ UNCHANGED <<settings, memory, kept, usable, file, data, job, today, forgotten, faults>>
  BY <1>1, <1>2, <1>3 DEF Observe, UNCHANGEDstores
<1>5. /\ e \in Event /\ e.store = st /\ e.subject = s /\ e.day = today /\ e.rev = settings.rev
      /\ e.keep <=> settings.doc.days[s] # 0
  <2>1. today \in 0 .. MaxDay /\ settings.rev \in 0 .. MaxRev
    BY DEF IInv, Types, Settings
  <2>2. (settings.doc.days[s] # 0) \in BOOLEAN
    OBVIOUS
  <2>3. e \in Event
    BY <1>1, <2>1, <2>2 DEF Event
  <2> QED
    BY <1>1, <2>3
<1>6. /\ events' \in Seq(Event) /\ Len(events') = n
      /\ DOMAIN events' = 1 .. n /\ DOMAIN events = 1 .. Len(events)
      /\ Len(events) \in Nat /\ events'[n] = e /\ n \in Nat /\ n = Len(events) + 1
      /\ \A i \in DOMAIN events : events'[i] = events[i] /\ i \in DOMAIN events'
      /\ \A t : Of(t) \subseteq Of(t)' /\ Rightful(t) \subseteq Rightful(t)'
      /\ \A ids \in SUBSET DOMAIN events : Keys(ids)' = Keys(ids)
      /\ \A ids : Held(ids) => Held(ids)'
      /\ \A i \in DOMAIN events : Outlives(i, settings) <=> Outlives(i, settings)'
  BY <1>2, <1>4, <1>5, EventsGrow
<1>7. n <= MaxEvent /\ n \in 0 .. MaxEvent
  BY <1>4, <1>6, BoundsAssumption
<1>8. /\ c \in Command /\ c.id = n
      /\ c.op = IF st = "samples" THEN "sample" ELSE "signal"
  BY <1>3, <1>7 DEF Command
<1>9. /\ queue' \in Seq(Command) /\ DOMAIN queue' = 1 .. Len(queue) + 1 /\ Len(queue) \in Nat
      /\ DOMAIN queue = 1 .. Len(queue) /\ queue'[Len(queue) + 1] = c
      /\ \A k \in DOMAIN queue : queue'[k] = queue[k] /\ k \in DOMAIN queue'
      /\ Len(queue') <= Capacity
           + (IF \E k \in DOMAIN queue' : queue'[k].op = "snapshot" THEN 1 ELSE 0)
  BY <1>4, <1>8, RoomRight
<1>10. Types'
  BY <1>4, <1>6, <1>7, <1>9 DEF IInv, Types
<1>11. n \in Of(st)' /\ n \notin forgotten
  <2>1. n \in Of(st)'
    BY <1>5, <1>6 DEF Of
  <2>2. forgotten \subseteq DOMAIN events
    BY DEF IInv, QueueRight
  <2> QED
    BY <1>6, <2>1, <2>2
<1>12. QueueRight'
  <2>1. \A k \in DOMAIN queue' : k \in Nat /\ (k \in DOMAIN queue \/ k = Len(queue) + 1)
    BY <1>9
  <2>2. \A k \in DOMAIN queue : queue[k].id \in Nat /\ queue[k].id <= Len(events)
    <3>1. \A k \in DOMAIN queue : queue[k] \in Command
      BY DEF IInv, Types
    <3> QED
      BY <3>1, BoundsAssumption DEF Command, IInv, QueueRight
  <2>3. ASSUME NEW k \in DOMAIN queue'
        PROVE  /\ queue'[k].id <= n
               /\ queue'[k].op = "snapshot" => k = 1 /\ job.op # "clear"
               /\ queue'[k].op = "signal" => queue'[k].id \in Of("aggregates")' \ forgotten
               /\ queue'[k].op = "sample" => queue'[k].id \in Of("samples")' \ forgotten
    <3>1. CASE k \in DOMAIN queue
      BY <1>6, <1>9, <2>2, <3>1 DEF IInv, QueueRight
    <3>2. CASE k = Len(queue) + 1
      BY <1>6, <1>8, <1>9, <1>11, <3>2 DEF Store
    <3> QED
      BY <2>1, <3>1, <3>2
  <2>4. ASSUME NEW k \in DOMAIN queue', queue'[k].op \in {"signal", "sample"}
        PROVE  /\ job.op \in {"clear", "forget"} => job.id < queue'[k].id
               /\ \A l \in DOMAIN queue' :
                    l < k /\ queue'[l].op \in {"clear", "forget"} => queue'[l].id < queue'[k].id
    <3>1. \A l \in DOMAIN queue' : l < k => l \in DOMAIN queue /\ queue'[l] = queue[l]
      BY <1>9, <2>1
    <3>2. CASE k \in DOMAIN queue
      BY <1>9, <2>4, <3>1, <3>2 DEF IInv, QueueRight
    <3>3. CASE k = Len(queue) + 1
      <4>1. queue'[k].id = n
        BY <1>8, <1>9, <3>3
      <4>2. job.op \in {"clear", "forget"} => job.id <= Len(events) /\ job.id \in Nat
        <5>1. job.id \in Nat
          BY BoundsAssumption DEF IInv, Types, Job
        <5> QED
          BY <5>1 DEF IInv, QueueRight
      <4> QED
        BY <1>6, <2>2, <3>1, <4>1, <4>2
    <3> QED
      BY <2>1, <3>2, <3>3
  <2>5. /\ job'.op \in {"clear", "forget"} => job'.id <= Len(events')
        /\ forgotten' \subseteq DOMAIN events'
    <3>1. job.id \in Nat
      BY BoundsAssumption DEF IInv, Types, Job
    <3> QED
      BY <1>4, <1>6, <3>1 DEF IInv, QueueRight
  <2> QED
    BY <1>4, <1>6, <1>9, <2>3, <2>4, <2>5 DEF QueueRight, Running
<1>13. SettingsRight'
  <2>1. settings \in file.may /\ \A f \in file.may : f = settings
    BY <1>4 DEF IInv, SettingsRight, Running
  <2>2. settings.rev \in Nat /\ today \in Nat
    BY BoundsAssumption DEF IInv, Types, Settings
  <2>3. ASSUME NEW i \in DOMAIN events'
        PROVE  /\ events'[i].day <= today
               /\ \A f \in file.may :
                    /\ events'[i].rev <= f.rev
                    /\ events'[i].rev = f.rev =>
                        (events'[i].keep <=> f.doc.days[events'[i].subject] # 0)
    <3>1. CASE i \in DOMAIN events
      BY <1>6, <3>1 DEF IInv, SettingsRight
    <3>2. CASE i = n
      BY <1>5, <1>6, <2>1, <2>2, <3>2
    <3> QED
      BY <1>6, <3>1, <3>2
  <2> QED
    BY <1>4, <2>3 DEF IInv, SettingsRight
<1>14. /\ \A d \in data.may : d.aggregates \in SUBSET DOMAIN events
       /\ memory \in SUBSET DOMAIN events
       /\ \A t \in Store : kept[t] \in SUBSET DOMAIN events
       /\ Busy => job.target \in SUBSET DOMAIN events
       /\ Busy /\ job.store = "aggregates" => job.next \in SUBSET DOMAIN events
  BY DEF IInv, FilesRight, MemoryRight, WriteRight, Held, Rightful, Of
<1>15. FilesRight'
  <2>1. \A d \in data.may : Keys(d.aggregates)' = Keys(d.aggregates)
    BY <1>6, <1>14
  <2>2. Rightful("aggregates") \subseteq Rightful("aggregates")'
        /\ Rightful("samples") \subseteq Rightful("samples")'
    BY <1>6
  <2> QED
    BY <1>4, <2>1, <2>2 DEF IInv, FilesRight
<1>16. MemoryRight'
  <2>1. Held(memory)'
    BY <1>4, <1>6 DEF IInv, MemoryRight, Held
  <2>2. \A t \in Store : kept[t] \subseteq Rightful(t)' /\ \A i \in kept[t] : Outlives(i, settings)'
    BY <1>6, <1>14 DEF IInv, MemoryRight
  <2> QED
    BY <1>4, <2>1, <2>2 DEF IInv, MemoryRight
<1>17. Busy <=> Busy'
  BY <1>4 DEF Busy
<1>18. WriteRight'
  <2>1. Busy => /\ job'.target \subseteq Rightful(job.store)'
                /\ \A i \in job'.target : Outlives(i, settings)'
    <3>1. PICK t : t = job.store
      OBVIOUS
    <3>2. PICK ids : ids = job.target
      OBVIOUS
    <3>3. Busy => ids \subseteq Rightful(t) /\ \A i \in ids : Outlives(i, settings)
      BY <3>1, <3>2 DEF IInv, WriteRight
    <3>4. Busy => ids \subseteq Rightful(t)' /\ \A i \in ids : Outlives(i, settings)'
      BY <1>6, <1>14, <3>2, <3>3
    <3>5. job'.store = t /\ job'.target = ids
      BY <1>4, <3>1, <3>2
    <3> QED
      BY <3>4, <3>5
  <2>2. Busy /\ job.store = "aggregates" => Held(job.next)'
    <3>1. PICK next : next = job.next
      OBVIOUS
    <3>2. Held(next) => Held(next)'
      BY <1>6
    <3> QED
      BY <1>4, <3>1, <3>2 DEF IInv, WriteRight, Held
  <2> QED
    BY <1>4, <1>17, <2>1, <2>2 DEF IInv, WriteRight
<1>19. DiskRight'
  BY <1>4 DEF IInv, DiskRight
<1>20. JobRight'
  <2>1. /\ \A d : SamplesWithin(d) => SamplesWithin(d)'
        /\ \A d : AggregatesWithin(d) => AggregatesWithin(d)'
    BY <1>4, <1>6, <1>14 DEF SamplesWithin, AggregatesWithin, Projected, Store
  <2>2. /\ \A d : Busy /\ SamplesTo(d) => SamplesTo(d)'
        /\ \A d : Busy /\ AggregatesTo(d) => AggregatesTo(d)'
    BY <1>4, <1>6, <1>14 DEF SamplesTo, AggregatesTo, Projected
  <2>3. job.op = "sweep" => Sweeping'
    BY <1>4, <1>17, <2>1, <2>2 DEF IInv, JobRight, Sweeping
  <2>4. job.op = "signal" => Signalling'
    BY <1>4, <1>6, <1>14, <1>17 DEF IInv, JobRight, Signalling, Store
  <2>5. /\ job.op = "clear" => Clearing'
        /\ job.op = "forget" => Forgetting'
    BY <1>4, <1>17 DEF IInv, JobRight, Clearing, Forgetting
  <2> QED
    BY <1>4, <1>17, <2>3, <2>4, <2>5 DEF IInv, JobRight, Running
<1> QED
  BY <1>10, <1>12, <1>13, <1>15, <1>16, <1>18, <1>19, <1>20 DEF IInv

-----------------------------------------------------------------------------
(* Process and machine                                                     *)

LEMMA DenyAllRight == DenyAll \in Doc /\ Valid(DenyAll) /\ NoSettings \in Settings
<1>1. DenyAll \in Doc
  BY BoundsAssumption DEF DenyAll, Doc
<1>2. Valid(DenyAll)
  BY DEF Valid, DenyAll
<1>3. NoSettings \in Settings
  BY <1>1, BoundsAssumption DEF NoSettings, Settings
<1> QED
  BY <1>1, <1>2, <1>3

\* A process that does not run holds nothing.
LEMMA DownKeeps ==
    ASSUME job' = Down, settings' = NoSettings, memory' = {}, kept' = Nothing,
           usable' = [st \in Store |-> FALSE], queue' = <<>>, forgotten' \subseteq DOMAIN events'
    PROVE  /\ settings' \in Settings /\ memory' \subseteq Ids /\ kept' \in [Store -> SUBSET Ids]
           /\ usable' \in [Store -> BOOLEAN] /\ queue' \in Seq(Command) /\ job' \in Job
           /\ MemoryRight' /\ WriteRight' /\ DiskRight' /\ QueueRight' /\ JobRight'
<1>1. /\ settings' \in Settings /\ memory' \subseteq Ids /\ kept' \in [Store -> SUBSET Ids]
      /\ usable' \in [Store -> BOOLEAN] /\ queue' \in Seq(Command) /\ job' \in Job
      /\ job'.op = "down" /\ job'.step = "plan"
  BY DenyAllRight, BlankRight, EmptySeq DEF Nothing
<1>2. /\ ~usable'["aggregates"] /\ \A st \in Store : kept'[st] = {}
  BY DEF Store, Nothing
<1>3. Held(memory)'
  BY EmptyRight DEF Held, Keys
<1>4. MemoryRight'
  BY <1>2, <1>3 DEF MemoryRight, Store
<1>5. WriteRight' /\ DiskRight'
  BY <1>1, <1>2, NotWriting, DiskKept
<1>6. QueueRight'
  <2>1. DOMAIN queue' = {} /\ Len(queue') = 0
    OBVIOUS
  <2>2. ~ \E k \in DOMAIN queue' : queue'[k].op = "snapshot"
    BY <2>1
  <2>3. Len(queue') <= Capacity + (IF \E k \in DOMAIN queue' : queue'[k].op = "snapshot"
                                   THEN 1 ELSE 0)
    BY <2>1, <2>2, BoundsAssumption
  <2> QED
    BY <1>1, <2>1, <2>3 DEF QueueRight
<1>7. JobRight'
  BY <1>1 DEF JobRight
<1> QED
  BY <1>1, <1>4, <1>5, <1>6, <1>7

LEMMA InitHolds == Init => IInv
<1> SUFFICES ASSUME Init PROVE IInv
  OBVIOUS
<1> DEFINE empty == [aggregates |-> {}, samples |-> {}, temps |-> {}]
<1>1. PICK d \in Docs \cup {DenyAll} :
        file = [now |-> [NoSettings EXCEPT !.doc = d], may |-> {[NoSettings EXCEPT !.doc = d]}]
  BY DEF Init
<1>2. /\ settings = NoSettings /\ memory = {} /\ kept = Nothing
      /\ usable = [st \in Store |-> FALSE] /\ data = [now |-> empty, may |-> {empty}]
      /\ queue = <<>> /\ job = Down /\ today = 0 /\ events = <<>> /\ forgotten = {} /\ faults = 0
  BY DEF Init
<1>3. PICK f : f = [NoSettings EXCEPT !.doc = d]
  OBVIOUS
<1>4. d \in Doc /\ Valid(d)
  BY DocsAssumption, DenyAllRight
<1>5. f \in Settings /\ f.doc = d /\ f.since = 0 /\ f.rev = 0
  BY <1>3, <1>4, DenyAllRight DEF NoSettings, Settings
<1>6. file.now = f /\ file.may = {f}
  BY <1>1, <1>3
<1>7. /\ empty \in Directory /\ empty.aggregates = {} /\ empty.samples = {} /\ empty.temps = {}
  BY DEF Directory
<1> HIDE DEF empty
<1>8. data.now = empty /\ data.may = {empty}
  BY <1>2
<1>9. DOMAIN events = {} /\ Len(events) = 0 /\ events \in Seq(Event)
  BY <1>2, EmptySeq
<1>10. /\ settings \in Settings /\ memory \subseteq Ids /\ kept \in [Store -> SUBSET Ids]
       /\ usable \in [Store -> BOOLEAN] /\ queue \in Seq(Command) /\ job \in Job
       /\ job.op = "down" /\ job.step = "plan"
  BY <1>2, DenyAllRight, BlankRight, EmptySeq DEF Nothing
<1>11. Types
  BY <1>2, <1>5, <1>6, <1>7, <1>8, <1>9, <1>10, BoundsAssumption DEF Types
<1>12. SettingsRight
  <2>1. NoSettings.since = 0 /\ NoSettings.doc = DenyAll
    BY DEF NoSettings
  <2>2. \A g \in file.may \cup {settings} : Valid(g.doc) /\ g.since <= today
    BY <1>2, <1>4, <1>5, <1>6, <2>1, DenyAllRight
  <2> QED
    BY <1>5, <1>6, <1>9, <1>10, <2>2 DEF SettingsRight
<1>13. FilesRight
  BY <1>7, <1>8, EmptyRight DEF FilesRight
<1>14. Held(memory)
  BY <1>2, EmptyRight DEF Held
<1>15. ~usable["aggregates"] /\ \A st \in Store : kept[st] = {}
  BY <1>2 DEF Store, Nothing
<1>16. MemoryRight
  BY <1>2, <1>14, <1>15 DEF MemoryRight, Store
<1>17. WriteRight /\ DiskRight
  BY <1>10, <1>15 DEF WriteRight, DiskRight, Busy
<1>18. QueueRight
  <2>1. DOMAIN queue = {} /\ Len(queue) = 0
    BY <1>2
  <2>2. Len(queue) <= Capacity + (IF \E k \in DOMAIN queue : queue[k].op = "snapshot"
                                  THEN 1 ELSE 0)
    BY <2>1, BoundsAssumption
  <2> QED
    BY <1>2, <1>10, <2>1, <2>2 DEF QueueRight
<1>19. JobRight
  BY <1>2, <1>10 DEF JobRight
<1> QED
  BY <1>11, <1>12, <1>13, <1>16, <1>17, <1>18, <1>19 DEF IInv

\* The process ends; a power loss leaves one of what could be left.
LEMMA StopKeeps ==
    ASSUME IInv, Stop, Fails, UNCHANGED forgotten,
           \/ UNCHANGED file
           \/ \E f \in file.may : file' = [now |-> f, may |-> {f}],
           data'.now \in data'.may, data'.may \subseteq data.may
    PROVE  IInv'
<1>1. /\ job' = Down /\ settings' = NoSettings /\ memory' = {} /\ kept' = Nothing
      /\ usable' = [st \in Store |-> FALSE] /\ queue' = <<>>
      /\ UNCHANGED <<events, today, forgotten>>
  BY DEF Stop, Fails
<1>2. forgotten' \subseteq DOMAIN events'
  BY <1>1 DEF IInv, QueueRight
<1>3. /\ settings' \in Settings /\ memory' \subseteq Ids /\ kept' \in [Store -> SUBSET Ids]
      /\ usable' \in [Store -> BOOLEAN] /\ queue' \in Seq(Command) /\ job' \in Job
      /\ MemoryRight' /\ WriteRight' /\ DiskRight' /\ QueueRight' /\ JobRight'
  BY <1>1, <1>2, DownKeeps
<1>4. file'.now \in file'.may /\ file'.may \subseteq file.may
  BY DEF IInv, Types
<1>5. Types'
  BY <1>1, <1>3, <1>4, FaultsRight DEF IInv, Types
<1>6. SettingsRight'
  <2>1. \E old \in Settings :
          /\ file'.may = {old, file'.now}
          /\ old = file'.now \/ file'.now.rev = old.rev + 1
    <3>1. CASE UNCHANGED file
      BY <3>1 DEF IInv, SettingsRight
    <3>2. CASE \E f \in file.may : file' = [now |-> f, may |-> {f}]
      BY <3>2 DEF IInv, Types
    <3> QED
      BY <3>1, <3>2
  <2>2. job'.op = "down"
    BY <1>1, BlankRight
  <2>3. Valid(NoSettings.doc) /\ NoSettings.since <= today
    BY DenyAllRight, BoundsAssumption DEF NoSettings, IInv, Types
  <2> QED
    BY <1>1, <1>4, <2>1, <2>2, <2>3 DEF IInv, SettingsRight
<1>7. FilesRight'
  BY <1>1, RightfulSame DEF IInv, FilesRight
<1> QED
  BY <1>3, <1>5, <1>6, <1>7 DEF IInv

LEMMA CrashKeepsIt == ASSUME IInv, Crash PROVE IInv'
  BY StopKeeps DEF Crash, IInv, Types

LEMMA PowerLossKeeps == ASSUME IInv, PowerLoss PROVE IInv'
<1>1. data'.now \in data'.may /\ data'.may \subseteq data.may
  BY DEF PowerLoss
<1> QED
  BY <1>1, StopKeeps DEF PowerLoss

LEMMA NewDayKeeps == ASSUME IInv, NewDay PROVE IInv'
<1>1. /\ today < MaxDay /\ today' = today + 1
      /\ UNCHANGED <<settings, memory, kept, usable, file, data, queue, job, events, forgotten,
                     faults>>
  BY DEF NewDay, UNCHANGEDstores
<1>2. today \in Nat /\ today' \in 0 .. MaxDay /\ \A n \in Nat : n <= today => n <= today'
  BY <1>1, BoundsAssumption DEF IInv, Types
<1>3. Types'
  BY <1>1, <1>2 DEF IInv, Types
<1>4. SettingsRight'
  <2>1. \A f \in file.may \cup {settings} : f.since \in Nat
    BY BoundsAssumption DEF IInv, Types, Settings
  <2>2. \A i \in DOMAIN events : events[i].day \in Nat
    BY EventFields DEF IInv, Types
  <2>3. \A f \in file.may \cup {settings} : f.since <= today'
    BY <1>2, <2>1 DEF IInv, SettingsRight
  <2>4. \A i \in DOMAIN events : events[i].day <= today'
    BY <1>2, <2>2 DEF IInv, SettingsRight
  <2> QED
    BY <1>1, <2>3, <2>4 DEF IInv, SettingsRight
<1>5. job.day \in Nat
  BY BoundsAssumption DEF IInv, Types, Job
<1>6. JobRight'
  BY <1>1, <1>2, <1>5, JobSame DEF IInv
<1>7. FilesRight' /\ MemoryRight' /\ QueueRight'
  BY <1>1, FilesSame, MemorySame, QueueSame DEF IInv
<1>8. WriteRight' /\ DiskRight'
  <2>1. Busy <=> Busy'
    BY <1>1 DEF Busy
  <2>2. WriteRight'
    BY <1>1, <2>1, WriteSame DEF IInv, WriteRight
  <2> QED
    BY <1>1, <2>2 DEF IInv, DiskRight
<1> QED
  BY <1>3, <1>4, <1>6, <1>7, <1>8 DEF IInv

LEMMA StartKeeps == ASSUME IInv, Start PROVE IInv'
<1>1. PICK new : new = file.now
  OBVIOUS
<1>2. PICK now : now = WithoutTemps("aggregates")
  OBVIOUS
<1>3. /\ job = Down /\ file' = [now |-> new, may |-> {new}] /\ settings' = new /\ Synced(now)
      /\ Begin("open", <<Open("aggregates", new.doc), Open("samples", new.doc)>>)
      /\ UNCHANGED <<memory, kept, usable, queue, today, events, faults, forgotten>>
  BY <1>1, <1>2 DEF Start, UNCHANGEDworld
<1>4. /\ settings = NoSettings /\ memory = {} /\ kept = Nothing
      /\ usable = [st \in Store |-> FALSE] /\ queue = <<>> /\ job.op = "down"
  BY <1>3, BlankRight DEF IInv, JobRight, QueueRight
<1>5. /\ new \in Settings /\ new.doc \in Doc /\ new \in file.may /\ today \in 0 .. MaxDay
      /\ new.since <= today /\ today \in Nat
  BY <1>1, BoundsAssumption DEF IInv, Types, Settings, SettingsRight
<1>6. PICK todo \in Seq(Task) : todo = <<Open("aggregates", new.doc), Open("samples", new.doc)>>
  BY <1>5, TodosTyped
<1>7. /\ job' \in Job /\ job'.step = "plan" /\ job'.op = "open" /\ job'.todo = todo
      /\ job'.day = today
  BY <1>3, <1>5, <1>6, Begun
<1>8. /\ data'.now = now /\ data'.now \in data'.may /\ data'.may \subseteq Directory /\ FilesRight'
  <2>1. /\ now \in Directory /\ now.aggregates = data.now.aggregates
        /\ now.samples = data.now.samples /\ \A t \in now.temps : t \in data.now.temps
    BY <1>2, TempsRight
  <2> QED
    BY <1>3, <2>1, NowRight, DataRight
<1>9. file'.now = new /\ file'.may = {new}
  BY <1>3
<1>10. Types'
  BY <1>3, <1>5, <1>7, <1>8, <1>9 DEF IInv, Types
<1>11. SettingsRight'
  <2>1. \E old \in Settings :
          /\ file'.may = {old, file'.now} /\ (old = file'.now \/ file'.now.rev = old.rev + 1)
          /\ job'.op # "down" => settings' = old
    BY <1>3, <1>5, <1>9
  <2> QED
    BY <1>3, <1>5, <1>9, <2>1 DEF IInv, SettingsRight
<1>12. ~usable["aggregates"] /\ ~usable["samples"] /\ \A st \in Store : kept[st] = {}
  BY <1>4 DEF Store, Nothing
<1>13. MemoryRight'
  <2>1. Held(memory)'
    BY <1>3, <1>4, EmptyRight DEF Held, Keys
  <2> QED
    BY <1>3, <1>4, <1>12, <2>1 DEF MemoryRight, Store
<1>14. WriteRight' /\ DiskRight'
  BY <1>3, <1>7, <1>12, NotWriting, DiskKept
<1>15. QueueRight'
  <2>1. DOMAIN queue = {} /\ Len(queue) = 0
    BY <1>4
  <2>2. Len(queue) <= Capacity + (IF \E k \in DOMAIN queue : queue[k].op = "snapshot"
                                  THEN 1 ELSE 0)
    BY <2>1, BoundsAssumption
  <2> QED
    BY <1>3, <1>4, <1>7, <2>1, <2>2 DEF IInv, QueueRight
<1>16. JobRight'
  <2>1. Opening'
    BY <1>3, <1>6, <1>7, <1>9, <1>12 DEF Opening
  <2> QED
    BY <1>3, <1>5, <1>7, <2>1 DEF JobRight
<1> QED
  BY <1>8, <1>10, <1>11, <1>13, <1>14, <1>15, <1>16 DEF IInv

-----------------------------------------------------------------------------
(* Every step                                                              *)

LEMMA StutterKeeps == ASSUME IInv, UNCHANGED vars PROVE IInv'
<1>1. UNCHANGED <<settings, memory, kept, usable, file, data, queue, job, today, events, faults,
                  forgotten>>
  BY DEF vars
<1>2. Types' /\ SettingsRight' /\ FilesRight' /\ MemoryRight' /\ QueueRight'
  BY <1>1, SettingsSame, FilesSame, MemorySame, QueueSame DEF IInv, Types
<1>3. Busy <=> Busy'
  BY <1>1 DEF Busy
<1>4. WriteRight'
  BY <1>1, <1>3, WriteSame DEF IInv, WriteRight
<1>5. DiskRight' /\ JobRight'
  BY <1>1, JobSame DEF IInv, DiskRight
<1> QED
  BY <1>2, <1>4, <1>5 DEF IInv

LEMMA NextKeeps == ASSUME IInv, [Next]_vars PROVE IInv'
<1>1. ASSUME Work PROVE IInv'
  <2>1. CASE StartWrite \/ Rename \/ SyncDirectory \/ WriteEndsBadly
    BY <2>1, StartWriteKeeps, RenameKeeps, SyncDirectoryKeeps, WriteEndsBadlyKeeps
  <2>2. CASE WriteDone
    BY <2>2, WriteDoneKeeps, WriteDoneClearKeeps, WriteDoneForgetKeeps
  <2>3. CASE PurgeAggregates \/ PurgeSamples \/ OpenAggregates \/ OpenSamples
    BY <2>3, PurgeAggregatesKeeps, PurgeSamplesKeeps, OpenAggregatesKeeps, OpenSamplesKeeps
  <2>4. CASE CommitSettings \/ CommitConflict \/ SettleSettings \/ InspectStore
    BY <2>4, CommitSettingsKeeps, CommitConflictKeeps, SettleSettingsKeeps, InspectStoreKeeps
  <2> QED
    BY <1>1, <2>1, <2>2, <2>3, <2>4 DEF Work
<1>2. ASSUME Execute PROVE IInv'
  BY <1>2, TakeSignalKeeps, TakeSampleKeeps, TakeClearKeeps, TakeForgetKeeps, TakeSnapshotKeeps
  DEF Execute
<1>3. ASSUME Users PROVE IInv'
  BY <1>3, BeginReplaceKeeps, ObserveKeeps, AskToForgetKeeps DEF Users
<1>4. ASSUME Fault PROVE IInv'
  <2>1. CASE WriteFails \/ RenameFails \/ SyncFails
    BY <2>1, WriteFailsKeeps, RenameFailsKeeps, SyncFailsKeeps
  <2>2. CASE CommitFails \/ SettleFails \/ InspectFails
    BY <2>2, CommitFailsKeeps, SettleFailsKeeps, InspectFailsKeeps
  <2>3. CASE \/ \E st \in Store : OpenUnreadable(st)
             \/ TempsStay("clear", "aggregates") \/ TempsStay("forget", "samples")
    BY <2>3, OpenUnreadableKeeps, TempsStayKeeps
  <2>4. CASE Crash \/ PowerLoss
    BY <2>4, CrashKeepsIt, PowerLossKeeps
  <2> QED
    BY <1>4, <2>1, <2>2, <2>3, <2>4 DEF Fault
<1>5. ASSUME Sweep \/ Start \/ NewDay PROVE IInv'
  BY <1>5, SweepKeeps, StartKeeps, NewDayKeeps
<1> QED
  BY <1>1, <1>2, <1>3, <1>4, <1>5, StutterKeeps DEF Next

\* The settings, the two stores, the queue and the operation that has the lock
\* agree in every reachable state (control_plane.rs, settings/store.rs).
THEOREM Invariance == Spec => []IInv
  BY InitHolds, NextKeeps, PTL DEF Spec

-----------------------------------------------------------------------------
(* What the stores promise                                                 *)

\* Each part of StoresKept follows from the invariant.
LEMMA TypesHold == ASSUME IInv PROVE TypeOK
<1>1. Types /\ QueueRight
  BY DEF IInv
<1>2. Len(queue) <= Capacity + 1
  <2>1. Len(queue) <= Capacity + (IF \E k \in DOMAIN queue : queue[k].op = "snapshot"
                                  THEN 1 ELSE 0)
    BY <1>1 DEF QueueRight
  <2>2. PICK x : x = IF \E k \in DOMAIN queue : queue[k].op = "snapshot" THEN 1 ELSE 0
    OBVIOUS
  <2>3. (x = 0 \/ x = 1) /\ Len(queue) <= Capacity + x
    BY <2>1, <2>2
  <2>4. Len(queue) \in Nat
    BY <1>1 DEF Types
  <2> QED
    BY <2>3, <2>4, BoundsAssumption
<1> QED
  BY <1>1, <1>2 DEF Types, TypeOK

\* What is on the disk outlives the document in force, or the one that takes its place.
LEMMA CrashHolds == ASSUME IInv PROVE CrashSafe
<1> SUFFICES ASSUME usable["aggregates"], settings = file.now \/ job.step = "settle",
                    NEW f \in file.may, NEW d \in data.may, NEW i \in d.aggregates
             PROVE  Outlives(i, f)
  BY DEF CrashSafe
<1>1. job.op # "down"
  <2>1. usable # [st \in Store |-> FALSE]
    BY DEF Store
  <2> QED
    BY <2>1 DEF IInv, JobRight
<1>2. Outlives(i, settings)
  <2>1. CASE d.aggregates = kept["aggregates"]
    BY <2>1 DEF IInv, MemoryRight, Store
  <2>2. CASE d.aggregates # kept["aggregates"]
    <3>1. Busy /\ d.aggregates = job.target
      BY <2>2 DEF IInv, DiskRight, Busy
    <3> QED
      BY <3>1 DEF IInv, WriteRight
  <2> QED
    BY <2>1, <2>2
<1>3. f = settings \/ f = file.now
  BY <1>1 DEF IInv, SettingsRight
<1>4. CASE f = settings
  BY <1>2, <1>4
<1>5. CASE f = file.now /\ job.step = "settle"
  <2>1. PICK n \in Admitted :
          Cleared(n) /\ file.now = [rev |-> settings.rev + 1, doc |-> n, since |-> job.day]
    BY <1>5, CommitStage
  <2>2. job.op = "replace"
    BY <1>5, CommitStage
  <2>3. job.day \in Nat
    BY <2>2, DayRight
  <2>4. i \in kept["aggregates"]
    BY <1>5, DiskPlan
  <2>5. Durable(n, events[i], job.day)
    BY <2>1, <2>3, <2>4, ClearedRight DEF Store
  <2> QED
    BY <1>5, <2>1, <2>5 DEF Durable, Outlives
<1> QED
  BY <1>3, <1>4, <1>5

LEMMA DiskHolds == ASSUME IInv PROVE DiskKnown
  BY DEF IInv, DiskRight, DiskKnown

LEMMA ClearHolds == ASSUME IInv PROVE ClearIsFinal
  BY DEF IInv, MemoryRight, FilesRight, Held, Rightful, ClearIsFinal

LEMMA GrantHolds == ASSUME IInv PROVE GrantNotRetroactive
  BY DEF IInv, FilesRight, Rightful, GrantNotRetroactive

\* Once the document is committed, an operation has enforced it.
LEMMA FloorHolds == ASSUME IInv PROVE FloorSuffices
<1> SUFFICES ASSUME Committed, job.step = "plan", settings = file.now, usable["aggregates"]
             PROVE  LET d == settings.doc IN
                    /\ Reconciled(d, memory, job.day) = memory
                    /\ Projected(d, memory, job.day) = kept["aggregates"]
                    /\ usable["samples"] =>
                         Projected(d, kept["samples"], job.day) = kept["samples"]
  BY DEF FloorSuffices
<1>1. job.op = "replace" /\ Replacing /\ \A k \in DOMAIN job.todo : job.todo[k].do # "commit"
  BY DEF Committed, IInv, JobRight
<1>2. \A n : Commit(n).do = "commit"
  BY Tasks
<1>3. \A f, n : /\ 3 \in DOMAIN Whole(f, n) /\ Whole(f, n)[3] = Commit(n)
                /\ 2 \in DOMAIN Rest(f, n) /\ Rest(f, n)[2] = Commit(n)
                /\ 1 \in DOMAIN After(n) /\ After(n)[1] = Commit(n)
  BY DEF Whole, Rest, After
<1>4. ~ \E n \in Admitted : WithAggregates(n)
  BY <1>1, <1>2, <1>3 DEF WithAggregates
<1>5. Enforced
  BY <1>1, <1>4 DEF Replacing
<1>6. SamplesWithin(settings.doc) /\ AggregatesWithin(settings.doc)
  BY <1>5 DEF Enforced
<1> QED
  BY <1>6 DEF SamplesWithin, AggregatesWithin, Reconciled, Projected

LEMMA SealedHolds == ASSUME IInv PROVE SealedWithin
  BY DEF SealedWithin, IInv, MemoryRight, Store

\* The stores hold what the settings let them hold, whatever failed before: a
\* crash leaves what the settings allow, what is cleared is gone, and nothing is
\* kept that was observed without consent (control_plane.rs, personalization.rs,
\* style_corpus.rs).
THEOREM RecordsAreKept == Spec => []StoresKept
<1>1. IInv => StoresKept
  BY TypesHold, CrashHolds, DiskHolds, ClearHolds, GrantHolds, FloorHolds, SealedHolds
  DEF StoresKept, CrashKeeps, ConsentKept
<1> QED
  BY <1>1, Invariance, PTL

-----------------------------------------------------------------------------
(* What a step may not do                                                  *)

\* A record goes from the file of a store that stays available only as a write is done.
LEMMA WriteForgets ==
    ASSUME IInv, Next, job.op = "signal", usable'["aggregates"],
           kept'["aggregates"] # kept["aggregates"]
    PROVE  WriteDone
<1>1. Signalling /\ Busy /\ job.store = "aggregates" /\ ~Idle /\ job # Down
      /\ job.step \notin {"plan", "settle"}
  BY BlankRight DEF IInv, JobRight, Signalling, Busy, Idle
<1>2. \A do, st : ~Planning(do, st)
  BY <1>1 DEF Planning
<1>3. Work => WriteDone
  <2>1. StartWrite \/ Rename \/ SyncDirectory => kept' = kept
    BY DEF StartWrite, Rename, SyncDirectory, UNCHANGEDstores
  <2>2. ~WriteEndsBadly
    <3>1. ASSUME WriteEndsBadly, GivenUp PROVE FALSE
      <4>1. usable' = [usable EXCEPT !["aggregates"] = FALSE] /\ usable \in [Store -> BOOLEAN]
        BY <1>1, <3>1 DEF WriteEndsBadly, IInv, Types
      <4> QED
        BY <4>1 DEF Store
    <3>2. WriteEndsBadly /\ ~GivenUp => kept' = kept
      BY DEF WriteEndsBadly
    <3> QED
      BY <3>1, <3>2
  <2>3. ~ (PurgeAggregates \/ PurgeSamples \/ OpenAggregates \/ OpenSamples)
    BY <1>2 DEF PurgeAggregates, PurgeSamples, OpenAggregates, OpenSamples
  <2>4. ~ (CommitSettings \/ CommitConflict \/ SettleSettings \/ InspectStore)
    BY <1>1, <1>2 DEF CommitSettings, CommitConflict, SettleSettings, InspectStore
  <2> QED
    BY <2>1, <2>2, <2>3, <2>4 DEF Work
<1>4. ~Execute
  BY <1>1 DEF Execute, TakeSignal, TakeSample, TakeClear, TakeForget, TakeSnapshot, Taking
<1>5. ~Users
  BY <1>1 DEF Users, BeginReplace, Observe, AskToForget, UNCHANGEDstores
<1>6. ~Fault
  <2>1. ~ (WriteFails \/ RenameFails \/ SyncFails)
    BY DEF WriteFails, RenameFails, SyncFails, UNCHANGEDstores
  <2>2. ~ (CommitFails \/ SettleFails \/ InspectFails)
    BY <1>1, <1>2 DEF CommitFails, SettleFails, InspectFails
  <2>3. \A st \in Store : ~OpenUnreadable(st)
    BY <1>2 DEF OpenUnreadable
  <2>4. \A op, st : ~TempsStay(op, st)
    BY <1>1 DEF TempsStay, Taking
  <2>5. ~Stop
    BY DEF Stop, Store
  <2> QED
    BY <2>1, <2>2, <2>3, <2>4, <2>5 DEF Fault, Crash, PowerLoss
<1>7. ~Sweep /\ ~Start /\ ~NewDay
  BY <1>1 DEF Sweep, Start, NewDay, UNCHANGEDstores
<1> QED
  BY <1>3, <1>4, <1>5, <1>6, <1>7 DEF Next

LEMMA HistoryStep ==
    ASSUME IInv, [Next]_vars
    PROVE  \A i \in kept["aggregates"] \ kept'["aggregates"] :
              job.op = "signal" /\ usable'["aggregates"] =>
                  \/ ~Durable(settings.doc, events[i], job.day)
                  \/ Durable(settings.doc, events[job.id], job.day)
<1> SUFFICES ASSUME NEW i \in kept["aggregates"] \ kept'["aggregates"], job.op = "signal",
                    usable'["aggregates"]
             PROVE  \/ ~Durable(settings.doc, events[i], job.day)
                    \/ Durable(settings.doc, events[job.id], job.day)
  OBVIOUS
<1>1. kept' # kept
  OBVIOUS
<1>2. Next
  BY <1>1 DEF vars
<1>3. WriteDone
  BY <1>2, WriteForgets
<1>4. Signalling
  BY DEF IInv, JobRight
<1>5. kept'["aggregates"] = job.target
  BY <1>3, <1>4, WriteDoneStores DEF Signalling
<1> QED
  BY <1>4, <1>5 DEF Signalling

\* The ways a sweep ends.
LEMMA SweepEnds ==
    ASSUME IInv, Next, job.op = "sweep", job'.op = "idle"
    PROVE  WriteDone \/ WriteEndsBadly \/ PurgeAggregates \/ InspectStore \/ InspectFails
<1>1. ~Idle /\ job # Down /\ job'.op # job.op /\ job' # job /\ job \in Job
  BY BlankRight DEF Idle, IInv, Types
<1>2. \A s : ~Step(s)
  <2>1. ASSUME NEW s, Step(s) PROVE job'.op = job.op
    BY <1>1, <2>1 DEF Step, Job
  <2> QED
    BY <1>1, <2>1
<1>3. ~ (StartWrite \/ Rename \/ SyncDirectory \/ WriteFails \/ RenameFails \/ SyncFails)
  BY <1>2 DEF StartWrite, Rename, SyncDirectory, WriteFails, RenameFails, SyncFails
<1>4. ~PurgeSamples
  <2> SUFFICES ASSUME PurgeSamples PROVE FALSE
    OBVIOUS
  <2> DEFINE durable == Projected(Head(job.todo).doc, kept["samples"], job.day)
  <2>1. /\ job.todo # <<>> /\ Tail(job.todo) \in Seq(Task) /\ Tail(job.todo) # <<>>
    BY PlanningRight, PurgeSamplesStage, RestLeft DEF PurgeSamples
  <2>2. ~Resume(Tail(job.todo))
    BY <1>1, <2>1, Resumed
  <2>3. Write([job EXCEPT !.todo = Tail(@)], "samples", durable, durable)
    BY <2>2 DEF PurgeSamples
  <2>4. [job EXCEPT !.todo = Tail(@)] \in Job /\ [job EXCEPT !.todo = Tail(@)].op = job.op
    BY <1>1, <2>1, Rested
  <2>5. durable \in SUBSET Ids
    BY DEF Projected, IInv, Types, Store
  <2> HIDE DEF durable
  <2>6. job'.op = job.op
    BY <2>3, <2>4, <2>5, Written DEF Store
  <2> QED
    BY <1>1, <2>6
<1>5. ~ (OpenAggregates \/ OpenSamples \/ \E st \in Store : OpenUnreadable(st))
  BY OpeningStage DEF OpenAggregates, OpenSamples, OpenUnreadable, Store
<1>6. ~ (CommitSettings \/ CommitConflict \/ CommitFails \/ SettleSettings \/ SettleFails)
  BY CommitStage DEF CommitSettings, CommitConflict, CommitFails, SettleSettings, SettleFails
<1>7. ~Execute /\ ~Sweep /\ ~Start /\ ~NewDay /\ \A op, st : ~TempsStay(op, st)
  BY <1>1 DEF Execute, TakeSignal, TakeSample, TakeClear, TakeForget, TakeSnapshot, Taking,
              Sweep, Start, NewDay, TempsStay
<1>8. ~Users
  BY <1>1 DEF Users, BeginReplace, Observe, AskToForget
<1>9. ~Crash /\ ~PowerLoss
  BY BlankRight DEF Crash, PowerLoss, Stop
<1> QED
  BY <1>3, <1>4, <1>5, <1>6, <1>7, <1>8, <1>9 DEF Next, Work, Fault

LEMMA SweepStep ==
    ASSUME IInv, [Next]_vars, job.op = "sweep", job'.op = "idle"
    PROVE  /\ usable'["aggregates"] =>
                /\ \A i \in memory' : Live(settings.doc, events[i], job.day)
                /\ \A d \in data'.may : \A i \in d.aggregates :
                        Durable(settings.doc, events[i], job.day)
           /\ usable'["samples"] =>
                \A i \in kept'["samples"] : Durable(settings.doc, events[i], job.day)
<1>1. PICK doc : doc = settings.doc
  OBVIOUS
<1>2. Next /\ IInv' /\ job \in Job /\ job' = Blank /\ job'.step = "plan"
  <2>1. IInv'
    BY NextKeeps
  <2>2. Next
    BY DEF vars
  <2>3. job' = Blank
    BY <2>1 DEF IInv, JobRight
  <2> QED
    BY <2>1, <2>2, <2>3, BlankRight DEF IInv, Types
<1>3. usable'["aggregates"] => \A d \in data'.may : d.aggregates = kept'["aggregates"]
  BY <1>2 DEF IInv, DiskRight
<1>4. /\ usable'["aggregates"] =>
           /\ \A i \in memory' : Live(doc, events[i], job.day)
           /\ \A i \in kept'["aggregates"] : Durable(doc, events[i], job.day)
      /\ usable'["samples"] => \A i \in kept'["samples"] : Durable(doc, events[i], job.day)
  <2>1. CASE WriteDone
    <3>1. /\ job.store = "aggregates" => kept'["aggregates"] = job.target /\ memory' = job.next
          /\ job.store = "aggregates" => kept'["samples"] = kept["samples"]
          /\ usable' = usable /\ Busy
      BY <2>1, WriteDoneStores DEF Store
    <3>2. job.todo = <<>>
      <4>1. job.todo \in Seq(Task) /\ Resume(job.todo)
        BY <1>2, <2>1, JobFields DEF WriteDone
      <4> QED
        BY <1>2, <4>1, Resumed
    <3>3. SamplesWithin(doc) /\ AggregatesTo(doc)
      BY <1>1, <3>1, <3>2, Todos DEF IInv, JobRight, Sweeping, Busy
    <3> QED
      BY <3>1, <3>3 DEF SamplesWithin, AggregatesTo, Projected
  <2>2. CASE WriteEndsBadly
    <3>1. Busy
      BY <2>2 DEF WriteEndsBadly, Busy
    <3>2. job.todo \in Seq(Task)
      BY <1>2, JobFields
    <3>3. ~ (job.store = "samples" /\ job.todo # <<>>)
      BY <1>2, <2>2, <3>2, Resumed DEF WriteEndsBadly
    <3>4. job.store = "aggregates" /\ SamplesWithin(doc)
      BY <1>1, <3>1, <3>3, Todos DEF IInv, JobRight, Sweeping, Busy, SamplesTo, AggregatesTo
    <3>5. /\ usable' = [usable EXCEPT !["aggregates"] = FALSE]
          /\ kept' = [kept EXCEPT !["aggregates"] = {}]
      BY <2>2, <3>4 DEF WriteEndsBadly, GivenUp
    <3>6. /\ ~usable'["aggregates"] /\ usable'["samples"] = usable["samples"]
          /\ kept'["samples"] = kept["samples"]
      BY <3>5 DEF IInv, Types, Store
    <3> QED
      BY <3>4, <3>6 DEF SamplesWithin
  <2>3. CASE PurgeAggregates
    <3>1. AfterAggregates(Head(job.todo).doc, Tail(job.todo)) /\ usable' = usable /\ kept' = kept
          /\ job.todo # <<>>
      BY <2>3, PurgeAggregatesStage, PlanningRight DEF PurgeAggregates
    <3>2. Head(job.todo).doc = doc /\ SamplesWithin(doc)
      BY <1>1, <3>1 DEF AfterAggregates
    <3>3. PICK next : next = Reconciled(doc, memory, job.day)
      OBVIOUS
    <3>4. PICK durable : durable = Projected(doc, next, job.day)
      OBVIOUS
    <3>5. ~Write([job EXCEPT !.todo = Tail(@)], "aggregates", durable, next)
      <4>1. [job EXCEPT !.todo = Tail(@)] \in Job /\ [job EXCEPT !.todo = Tail(@)].op = job.op
        BY <1>2, <3>1, Rested
      <4>2. durable \in SUBSET Ids /\ next \in SUBSET Ids
        BY <3>3, <3>4 DEF Projected, Reconciled, IInv, Types
      <4> QED
        BY <4>1, <4>2, Written DEF Store
    <3>6. /\ ~usable["aggregates"] \/ durable = kept["aggregates"]
          /\ memory' = next
      BY <2>3, <3>2, <3>3, <3>4, <3>5 DEF PurgeAggregates
    <3> QED
      BY <3>1, <3>2, <3>3, <3>4, <3>6 DEF SamplesWithin, Reconciled, Projected
  <2>4. CASE InspectStore
    <3>1. /\ SamplesWithin(doc) /\ AggregatesWithin(doc)
          /\ UNCHANGED <<memory, kept, usable>>
      BY <1>1, <2>4, InspectStage DEF InspectStore, UNCHANGEDstores
    <3> QED
      BY <3>1 DEF SamplesWithin, AggregatesWithin, Projected
  <2>5. CASE InspectFails
    <3>1. SamplesWithin(doc)
      BY <1>1, <2>5, InspectStage DEF InspectFails
    <3>2. /\ usable' = [usable EXCEPT !["aggregates"] = FALSE]
          /\ kept' = [kept EXCEPT !["aggregates"] = {}]
      BY <2>5 DEF InspectFails
    <3>3. /\ ~usable'["aggregates"] /\ usable'["samples"] = usable["samples"]
          /\ kept'["samples"] = kept["samples"]
      BY <3>2 DEF IInv, Types, Store
    <3> QED
      BY <3>1, <3>3 DEF SamplesWithin
  <2> QED
    BY <1>2, <2>1, <2>2, <2>3, <2>4, <2>5, SweepEnds
<1> QED
  BY <1>1, <1>3, <1>4

\* History goes only for what outranks it, and a sweep that ends has let go what
\* ran out (enforce_record_limit, sweep_retention).
THEOREM HistoryIsOrderly == Spec => HistoryRuns
<1>1. ASSUME IInv, [Next]_vars
      PROVE  [\A i \in kept["aggregates"] \ kept'["aggregates"] :
                job.op = "signal" /\ usable'["aggregates"] =>
                    \/ ~Durable(settings.doc, events[i], job.day)
                    \/ Durable(settings.doc, events[job.id], job.day)]_vars
  BY <1>1, HistoryStep
<1>2. ASSUME IInv, [Next]_vars
      PROVE  [job.op = "sweep" /\ job'.op = "idle" =>
                /\ usable'["aggregates"] =>
                    /\ \A i \in memory' : Live(settings.doc, events[i], job.day)
                    /\ \A d \in data'.may : \A i \in d.aggregates :
                            Durable(settings.doc, events[i], job.day)
                /\ usable'["samples"] =>
                    \A i \in kept'["samples"] : Durable(settings.doc, events[i], job.day)]_vars
  BY <1>2, SweepStep
<1> QED
  BY <1>1, <1>2, Invariance, PTL DEF Spec, HistoryRuns, HistoryKept, SweepEnforces
=============================================================================
