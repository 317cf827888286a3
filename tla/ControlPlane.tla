---------------------------- MODULE ControlPlane ----------------------------
(* The control plane: the settings file, the two stores whose content it     *)
(* governs (suggestion aggregates and sealed style samples), and the queue   *)
(* of the one worker that writes them. One mutex orders every operation, so  *)
(* an operation is a job whose steps nothing interleaves with but a crash, a *)
(* power loss, a new day and new commands in the queue.                      *)
(*                                                                           *)
(* A directory is what is visible in it (now) and every content a power loss *)
(* could leave of it (may): a change adds to may, a sync of the directory    *)
(* reduces may to what is visible.                                           *)
EXTENDS Integers, Sequences, FiniteSets

CONSTANTS
    Subject,     \* web origins with a rule
    Docs,        \* settings documents a user may ask for
    MaxDays,     \* longest retention
    RecordLimit, \* MAX_PERSONALIZATION_RECORDS
    SampleLimit, \* MAX_STYLE_SAMPLES
    Capacity,    \* OUTCOME_QUEUE_CAPACITY
    MaxRev,      \* bound: settings revisions
    MaxDay,      \* bound: days
    MaxEvent,    \* bound: outcomes and samples observed
    MaxFault     \* bound: failing steps, crashes and power losses

\* days[s] = 0 is RetentionPermission::None: learned in memory only.
Doc == [paused : BOOLEAN, style : BOOLEAN, learn : SUBSET Subject,
        days : [Subject -> 0 .. MaxDays]]

Valid(d) == \A s \in Subject : d.days[s] # 0 => s \in d.learn

ASSUME DocsAssumption == Docs \subseteq {d \in Doc : Valid(d)}
ASSUME BoundsAssumption ==
    /\ MaxDays \in Nat /\ MaxRev \in Nat /\ MaxDay \in Nat /\ MaxEvent \in Nat
    /\ MaxFault \in Nat
    /\ RecordLimit \in Nat \ {0} /\ SampleLimit \in Nat \ {0}
    /\ Capacity \in Nat

VARIABLES
    settings, \* ControlPlaneState::settings, the document in force
    memory,   \* the aggregates in memory, as the events they count
    kept,     \* per store, the events it believes its file holds
    usable,   \* per store, whether its Option is Some
    file,     \* the settings directory: now and may
    data,     \* the data directory: now and may
    queue,    \* commands for the worker
    job,      \* the operation that holds the lock
    today,    \* unix_day
    events,   \* every outcome and sample observed so far
    forgotten, \* events an acknowledged clear or forget covered
    faults    \* failing steps, crashes and power losses so far

vars == <<settings, memory, kept, usable, file, data, queue, job, today,
          events, forgotten, faults>>

Store == {"aggregates", "samples"}
Ids == 1 .. MaxEvent
Event == [store : Store, subject : Subject, day : 0 .. MaxDay,
          rev : 0 .. MaxRev, keep : BOOLEAN]

\* since is the day of the replacement: history, not part of the file.
Settings == [rev : 0 .. MaxRev, doc : Doc, since : 0 .. MaxDay]
Temporary == [store : Store, content : SUBSET Ids]
Directory == [aggregates : SUBSET Ids, samples : SUBSET Ids,
              temps : SUBSET Temporary]

Command == [op : {"signal", "sample", "clear", "forget", "snapshot"},
            id : 0 .. MaxEvent]
Task == [do : {"purge", "open", "commit", "inspect"}, store : Store, doc : Doc]
Job == [op : {"down", "open", "idle", "replace", "sweep", "signal", "sample",
              "clear", "forget"},
        todo : Seq(Task),
        step : {"plan", "write", "rename", "sync", "settle", "done", "failed",
                "unknown"},
        store : Store, target : SUBSET Ids, next : SUBSET Ids,
        id : 0 .. MaxEvent, day : 0 .. MaxDay]

TypeOK ==
    /\ settings \in Settings
    /\ memory \subseteq Ids
    /\ kept \in [Store -> SUBSET Ids]
    /\ usable \in [Store -> BOOLEAN]
    /\ file.now \in file.may /\ file.may \subseteq Settings
    /\ data.now \in data.may /\ data.may \subseteq Directory
    /\ queue \in Seq(Command) /\ Len(queue) <= Capacity + 1
    /\ job \in Job
    /\ today \in 0 .. MaxDay
    /\ events \in Seq(Event) /\ Len(events) <= MaxEvent
    /\ forgotten \subseteq Ids
    /\ faults \in 0 .. MaxFault

-----------------------------------------------------------------------------
(* What a document lets a store hold                                       *)

DenyAll == [paused |-> TRUE, style |-> FALSE, learn |-> {},
            days |-> [s \in Subject |-> 0]]

\* PersonalizationV1::reconcile: without retention a record lives for its day.
Live(d, e, day) ==
    /\ e.day <= day /\ e.subject \in d.learn
    /\ day - e.day < (IF d.days[e.subject] = 0 THEN 1 ELSE d.days[e.subject])

\* record_is_durable, and retains of the sealed stores.
Durable(d, e, day) == e.day <= day /\ day - e.day < d.days[e.subject]

Reconciled(d, ids, day) == {i \in ids : Live(d, events[i], day)}
Projected(d, ids, day) == {i \in ids : Durable(d, events[i], day)}

\* What the document permits to be kept, whatever the day.
Permitted(d) == {i \in DOMAIN events : d.days[events[i].subject] # 0}

\* strictly_reduces_authority
StrictlyReduces(c, n) ==
    /\ n # c
    /\ c.paused => n.paused
    /\ n.style => c.style
    /\ n.learn \subseteq c.learn
    /\ \A s \in Subject : n.days[s] <= c.days[s]

Smaller(a, b) == IF a <= b THEN a ELSE b

\* personalization_privacy_floor: what both documents allow, and nothing
\* of a subject that now is granted the persistence it had not.
Granted(c, n) == {s \in Subject : c.days[s] = 0 /\ n.days[s] # 0}
\* Mutant: a floor that leaves what the grant covers.
FloorGranting(c, n) ==
    [paused |-> c.paused \/ n.paused, style |-> c.style /\ n.style,
     learn  |-> c.learn \cap n.learn,
     days   |-> [s \in Subject |-> Smaller(c.days[s], n.days[s])]]

Floor(c, n) ==
    [paused |-> c.paused \/ n.paused,
     style  |-> c.style /\ n.style,
     learn  |-> (c.learn \cap n.learn) \ Granted(c, n),
     days   |-> [s \in Subject |-> Smaller(c.days[s], n.days[s])]]

\* One aggregate per subject and day: enforce_record_limit drops the oldest
\* that is not durable, and a durable one only when there is no other.
Key(i) == <<events[i].subject, events[i].day>>
Keys(ids) == {Key(i) : i \in ids}
OldestKey(ids) == CHOOSE k \in Keys(ids) : \A l \in Keys(ids) : k[2] <= l[2]

\* Mutant: the oldest record goes, whatever it is.
EvictableAny(ids, d, day) == ids

Evictable(ids, d, day) ==
    LET ephemeral == ids \ Projected(d, ids, day)
    IN  IF ephemeral # {} THEN ephemeral ELSE ids

Evict(ids, d, day) ==
    IF Cardinality(Keys(ids)) <= RecordLimit THEN ids
    ELSE {i \in ids : Key(i) # OldestKey(Evictable(ids, d, day))}

-----------------------------------------------------------------------------
(* Jobs                                                                    *)

Snapshot == [op |-> "snapshot", id |-> 0]
Inspect == [do |-> "inspect", store |-> "aggregates", doc |-> DenyAll]
Purge(st, d) == [do |-> "purge", store |-> st, doc |-> d]
Open(st, d) == [do |-> "open", store |-> st, doc |-> d]
Commit(d) == [do |-> "commit", store |-> "aggregates", doc |-> d]

Blank == [op |-> "idle", todo |-> <<>>, step |-> "plan", store |-> "aggregates",
          target |-> {}, next |-> {}, id |-> 0, day |-> 0]
Down == [Blank EXCEPT !.op = "down"]

Running == job.op \notin {"down", "open"}
Idle == job.op = "idle"

Begin(op, todo) == job' = [Blank EXCEPT !.op = op, !.todo = todo, !.day = today]

\* The lock is released when nothing is left to do.
Resume(todo) ==
    job' = IF todo = <<>> THEN Blank
           ELSE [Blank EXCEPT !.op = job.op, !.todo = todo, !.day = job.day]

Step(s) == job' = [job EXCEPT !.step = s]

\* persist_or_remove and persist: next is what the store holds in memory
\* once its file holds target; the rest of the job comes after.
Write(j, st, target, next) ==
    job' = [j EXCEPT !.step = "write", !.store = st, !.target = target,
                     !.next = next]

Changed(now) == data' = [now |-> now, may |-> data.may \cup {now}]
Synced(now) == data' = [now |-> now, may |-> {now}]

UNCHANGEDstores == UNCHANGED <<settings, memory, kept, usable>>
UNCHANGEDworld == UNCHANGED <<today, events, faults>>

\* What may go wrong does at most MaxFault times.
Fails == faults < MaxFault /\ faults' = faults + 1 /\ UNCHANGED <<today, events>>

\* The complete document is written beside the file; without records the
\* file is removed, and an absent one still needs its directory synced.
\* Mutant: a removal that is not synced.
StartWriteUnsynced ==
    LET temp == [store |-> job.store, content |-> job.target] IN
    /\ job.step = "write"
    /\ \/ /\ job.target # {}
          /\ Changed([data.now EXCEPT !.temps = @ \cup {temp}])
          /\ Step("rename")
       \/ /\ job.target = {}
          /\ Changed([data.now EXCEPT ![job.store] = {}])
          /\ Step("done")
    /\ UNCHANGEDstores /\ UNCHANGEDworld
    /\ UNCHANGED <<file, queue, forgotten>>

StartWrite ==
    LET temp == [store |-> job.store, content |-> job.target] IN
    /\ job.step = "write"
    /\ \/ /\ job.target # {}
          /\ Changed([data.now EXCEPT !.temps = @ \cup {temp}])
          /\ Step("rename")
       \/ /\ job.target = {}
          /\ Changed([data.now EXCEPT ![job.store] = {}])
          /\ Step("sync")
    /\ UNCHANGEDstores /\ UNCHANGEDworld
    /\ UNCHANGED <<file, queue, forgotten>>

\* Nothing was created or removed.
WriteFails ==
    /\ job.step = "write"
    /\ Step("failed")
    /\ UNCHANGEDstores /\ Fails
    /\ UNCHANGED <<file, data, queue, forgotten>>

\* The rename is the commit point.
Rename ==
    LET temp == [store |-> job.store, content |-> job.target] IN
    /\ job.step = "rename"
    /\ Changed([data.now EXCEPT ![job.store] = job.target,
                                !.temps = @ \ {temp}])
    /\ Step("sync")
    /\ UNCHANGEDstores /\ UNCHANGEDworld
    /\ UNCHANGED <<file, queue, forgotten>>

\* The temporary file is removed for good, or that fails too, before or
\* after it went.
RenameFails ==
    LET temp == [store |-> job.store, content |-> job.target]
        removed == [data.now EXCEPT !.temps = @ \ {temp}]
    IN
    /\ job.step = "rename"
    /\ \/ Synced(removed) /\ Step("failed")
       \/ (UNCHANGED data \/ Changed(removed)) /\ Step("unknown")
    /\ UNCHANGEDstores /\ Fails
    /\ UNCHANGED <<file, queue, forgotten>>

SyncDirectory ==
    /\ job.step = "sync"
    /\ Synced(data.now) /\ Step("done")
    /\ UNCHANGEDstores /\ UNCHANGEDworld
    /\ UNCHANGED <<file, queue, forgotten>>

SyncFails ==
    /\ job.step = "sync"
    /\ Step("unknown")
    /\ UNCHANGEDstores /\ Fails
    /\ UNCHANGED <<file, data, queue, forgotten>>

\* The events an operation that forgets was queued behind.
Covered(st, id) == {i \in DOMAIN events : i <= id /\ events[i].store = st}
Forgets == job.op \in {"clear", "forget"}

WriteDone ==
    /\ job.step = "done"
    /\ kept' = [kept EXCEPT ![job.store] = job.target]
    /\ usable' = IF job.op = "open" \/ Forgets
                 THEN [usable EXCEPT ![job.store] = TRUE] ELSE usable
    /\ memory' = IF job.store = "aggregates" THEN job.next ELSE memory
    /\ forgotten' = IF Forgets THEN forgotten \cup Covered(job.store, job.id)
                    ELSE forgotten
    /\ queue' = IF job.op = "clear" THEN <<Snapshot>> \o queue ELSE queue
    /\ Resume(job.todo)
    /\ UNCHANGEDworld
    /\ UNCHANGED <<settings, file, data>>

\* A store is given up when its retention could not be enforced, or when its
\* aggregates may or may not have been written.
GivenUp ==
    \/ job.op \in {"open", "sweep"}
    \/ job.op = "replace" /\ (job.store = "samples" \/ job.step = "unknown")
    \/ job.op \in {"signal", "clear"} /\ job.step = "unknown"

\* An error ends the operation, except that a broker starts without its
\* stores and that a failing sealed store holds nothing up.
WriteEndsBadly ==
    /\ job.step \in {"failed", "unknown"}
    /\ IF GivenUp
       THEN /\ usable' = [usable EXCEPT ![job.store] = FALSE]
            /\ kept' = [kept EXCEPT ![job.store] = {}]
            /\ memory' = IF job.store = "aggregates" THEN {} ELSE memory
       ELSE UNCHANGED <<usable, kept, memory>>
    /\ Resume(IF job.store = "samples" \/ job.op = "open" THEN job.todo ELSE <<>>)
    /\ UNCHANGEDworld
    /\ UNCHANGED <<settings, file, data, queue, forgotten>>

-----------------------------------------------------------------------------
(* Tasks of a job                                                          *)

Planning(do, st) ==
    /\ job.step = "plan" /\ job.todo # <<>>
    /\ Head(job.todo).do = do /\ Head(job.todo).store = st

\* PersonalizationStore::reconcile
PurgeAggregates ==
    LET d == Head(job.todo).doc
        next == Reconciled(d, memory, job.day)
        durable == Projected(d, next, job.day)
    IN  /\ Planning("purge", "aggregates")
        /\ IF ~usable["aggregates"] \/ durable = kept["aggregates"]
           THEN memory' = next /\ Resume(Tail(job.todo))
           ELSE /\ Write([job EXCEPT !.todo = Tail(@)], "aggregates", durable, next)
                /\ UNCHANGED memory
        /\ UNCHANGEDworld
        /\ UNCHANGED <<settings, kept, usable, file, data, queue, forgotten>>

\* reconcile_style_locked, StyleStore::reconcile
PurgeSamples ==
    LET d == Head(job.todo).doc
        durable == Projected(d, kept["samples"], job.day)
    IN  /\ Planning("purge", "samples")
        /\ IF ~usable["samples"] \/ durable = kept["samples"]
           THEN Resume(Tail(job.todo))
           ELSE Write([job EXCEPT !.todo = Tail(@)], "samples", durable, durable)
        /\ UNCHANGEDstores /\ UNCHANGEDworld
        /\ UNCHANGED <<file, data, queue, forgotten>>

\* PersonalizationStore::open writes what it kept even when that is all.
OpenAggregates ==
    LET d == Head(job.todo).doc
        next == Reconciled(d, data.now.aggregates, job.day)
    IN  /\ Planning("open", "aggregates")
        /\ Write([job EXCEPT !.todo = Tail(@)], "aggregates",
                 Projected(d, next, job.day), next)
        /\ UNCHANGEDstores /\ UNCHANGEDworld
        /\ UNCHANGED <<file, data, queue, forgotten>>

\* StyleStore::open and reconcile
OpenSamples ==
    LET d == Head(job.todo).doc
        durable == Projected(d, data.now.samples, job.day)
    IN  /\ Planning("open", "samples")
        /\ IF durable = data.now.samples
           THEN /\ kept' = [kept EXCEPT !["samples"] = durable]
                /\ usable' = [usable EXCEPT !["samples"] = TRUE]
                /\ Resume(Tail(job.todo))
           ELSE /\ Write([job EXCEPT !.todo = Tail(@)], "samples", durable, durable)
                /\ UNCHANGED <<kept, usable>>
        /\ UNCHANGEDworld
        /\ UNCHANGED <<settings, memory, file, data, queue, forgotten>>

\* A file that cannot be read or decoded is preserved, and its store is not
\* available until it is cleared.
OpenUnreadable(st) ==
    /\ Planning("open", st)
    /\ data.now[st] # {}
    /\ Resume(Tail(job.todo))
    /\ UNCHANGEDstores /\ Fails
    /\ UNCHANGED <<file, data, queue, forgotten>>

\* compare_and_replace: the file is read again, then replaced by a rename.
CommitSettings ==
    LET next == [rev |-> settings.rev + 1, doc |-> Head(job.todo).doc,
                 since |-> job.day]
    IN
    /\ Planning("commit", "aggregates")
    /\ file.now.rev = settings.rev
    /\ file' = [now |-> next, may |-> file.may \cup {next}]
    /\ Step("settle")
    /\ UNCHANGEDstores /\ UNCHANGEDworld
    /\ UNCHANGED <<data, queue, forgotten>>

\* A revision conflict, which a commit left unknown is to the next one.
CommitConflict ==
    /\ Planning("commit", "aggregates")
    /\ file.now.rev # settings.rev
    /\ job' = Blank
    /\ UNCHANGEDstores /\ UNCHANGEDworld
    /\ UNCHANGED <<file, data, queue, forgotten>>

\* A write that failed before its rename.
CommitFails ==
    /\ Planning("commit", "aggregates")
    /\ file.now.rev = settings.rev
    /\ job' = Blank
    /\ UNCHANGEDstores /\ Fails
    /\ UNCHANGED <<file, data, queue, forgotten>>

\* The renamed document is in force once its directory is synced.
SettleSettings ==
    /\ job.step = "settle"
    /\ file' = [now |-> file.now, may |-> {file.now}]
    /\ settings' = file.now
    /\ Resume(Tail(job.todo))
    /\ UNCHANGEDworld
    /\ UNCHANGED <<memory, kept, usable, data, queue, forgotten>>

\* Otherwise its commit is unknown and the old document stays in memory.
SettleFails ==
    /\ job.step = "settle"
    /\ job' = Blank
    /\ UNCHANGEDstores /\ Fails
    /\ UNCHANGED <<file, data, queue, forgotten>>

\* snapshot reads the aggregates file once more.
InspectStore ==
    /\ Planning("inspect", "aggregates")
    /\ Resume(Tail(job.todo))
    /\ UNCHANGEDstores /\ UNCHANGEDworld
    /\ UNCHANGED <<file, data, queue, forgotten>>

InspectFails ==
    /\ Planning("inspect", "aggregates")
    /\ usable["aggregates"]
    /\ memory' = {}
    /\ kept' = [kept EXCEPT !["aggregates"] = {}]
    /\ usable' = [usable EXCEPT !["aggregates"] = FALSE]
    /\ Resume(Tail(job.todo))
    /\ Fails
    /\ UNCHANGED <<settings, file, data, queue, forgotten>>

-----------------------------------------------------------------------------
(* Settings and retention                                                  *)

\* replace_settings: what either document forbids goes first. Without the
\* aggregates only a strict reduction is admitted.
\* Mutant: everything is purged once the document is committed.
BeginReplaceLate(d) ==
    /\ Idle /\ settings.rev < MaxRev
    /\ usable["aggregates"] \/ StrictlyReduces(settings.doc, d)
    /\ Begin("replace", <<Commit(d), Purge("samples", d), Purge("aggregates", d)>>)
    /\ UNCHANGEDstores /\ UNCHANGEDworld
    /\ UNCHANGED <<file, data, queue, forgotten>>

BeginReplace(d) ==
    LET floor == Floor(settings.doc, d) IN
    /\ Idle /\ settings.rev < MaxRev
    /\ \/ /\ usable["aggregates"]
          /\ Begin("replace",
                   <<Purge("samples", floor), Purge("aggregates", floor), Commit(d),
                     Purge("samples", d), Purge("aggregates", d)>>)
       \/ /\ ~usable["aggregates"] /\ StrictlyReduces(settings.doc, d)
          /\ Begin("replace", <<Purge("samples", d), Commit(d)>>)
    /\ UNCHANGEDstores /\ UNCHANGEDworld
    /\ UNCHANGED <<file, data, queue, forgotten>>

Enforce == <<Purge("samples", settings.doc), Purge("aggregates", settings.doc)>>

\* sweep_retention
Sweep ==
    /\ Idle
    /\ Begin("sweep", Enforce)
    /\ UNCHANGEDstores /\ UNCHANGEDworld
    /\ UNCHANGED <<file, data, queue, forgotten>>

-----------------------------------------------------------------------------
(* The queue and its worker                                                *)

\* The snapshot that ends a clear is the worker's own, not in the channel.
Room == Cardinality({k \in DOMAIN queue : queue[k].op # "snapshot"}) < Capacity

\* try_signal, under the broker's lock and the settings in force, which a
\* replacement suspends and an unknown commit withdraws; while it pauses, no
\* session has anything to report.
Observe(st, s) ==
    /\ Running /\ job.op # "replace" /\ settings = file.now /\ ~settings.doc.paused
    /\ Len(events) < MaxEvent
    /\ events' = Append(events,
         [store |-> st, subject |-> s, day |-> today, rev |-> settings.rev,
          keep |-> settings.doc.days[s] # 0])
    /\ Room
    /\ queue' = Append(queue,
         [op |-> IF st = "samples" THEN "sample" ELSE "signal",
          id |-> Len(events) + 1])
    /\ UNCHANGEDstores
    /\ UNCHANGED <<file, data, job, today, forgotten, faults>>

\* begin_clear, forget_style: behind everything queued so far.
AskToForget(op) ==
    /\ Running /\ Room
    /\ queue' = Append(queue, [op |-> op, id |-> Len(events)])
    /\ UNCHANGEDstores /\ UNCHANGEDworld
    /\ UNCHANGED <<file, data, job, forgotten>>

Taking(op) == Idle /\ queue # <<>> /\ Head(queue).op = op

Fresh(op, id) == [Blank EXCEPT !.op = op, !.id = id, !.day = today]

\* record_signal_at_settings_revision and PersonalizationStore::record
Eligible(d, e) ==
    /\ ~d.paused /\ e.subject \in d.learn
    /\ today - e.day < (IF d.days[e.subject] = 0 THEN 1 ELSE d.days[e.subject])

TakeSignal ==
    LET id == Head(queue).id
        d == settings.doc
        told == IF Eligible(d, events[id]) THEN {id} ELSE {}
        next == Evict(Reconciled(d, memory, today) \cup told, d, today)
        durable == Projected(d, next, today)
    IN  /\ Taking("signal")
        /\ queue' = Tail(queue)
        \* Refused, or an outcome without the show it is the outcome of.
        /\ \/ UNCHANGED <<memory, job>>
           \/ /\ usable["aggregates"] /\ events[id].rev = settings.rev
              /\ IF durable = kept["aggregates"]
                 THEN memory' = next /\ UNCHANGED job
                 ELSE /\ Write(Fresh("signal", id), "aggregates", durable, next)
                      /\ UNCHANGED memory
        /\ UNCHANGEDworld
        /\ UNCHANGED <<settings, kept, usable, file, data, forgotten>>

\* StyleStore::record makes room for the sample, dated the day it is sealed.
Oldest(ids) == CHOOSE i \in ids : \A j \in ids : events[i].day <= events[j].day
MakeRoom(ids) ==
    IF Cardinality(ids) < SampleLimit THEN ids ELSE ids \ {Oldest(ids)}

TakeSample ==
    LET id == Head(queue).id
        next == MakeRoom(kept["samples"]) \cup {id}
    IN  /\ Taking("sample")
        /\ queue' = Tail(queue)
        \* Without a key, a duplicate, or refused.
        /\ \/ UNCHANGED <<job, events>>
           \/ /\ usable["samples"] /\ events[id].rev = settings.rev
              /\ settings.doc.style /\ settings.doc.days[events[id].subject] # 0
              /\ events' = [events EXCEPT ![id].day = today]
              /\ Write(Fresh("sample", id), "samples", next, next)
        /\ UNCHANGEDstores
        /\ UNCHANGED <<today, file, data, forgotten, faults>>

\* What is left once the temporary files of a store are removed.
WithoutTemps(st) == [data.now EXCEPT !.temps = {t \in @ : t.store # st}]

\* remove_private_temporary_files: a removal is synced, or the operation
\* ends there with an unknown commit.
TempsStay(op, st) ==
    /\ Taking(op)
    /\ WithoutTemps(st) # data.now
    /\ Changed(WithoutTemps(st))
    /\ queue' = Tail(queue)
    /\ UNCHANGEDstores /\ Fails
    /\ UNCHANGED <<file, job, forgotten>>

TempsGone(st) ==
    IF WithoutTemps(st) = data.now THEN UNCHANGED data ELSE Synced(WithoutTemps(st))

\* clear_personalization writes only what it finds kept.
TakeClear ==
    LET id == Head(queue).id IN
    /\ Taking("clear")
    /\ TempsGone("aggregates")
    /\ IF usable["aggregates"] /\ (memory = {} \/ kept["aggregates"] = {})
       THEN /\ memory' = {}
            /\ forgotten' = forgotten \cup Covered("aggregates", id)
            /\ queue' = <<Snapshot>> \o Tail(queue)
            /\ UNCHANGED job
       ELSE /\ Write(Fresh("clear", id), "aggregates", {}, {})
            /\ queue' = Tail(queue)
            /\ UNCHANGED <<memory, forgotten>>
    /\ UNCHANGEDworld
    /\ UNCHANGED <<settings, kept, usable, file>>

\* forget_style removes the file whatever the store holds.
TakeForget ==
    /\ Taking("forget")
    /\ TempsGone("samples")
    /\ Write(Fresh("forget", Head(queue).id), "samples", {}, {})
    /\ queue' = Tail(queue)
    /\ UNCHANGEDstores /\ UNCHANGEDworld
    /\ UNCHANGED <<file, forgotten>>

TakeSnapshot ==
    /\ Taking("snapshot")
    /\ Begin("sweep", Append(Enforce, Inspect))
    /\ queue' = Tail(queue)
    /\ UNCHANGEDstores /\ UNCHANGEDworld
    /\ UNCHANGED <<file, data, forgotten>>

-----------------------------------------------------------------------------
(* Process and machine                                                     *)

Nothing == [st \in Store |-> {}]

NoSettings == [rev |-> 0, doc |-> DenyAll, since |-> 0]

\* An installation whose settings file holds a document, that of a fresh one
\* being DenyAll, and whose stores are empty.
Init ==
    /\ settings = NoSettings
    /\ memory = {} /\ kept = Nothing
    /\ usable = [st \in Store |-> FALSE]
    /\ \E d \in Docs \cup {DenyAll} :
         LET f == [NoSettings EXCEPT !.doc = d] IN file = [now |-> f, may |-> {f}]
    /\ LET empty == [aggregates |-> {}, samples |-> {}, temps |-> {}]
       IN  data = [now |-> empty, may |-> {empty}]
    /\ queue = <<>> /\ job = Down
    /\ today = 0 /\ events = <<>> /\ forgotten = {} /\ faults = 0

\* PrivateStorage::open removes the aggregates' temporary files and adopts
\* what is visible, from_storage opens the stores. The style file's
\* temporary files stay.
Start ==
    /\ job = Down
    /\ file' = [now |-> file.now, may |-> {file.now}]
    /\ settings' = file.now
    /\ Synced(WithoutTemps("aggregates"))
    /\ Begin("open", <<Open("aggregates", file.now.doc), Open("samples", file.now.doc)>>)
    /\ UNCHANGEDworld
    /\ UNCHANGED <<memory, kept, usable, queue, forgotten>>

Stop ==
    /\ job' = Down /\ queue' = <<>> /\ settings' = NoSettings
    /\ memory' = {} /\ kept' = Nothing /\ usable' = [st \in Store |-> FALSE]

\* The process ends between two steps.
Crash ==
    /\ job # Down /\ Stop
    /\ Fails
    /\ UNCHANGED <<file, data, forgotten>>

PowerLoss ==
    /\ Stop
    /\ \E f \in file.may : file' = [now |-> f, may |-> {f}]
    /\ \E d \in data.may : data' = [now |-> d, may |-> {d}]
    /\ Fails
    /\ UNCHANGED forgotten

NewDay ==
    /\ today < MaxDay
    /\ today' = today + 1
    /\ UNCHANGEDstores
    /\ UNCHANGED <<file, data, queue, job, events, forgotten, faults>>

-----------------------------------------------------------------------------
\* The operation that holds the lock goes on.
Work ==
    \/ StartWrite \/ Rename \/ SyncDirectory \/ WriteDone \/ WriteEndsBadly
    \/ PurgeAggregates \/ PurgeSamples \/ OpenAggregates \/ OpenSamples
    \/ CommitSettings \/ CommitConflict \/ SettleSettings \/ InspectStore

Execute ==
    TakeSignal \/ TakeSample \/ TakeClear \/ TakeForget \/ TakeSnapshot

Users ==
    \/ \E d \in Docs : BeginReplace(d)
    \/ \E st \in Store, s \in Subject : Observe(st, s)
    \/ \E op \in {"clear", "forget"} : AskToForget(op)

Fault ==
    \/ WriteFails \/ RenameFails \/ SyncFails \/ CommitFails \/ SettleFails
    \/ InspectFails \/ \E st \in Store : OpenUnreadable(st)
    \/ TempsStay("clear", "aggregates") \/ TempsStay("forget", "samples")
    \/ Crash \/ PowerLoss

Next == Work \/ Execute \/ Sweep \/ Users \/ Start \/ NewDay \/ Fault

Spec == Init /\ [][Next]_vars

-----------------------------------------------------------------------------
(* Properties                                                              *)

\* "A crash can therefore lose aggregates, but can never leave data on disk
\* after the committed settings revoke or shorten its retention": in whatever
\* pair of settings and aggregates a power loss leaves, the settings let
\* every record be kept on the day they were committed.
Outlives(i, f) ==
    LET e == events[i] IN f.since - e.day < f.doc.days[e.subject]

CrashSafe ==
    usable["aggregates"] /\ (settings = file.now \/ job.step = "settle") =>
        \A f \in file.may, d \in data.may : \A i \in d.aggregates : Outlives(i, f)

\* While the aggregates are available, what a power loss leaves of their
\* file is what the store believes, whatever write failed before: only the
\* write under way may be there instead.
DiskKnown ==
    usable["aggregates"] /\ ~(job.store = "aggregates" /\ job.step # "plan") =>
        \A d \in data.may : d.aggregates = kept["aggregates"]

\* "Granting persistence is not consent to persist aggregates observed
\* before that grant": an event whose settings kept nothing is never in a
\* file, whatever is granted later.
GrantNotRetroactive ==
    \A d \in data.may : \A i \in d.aggregates \cup d.samples : events[i].keep

\* What an acknowledged clear or forget covers never comes back: not in
\* memory, and not in anything a power loss may leave, the copies of sealed
\* samples an interrupted write left beside the file included.
ClearIsFinal ==
    /\ memory \cap forgotten = {}
    /\ \A d \in data.may :
         /\ (d.aggregates \cup d.samples) \cap forgotten = {}
         /\ \A t \in d.temps : t.store = "samples" => t.content \cap forgotten = {}

\* The floor is deep enough: once the document is committed, nothing is left
\* to purge under it, so SettingsCommittedReconciliation does not arise.
Committed == job.op = "replace" /\ \A k \in DOMAIN job.todo : job.todo[k].do # "commit"
FloorSuffices ==
    Committed /\ job.step = "plan" /\ settings = file.now /\ usable["aggregates"] =>
        LET d == settings.doc IN
        /\ Reconciled(d, memory, job.day) = memory
        /\ Projected(d, memory, job.day) = kept["aggregates"]
        /\ usable["samples"] =>
             Projected(d, kept["samples"], job.day) = kept["samples"]

\* A sealed store that knows its file keeps only what the settings in force
\* let it keep, as of the day they were committed.
SealedWithin ==
    /\ Idle /\ settings = file.now /\ usable["samples"]
    /\ kept["samples"] = data.now.samples
    => \A i \in data.now.samples : Outlives(i, settings)

\* What a crash or a power loss leaves is within the settings (CrashSafe), known
\* (DiskKnown) and without what was cleared (ClearIsFinal).
CrashKeeps == CrashSafe /\ DiskKnown /\ ClearIsFinal

\* Records are kept only as the settings allowed when they were made and allow
\* now: GrantNotRetroactive, FloorSuffices and SealedWithin.
ConsentKept == TypeOK /\ GrantNotRetroactive /\ FloorSuffices /\ SealedWithin

\* The stores hold what the settings let them hold, whatever failed before:
\* CrashKeeps and ConsentKept.
StoresKept == CrashKeeps /\ ConsentKept

\* "Ephemeral records may consume only spare in-memory capacity. They must
\* never evict or rewrite another subject's durable history": a record that
\* goes while a signal is written has expired, or made room for a durable one.
HistoryKept ==
    [][\A i \in kept["aggregates"] \ kept'["aggregates"] :
          job.op = "signal" /\ usable'["aggregates"] =>
              \/ ~Durable(settings.doc, events[i], job.day)
              \/ Durable(settings.doc, events[job.id], job.day)]_vars

\* Retention runs out although nobody asks: what a sweep leaves, in memory
\* and in whatever a power loss may leave of the aggregates, is within its
\* retention, or its store is given up.
SweepEnforces ==
    [][job.op = "sweep" /\ job'.op = "idle" =>
          /\ usable'["aggregates"] =>
              /\ \A i \in memory' : Live(settings.doc, events[i], job.day)
              /\ \A d \in data'.may : \A i \in d.aggregates :
                      Durable(settings.doc, events[i], job.day)
          /\ usable'["samples"] =>
              \A i \in kept'["samples"] : Durable(settings.doc, events[i], job.day)]_vars

\* History goes only for what outranks it (HistoryKept), and never stays past
\* its retention (SweepEnforces).
HistoryRuns == HistoryKept /\ SweepEnforces

\* "A record may exist only while its subject allows learning with bounded
\* retention": whatever file of the sealed store, its copies included. The code
\* violates it: a copy that an interrupted write left is removed only by a forget.
SealedOnlyWhileAllowed ==
    Idle /\ settings = file.now /\ usable["samples"] =>
        \A i \in data.now.samples \cup UNION {t.content : t \in data.now.temps} :
            events[i].store = "samples" => settings.doc.days[events[i].subject] # 0
=============================================================================
