-------------------------------- MODULE Usage --------------------------------
(* Usage statistics: what was shown and accepted is queued for the worker,   *)
(* counted by local day and subject in memory, and written by a sweep or a   *)
(* flush. From the counts of seven days the engine judges how quiet to be in *)
(* a subject. A count is the set of the events it counts; the local day goes *)
(* back by one where the user crosses a time zone.                           *)
EXTENDS Integers, Sequences, FiniteSets, Functions

CONSTANTS
    Subject,      \* apps and sites, numbers in the order of their identities
    Grants,       \* sets of subjects a settings document lets suggest
    First,        \* the first of them
    Retention,    \* STATS_RETENTION_DAYS
    Week,         \* days the quietness looks back
    SubjectLimit, \* MAX_SUBJECTS_PER_DAY
    NameLimit,    \* MAX_SUMMARY_SUBJECTS
    MinShown,     \* quietness: suggestions shown before a rate counts
    Lowest, Low, High, \* quietness: acceptance rates in percent
    Earlier,      \* suggestions shown before, by a broker that ended
    MaxEvent,     \* bound: events
    MaxRev,       \* bound: settings revisions
    MaxDay,       \* bound: days
    MaxAsk,       \* bound: flushes, queries and forgets asked for
    MaxFault      \* bound: failing writes and crashes

VARIABLES
    grants,  \* per settings revision, the subjects that may suggest
    engine,  \* the revision the engine has installed
    queue,   \* commands for the worker
    usable,  \* whether ControlPlaneState::stats is Some
    days,    \* StatsStore::days
    dirty,   \* StatsStore::dirty
    file,    \* the days on the disk
    today,   \* local_today
    latest,  \* the latest local day so far
    level,   \* BrokerState::quietness, per subject judged
    events,  \* every event so far
    carried, \* the subjects whose level an answered forget has not reset yet
    counted, \* per event counted, or found at the start, and not forgotten: its day
    saved,   \* those an answered flush has written
    torn,    \* a removal of the file failed
    asked,   \* flushes, queries and forgets so far
    faults   \* failing writes and crashes so far

usageVars == <<grants, engine, queue, usable, days, dirty, file, today, latest, level,
               carried, events, counted, saved, torn, asked, faults>>

Rev == Len(grants) - 1
NoDay == [subjects |-> <<>>, other |-> {}]
Total(d) == d.other \cup UNION Range(d.subjects)
Ids(ds) == UNION {Total(ds[d]) : d \in DOMAIN ds}
DayOf(ds, id) == CHOOSE d \in DOMAIN ds : id \in Total(ds[d])

\* within_retention: the last days, and tomorrow.
Within(d) == d > today - Retention /\ d <= today + 1
Reconciled(ds) == Restrict(ds, {d \in DOMAIN ds : Within(d)})

-----------------------------------------------------------------------------
(* Counting                                                                *)

\* StatsStore::record: subjects past the limit share what is other.
With(d, s, id) ==
    IF s \in DOMAIN d.subjects \/ Cardinality(DOMAIN d.subjects) < SubjectLimit
    THEN [d EXCEPT !.subjects =
            [t \in DOMAIN @ \cup {s} |->
                (IF t \in DOMAIN @ THEN @[t] ELSE {}) \cup (IF t = s THEN {id} ELSE {})]]
    ELSE [d EXCEPT !.other = @ \cup {id}]

Recorded(s, id) ==
    LET ds == Reconciled(days)
        day == With(IF today \in DOMAIN ds THEN ds[today] ELSE NoDay, s, id)
    IN  [d \in DOMAIN ds \cup {today} |-> IF d = today THEN day ELSE ds[d]]

\* counts_for, at the revision the event was queued under.
Counts(id) == events[id].rev = Rev /\ events[id].subject \in grants[Len(grants)]

-----------------------------------------------------------------------------
(* Summaries                                                               *)

\* Per subject, the events its records of these days count.
Of(ds, window, s) ==
    UNION {ds[d].subjects[s] : d \in {e \in DOMAIN ds \cap window : s \in DOMAIN ds[e].subjects}}
Shown(ids) == Cardinality({i \in ids : events[i].kind = "shown"})
Accepted(ids) == Cardinality(ids) - Shown(ids)

\* The events of s counted since the counts were last forgotten.
Since(s) == {i \in DOMAIN counted : events[i].subject = s}

Today == {today}
LastDays == today - Week + 1 .. today
Kept == {d \in DOMAIN days : Within(d)}

\* rank, each acceptance saving one word, then the identity.
Outranks(a, b, s, t) ==
    \/ Accepted(a) > Accepted(b)
    \/ Accepted(a) = Accepted(b) /\ Shown(a) > Shown(b)
    \/ Accepted(a) = Accepted(b) /\ Shown(a) = Shown(b) /\ s < t
Leading(window) ==
    LET ids(s) == Of(days, window, s) IN
    {s \in Subject : ids(s) # {} /\
        Cardinality({t \in Subject : ids(t) # {} /\ Outranks(ids(t), ids(s), t, s)}) < NameLimit}

\* StatsStore::summary
Summary == [retained |-> UNION {Total(days[d]) : d \in Kept},
            named    |-> Leading(Today) \cup Leading(LastDays \cap Kept) \cup Leading(Kept)]

-----------------------------------------------------------------------------
(* Quietness                                                               *)

\* QuietLevel::next for what was shown and accepted.
\* Mutant: a level loosens as soon as its rate is no longer too low.
NextLevelFlips(l, shown, accepted) ==
    LET percent == (accepted * 100) \div shown IN
    CASE shown = 0 -> "normal"
      [] shown \in 1 .. MinShown - 1 -> l
      [] shown >= MinShown /\ percent < Lowest -> "quietest"
      [] shown >= MinShown /\ percent >= Lowest ->
            IF l = "normal" /\ percent < Low THEN "quieter" ELSE "normal"
NextLevel(l, shown, accepted) ==
    LET percent == (accepted * 100) \div shown IN
    CASE shown = 0 -> "normal"
      [] shown \in 1 .. MinShown - 1 -> l
      [] shown >= MinShown /\ percent < Lowest -> "quietest"
      [] shown >= MinShown /\ percent >= Lowest ->
            CASE l = "normal" /\ percent < Low -> "quieter"
              [] l = "quieter" /\ percent >= High -> "normal"
              [] l = "quietest" /\ percent >= Low -> "quieter"
              [] OTHER -> l

Judged(l, s) == LET ids == Of(days, LastDays, s) IN NextLevel(l, Shown(ids), Accepted(ids))

-----------------------------------------------------------------------------
(* The engine                                                              *)

Queue(command) == queue' = Append(queue, command)

\* queue_stats, when a suggestion is shown or an acceptance has landed. An
\* acceptance was shown before; what a full queue drops does not happen here.
Happen(s, kind) ==
    /\ Len(events) < MaxEvent /\ s \in grants[engine + 1]
    /\ kind = "accepted" => \E i \in DOMAIN events :
            events[i].subject = s /\ events[i].kind = "shown"
    /\ events' = Append(events, [subject |-> s, kind |-> kind, rev |-> engine])
    /\ Queue([op |-> "count", id |-> Len(events) + 1])
    /\ UNCHANGED <<grants, engine, usable, days, dirty, file, today, latest, level, carried,
                   counted, saved, torn, asked, faults>>

Ask(op) ==
    /\ asked < MaxAsk /\ asked' = asked + 1
    /\ Queue([op |-> op, id |-> Len(events)])
    /\ UNCHANGED <<grants, engine, usable, days, dirty, file, today, latest, level, carried,
                   events, counted, saved, torn, faults>>

\* quiet_floor: a level is judged again once its reading is old, which may be
\* at any request; without the counts it stays.
ReadLevel(s) ==
    /\ s \in grants[engine + 1]
    /\ level' = IF usable THEN [level EXCEPT ![s] = Judged(@, s)] ELSE level
    /\ carried' = IF Shown(Since(s)) >= MinShown \/ level'[s] = "normal"
                  THEN carried \ {s} ELSE carried
    /\ UNCHANGED <<grants, engine, queue, usable, days, dirty, file, today, latest, events,
                   counted, saved, torn, asked, faults>>

\* The control plane commits a document before the engine installs it.
Commit(g) ==
    /\ engine = Rev /\ Rev < MaxRev /\ g # grants[Len(grants)]
    /\ grants' = Append(grants, g)
    /\ UNCHANGED <<engine, queue, usable, days, dirty, file, today, latest, level, carried,
                   events, counted, saved, torn, asked, faults>>
Install ==
    /\ engine < Rev /\ engine' = Rev
    /\ UNCHANGED <<grants, queue, usable, days, dirty, file, today, latest, level, carried,
                   events, counted, saved, torn, asked, faults>>

-----------------------------------------------------------------------------
(* The worker                                                              *)

Taking(op) == queue # <<>> /\ Head(queue).op = op /\ queue' = Tail(queue)

\* record_stats_at_settings_revision
TakeCount ==
    LET id == Head(queue).id IN
    /\ Taking("count")
    /\ IF Counts(id) /\ usable
       THEN /\ days' = Recorded(events[id].subject, id)
            /\ dirty' = TRUE
            /\ counted' = [i \in DOMAIN counted \cup {id} |->
                            IF i = id THEN today ELSE counted[i]]
       ELSE UNCHANGED <<days, dirty, counted>>
    /\ UNCHANGED <<grants, engine, usable, file, today, latest, level, carried, events, saved,
                   torn, asked, faults>>

\* persist_stats. A write fails before or after what it did is visible; the
\* counts stay to be written.
\* Mutant: they are taken to be written.
PersistFailsClean == dirty' = FALSE
PersistFails == dirty' = (dirty \/ Reconciled(days) # days)

Persist ==
    LET left == Reconciled(days) IN
    /\ usable /\ days' = left
    /\ \/ /\ dirty \/ left # days
          /\ file' = left /\ dirty' = FALSE /\ torn' = FALSE /\ UNCHANGED faults
       \/ /\ ~dirty /\ left = days
          /\ UNCHANGED <<dirty, file, torn, faults>>
       \/ /\ dirty \/ left # days
          /\ faults < MaxFault /\ faults' = faults + 1
          /\ PersistFails /\ file' \in {file, left} /\ UNCHANGED torn

Sweep ==
    /\ Persist
    /\ UNCHANGED <<grants, engine, queue, usable, today, latest, level, carried, events,
                   counted, saved, asked>>

\* A pause or a shutdown: what was queued before it is written.
TakeFlush ==
    /\ Taking("flush")
    /\ \/ Persist /\ saved' = IF ~dirty' THEN DOMAIN counted ELSE saved
       \/ ~usable /\ UNCHANGED <<days, file, dirty, torn, faults, saved>>
    /\ UNCHANGED <<grants, engine, usable, today, latest, level, carried, events, counted, asked>>

\* forget_stats: what is in memory goes first, also when the file stays; it
\* repairs a store that was given up.
TakeForget ==
    /\ Taking("forget")
    /\ \/ /\ days' = <<>> /\ file' = <<>> /\ dirty' = FALSE /\ usable' = TRUE
          /\ counted' = <<>> /\ saved' = {} /\ torn' = FALSE /\ carried' = Subject
          /\ UNCHANGED faults
       \/ /\ faults < MaxFault /\ faults' = faults + 1
          /\ days' = (IF usable THEN <<>> ELSE days)
          /\ file' \in {file, <<>>} /\ torn' = TRUE
          /\ counted' = (IF usable THEN <<>> ELSE counted) /\ saved' = {}
          /\ carried' = (IF usable THEN Subject ELSE carried)
          /\ UNCHANGED <<dirty, usable>>
    /\ UNCHANGED <<grants, engine, today, latest, level, events, asked>>

-----------------------------------------------------------------------------
(* The world                                                               *)

\* A day passes, or the user travels west over midnight.
Midnight ==
    /\ \/ today < MaxDay /\ today' = today + 1
       \/ today = latest /\ today > 0 /\ today' = today - 1
    /\ latest' = IF today' > latest THEN today' ELSE latest
    /\ UNCHANGED <<grants, engine, queue, usable, days, dirty, file, level, carried, events,
                   counted, saved, torn, asked, faults>>

\* The broker ends and starts: StatsStore::open and reconcile, then persist.
\* What was counted and not written is lost.
Restart ==
    /\ faults < MaxFault /\ faults' = faults + 1
    /\ queue' = <<>> /\ engine' = Rev
    /\ level' = [s \in Subject |-> "normal"] /\ carried' = {}
    /\ \/ /\ usable' = TRUE /\ dirty' = FALSE /\ torn' = FALSE
          /\ days' = Reconciled(file) /\ file' = days'
       \/ /\ usable' = FALSE /\ dirty' = FALSE /\ days' = <<>>
          /\ UNCHANGED <<file, torn>>
    /\ counted' = [i \in Ids(file) |-> DayOf(file, i)]
    /\ UNCHANGED <<grants, today, latest, events, saved, asked>>

Init ==
    /\ grants = <<First>> /\ engine = 0 /\ queue = <<>>
    /\ today = 1 /\ latest = 1
    /\ events = [i \in DOMAIN Earlier |-> [subject |-> Earlier[i], kind |-> "shown", rev |-> 0]]
    /\ file = [d \in {1} |-> [subjects |-> [s \in {Earlier[i] : i \in DOMAIN Earlier} |->
                                              {i \in DOMAIN Earlier : Earlier[i] = s}],
                             other    |-> {}]]
    /\ usable = TRUE /\ days = file /\ dirty = FALSE
    /\ level = [s \in Subject |-> "normal"] /\ carried = {}
    /\ counted = [i \in DOMAIN Earlier |-> 1] /\ saved = DOMAIN Earlier /\ torn = FALSE /\ asked = 0 /\ faults = 0

Next ==
    \/ \E s \in Subject, kind \in {"shown", "accepted"} : Happen(s, kind)
    \/ \E op \in {"flush", "forget"} : Ask(op)
    \/ \E s \in Subject : ReadLevel(s)
    \/ \E g \in Grants : Commit(g)
    \/ Install \/ TakeCount \/ Sweep \/ TakeFlush \/ TakeForget \/ Midnight \/ Restart

Spec == Init /\ [][Next]_usageVars

-----------------------------------------------------------------------------

TypeOK ==
    /\ engine \in {Rev, Rev - 1} /\ Rev \in 0 .. MaxRev
    /\ level \in [Subject -> {"normal", "quieter", "quietest"}]
    /\ \A d \in DOMAIN days : Cardinality(DOMAIN days[d].subjects) <= SubjectLimit
    /\ DOMAIN counted \subseteq DOMAIN events /\ asked \in 0 .. MaxAsk /\ faults \in 0 .. MaxFault

Recent(i) == counted[i] > latest - Retention

\* A summary counts every event of the last days, wherever the user travelled
\* and however many subjects a day has, and none that was forgotten.
CountsExact ==
    /\ Ids(days) \subseteq DOMAIN counted
    /\ usable => {i \in DOMAIN counted : Recent(i)} \subseteq Summary.retained

\* What an answered flush had counted is on the disk whatever fails or ends
\* afterwards, and counts that are not to be written are the file's.
FlushSurvives ==
    /\ {i \in saved \cap DOMAIN counted : Recent(i)} \subseteq Ids(file)
    /\ usable /\ ~dirty /\ ~torn => file = days

\* A subject a summary does not name is behind in every window.
LeadersNamed ==
    \A window \in {Today, LastDays \cap Kept, Kept} : \A s \in Subject \ Summary.named :
        LET ahead == {t \in Summary.named :
                        Accepted(Of(days, window, t)) >= Accepted(Of(days, window, s))}
        IN  Of(days, window, s) = {} \/ Cardinality(ahead) >= NameLimit

\* A level has enough suggestions behind it that were counted since the last
\* forget, unless it was judged before, and the same counts never flip it.
QuietCause ==
    \A s \in Subject :
        /\ level[s] # "normal" /\ s \notin carried => Shown(Since(s)) >= MinShown
        /\ LET next == Judged(level[s], s)
           IN  next # level[s] => Judged(next, s) # level[s]

UsageSafe == TypeOK /\ CountsExact /\ FlushSurvives /\ LeadersNamed /\ QuietCause
=============================================================================
