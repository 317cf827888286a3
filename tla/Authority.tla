------------------------------ MODULE Authority ------------------------------
(***************************************************************************)
(* Who may suggest where, and who has heard of it: broker/src/engine       *)
(* authority.rs, desktop.rs, editor.rs, snooze.rs and settings.rs, with    *)
(* the connection loop of server.rs that announces each authority epoch    *)
(* and gates data on its acknowledgement.                                  *)
(*                                                                         *)
(* Every switch is one critical section on the broker's lock.  A handler   *)
(* is two: the gate, then the handler proper.  A connection handles one    *)
(* message at a time and forwards announcements only between messages.     *)
(* Engine models what happens inside a session; here a session is open,    *)
(* with or without context.  A connection or session that ended is not     *)
(* used again (ids are fresh UUIDs), except that a closed session's slot   *)
(* may be opened anew by the same connection.  Epochs count from 1, so     *)
(* that 0 stands for an acknowledgement that was never given.              *)
(***************************************************************************)
EXTENDS Naturals, Sequences, FiniteSets

CONSTANTS
    Conn,     \* connections
    Policy,   \* those that negotiated `policy' and own sessions
    Helper,   \* those that report the desktop's state
    Editor,   \* those that report an editor's focus
    Sid, App, \* sessions, apps and sites
    ConnOf,   \* the connection of each session
    AppOf,    \* the identity of each session's target
    Native,   \* desktop-application identities, which an editor withholds
    Docs,     \* settings documents in play
    Capacity, \* announcements a connection may lag behind
    MaxEpoch, \* bound: epochs reached by switches
    MaxAlarm, \* bound: alarms a snooze may be the last of
    MaxRev    \* bound: settings revisions

Doc == [paused : BOOLEAN, share : {"hold", "suggest"}, allow : SUBSET App]

ASSUME SetsAssumption ==
    /\ Policy \subseteq Conn /\ Helper \subseteq Conn /\ Editor \subseteq Conn
    /\ Native \subseteq App /\ Docs \subseteq Doc
    /\ ConnOf \in [Sid -> Policy] /\ AppOf \in [Sid -> App]

ASSUME LimitsAssumption ==
    /\ Capacity \in Nat \ {0}
    /\ MaxEpoch \in Nat /\ MaxAlarm \in Nat /\ MaxRev \in Nat

VARIABLES
    paused,     \* the runtime pause
    condition,  \* ControlPlaneCondition
    settings,   \* the settings in force
    memory,     \* the control plane's settings
    disk,       \* the settings file
    job,        \* the holder of the mutation lock
    away,       \* helpers reporting an inactive or sleeping session
    sharing,    \* helpers reporting a live screen share
    grace,      \* the alarm that ends an orphaned share's grace, or 0
    focus,      \* connections whose editor holds its terminal's focus
    snoozes,    \* the alarm that ends each app's snooze, or 0
    alarms,     \* the alarms set so far
    epoch,      \* authority_epoch
    live,       \* open sessions
    ctx,        \* open sessions that retain context
    registered, \* keys of policy_clients
    acked,      \* their latest acknowledged epoch, or 0
    pc,         \* where each connection's task stands
    request,    \* the message a connection is handling past its gate
    queue,      \* announcements not forwarded yet
    lagged,     \* connections that missed one
    told        \* the epoch each connection was last told

switches == <<paused, condition, settings, memory, disk, job>>
signals == <<away, sharing, grace, focus, snoozes, alarms>>
sessions == <<live, ctx>>
clients == <<registered, acked>>
links == <<pc, request, told>>
news == <<epoch, queue, lagged>>

vars == <<switches, signals, sessions, clients, links, news>>

-----------------------------------------------------------------------------

Alarm == [kind : {"share", "snooze"}, state : {"set", "over", "fired"}]
Alarms == 1 .. Len(alarms)

Revised == [rev : Nat, doc : Doc]

Outcomes == {"updated", "committed", "unknown", "degraded", "rejected"}
NoJob == [phase |-> "none"]
Job == {NoJob, [phase |-> "clearing"]}
       \cup [phase : {"writing"}, next : Revised]
       \cup [phase : {"done"}, outcome : Outcomes]

Early == {"hello", "registered", "greeting"}
Late == {"closing", "unregister", "desktop", "editor"}

NoRequest == [op |-> "none"]
Request == {NoRequest} \cup [op : {"open", "context"}, sid : Sid]

TypeOK ==
    /\ paused \in BOOLEAN
    /\ condition \in {"healthy", "recoverable", "restart"}
    /\ settings \in Revised /\ memory \in Revised /\ disk \in Revised
    /\ job \in Job
    /\ away \subseteq Helper /\ sharing \subseteq Helper /\ focus \subseteq Editor
    /\ alarms \in Seq(Alarm)
    /\ grace \in {0} \cup Alarms
    /\ snoozes \in [App -> {0} \cup Alarms]
    /\ epoch \in Nat \ {0}
    /\ ctx \subseteq live /\ live \subseteq Sid
    /\ registered \subseteq Policy
    /\ acked \in [Conn -> Nat] /\ told \in [Conn -> Nat]
    /\ pc \in [Conn -> {"new", "up", "gone"} \cup Early \cup Late]
    /\ request \in [Conn -> Request]
    /\ queue \in [Conn -> Seq(Nat)]
    /\ lagged \subseteq Conn

Init ==
    /\ paused = FALSE /\ condition = "healthy" /\ job = NoJob
    /\ settings \in [rev : {0}, doc : Docs]
    /\ memory = settings /\ disk = settings
    /\ away = {} /\ sharing = {} /\ focus = {} /\ grace = 0
    /\ alarms = <<>> /\ snoozes = [a \in App |-> 0]
    /\ epoch = 1 /\ live = {} /\ ctx = {}
    /\ registered = {} /\ acked = [c \in Conn |-> 0]
    /\ pc = [c \in Conn |-> "new"] /\ request = [c \in Conn |-> NoRequest]
    /\ queue = [c \in Conn |-> <<>>] /\ lagged = {}
    /\ told = [c \in Conn |-> 0]

-----------------------------------------------------------------------------
(* What is withheld                                                        *)

Mutating == job.phase \in {"writing", "done"}

ShareLive == sharing # {} \/ grace # 0

DesktopHold == away # {} \/ (ShareLive /\ settings.doc.share = "hold")

RuntimePaused == paused \/ condition # "healthy" \/ Mutating \/ DesktopHold

EffectivePaused == RuntimePaused \/ settings.doc.paused

Snoozed(a) == snoozes[a] # 0 /\ alarms[snoozes[a]].state = "set"

EditorWithholds(a) == focus # {} /\ a \in Native

\* The app may be read and suggested for: policy_status and
\* session_with_data_access decide this alike.
DataAllowed(a) ==
    /\ ~EffectivePaused /\ a \in settings.doc.allow
    /\ ~Snoozed(a) /\ ~EditorWithholds(a)

-----------------------------------------------------------------------------
(* Announcements                                                           *)

\* Mutant: a connection that subscribes once its hello is over.
ReceivingLate(c) == c \in Policy /\ pc[c] = "up"

\* The receiver exists from the hello on; only policy connections read it.
Receiving(c) == c \in Policy /\ pc[c] \in Early \cup {"up"}

\* A full queue loses its oldest announcement.
Queued(c) ==
    IF ~Receiving(c) THEN queue[c]
    ELSE Append(IF Len(queue[c]) < Capacity THEN queue[c] ELSE Tail(queue[c]),
                epoch + 1)

\* Mutant: a change nobody is told of.
PublishSilently == epoch' = epoch + 1 /\ UNCHANGED <<queue, lagged>>

\* Advances the epoch and announces it, under the same lock.
Publish ==
    /\ epoch' = epoch + 1
    /\ queue' = [c \in Conn |-> Queued(c)]
    /\ lagged' = lagged \cup {c \in Conn : Receiving(c) /\ Len(queue[c]) >= Capacity}

\* Sessions that may have lost their right lose their context.
RevokeOf(apps) == ctx' = {s \in ctx : AppOf[s] \notin apps}

Owned(c) == {s \in live : ConnOf[s] = c}

\* Mutant: a closed session's context stays behind.
CloseKeepsContext(S) == live' = live \ S /\ UNCHANGED ctx

CloseSessions(S) == live' = live \ S /\ ctx' = ctx \ S

-----------------------------------------------------------------------------
(* Pause, snoozes and the editor's focus                                   *)

SetPaused(b) ==
    /\ paused # b /\ epoch < MaxEpoch
    /\ paused' = b
    /\ UNCHANGED <<condition, settings, memory, disk, job, signals, live,
                   clients, links>>
    /\ Publish
    /\ ctx' = IF EffectivePaused' THEN {} ELSE ctx

\* The app of the one focused field; which sessions are focused is a choice.
Snooze(a) ==
    /\ ~EffectivePaused /\ \E s \in ctx : AppOf[s] = a
    /\ epoch < MaxEpoch /\ Len(alarms) < MaxAlarm
    /\ alarms' = Append(alarms, [kind |-> "snooze", state |-> "set"])
    /\ snoozes' = [snoozes EXCEPT ![a] = Len(alarms) + 1]
    /\ Publish /\ RevokeOf({a})
    /\ UNCHANGED <<switches, away, sharing, grace, focus, live, clients, links>>

\* Snoozes that already ran out are dropped without a word.
EndSnoozes ==
    /\ \E a \in App : snoozes[a] # 0
    /\ epoch < MaxEpoch
    /\ snoozes' = [a \in App |-> 0]
    /\ IF \E a \in App : Snoozed(a) THEN Publish ELSE UNCHANGED news
    /\ UNCHANGED <<switches, away, sharing, grace, focus, alarms, sessions,
                   clients, links>>

\* The editor connection c reports whether it has the focus.
Focus(c, focused) ==
    /\ focus' = IF focused THEN focus \cup {c} ELSE focus \ {c}
    /\ IF (focus' = {}) = (focus = {}) THEN UNCHANGED <<news, ctx>>
       ELSE /\ Publish
            /\ IF focus' # {} THEN RevokeOf(Native) ELSE UNCHANGED ctx

-----------------------------------------------------------------------------
(* Desktop helpers and alarms                                              *)

\* Mutant: a hold that leaves what it found.
SettleGently ==
    IF DesktopHold' = DesktopHold THEN UNCHANGED <<news, ctx>>
    ELSE Publish /\ UNCHANGED ctx

\* Mutant: only entering a hold is announced.
SettleEntering ==
    IF DesktopHold' => DesktopHold THEN UNCHANGED <<news, ctx>>
    ELSE Publish /\ ctx' = {}

\* finish_desktop_transition
Settle ==
    IF DesktopHold' = DesktopHold THEN UNCHANGED <<news, ctx>>
    ELSE Publish /\ ctx' = IF DesktopHold' THEN {} ELSE ctx

\* A report says what is shared now, so it ends any grace.
Report(h, holds, shared) ==
    /\ away' = IF holds THEN away \cup {h} ELSE away \ {h}
    /\ sharing' = IF shared THEN sharing \cup {h} ELSE sharing \ {h}
    /\ grace' = 0
    /\ UNCHANGED <<alarms, settings>>
    /\ Settle

\* A helper that leaves while it shares leaves the share held for a while.
ForgetDesktop(h) ==
    /\ away' = away \ {h} /\ sharing' = sharing \ {h}
    /\ IF h \in sharing
       THEN /\ alarms' = Append(alarms, [kind |-> "share", state |-> "set"])
            /\ grace' = Len(alarms) + 1
       ELSE UNCHANGED <<alarms, grace>>
    /\ UNCHANGED settings
    /\ Settle

\* Time passes an alarm.  All graces are equally long.
AlarmPasses(n) ==
    /\ n \in Alarms /\ alarms[n].state = "set"
    /\ alarms[n].kind = "share" =>
           \A m \in 1 .. n - 1 : alarms[m].kind = "share" => alarms[m].state # "set"
    /\ alarms' = [alarms EXCEPT ![n].state = "over"]
    /\ UNCHANGED <<switches, away, sharing, grace, focus, snoozes, sessions,
                   clients, links, news>>

Fired(n) == [alarms EXCEPT ![n].state = "fired"]

\* Mutant: the timer of an earlier grace ends a later one.
EndShareGraceAny(n) ==
    /\ n \in Alarms /\ alarms[n] = [kind |-> "share", state |-> "over"]
    /\ alarms' = Fired(n)
    /\ grace' = 0
    /\ UNCHANGED <<switches, away, sharing, focus, snoozes, live, clients, links>>
    /\ Settle

\* Mutant: the grace outlives its timer.
EndShareGraceNever(n) ==
    /\ n \in Alarms /\ alarms[n] = [kind |-> "share", state |-> "over"]
    /\ alarms' = Fired(n)
    /\ UNCHANGED <<switches, away, sharing, grace, focus, snoozes, sessions,
                   clients, links, news>>

\* Unless a report ended the grace or a later disconnect extended it.
EndShareGrace(n) ==
    /\ n \in Alarms /\ alarms[n] = [kind |-> "share", state |-> "over"]
    /\ alarms' = Fired(n)
    /\ grace' = IF grace = n THEN 0 ELSE grace
    /\ UNCHANGED <<switches, away, sharing, focus, snoozes, live, clients, links>>
    /\ Settle

\* The alarm of any snooze drops all that ran out.
ExpireSnoozes(n) ==
    LET over == {a \in App : snoozes[a] # 0 /\ ~Snoozed(a)} IN
    /\ n \in Alarms /\ alarms[n] = [kind |-> "snooze", state |-> "over"]
    /\ alarms' = Fired(n)
    /\ snoozes' = [a \in App |-> IF a \in over THEN 0 ELSE snoozes[a]]
    /\ IF over # {} THEN Publish ELSE UNCHANGED news
    /\ UNCHANGED <<switches, away, sharing, grace, focus, sessions, clients, links>>

-----------------------------------------------------------------------------
(* Settings replacement: begin, commit on a blocking thread, finish        *)

\* A next revision other than memory.rev + 1 is rejected, like every other
\* invalid document, so only that one is enumerated.
BeginMutation(d) ==
    /\ job = NoJob /\ memory.rev < MaxRev /\ epoch < MaxEpoch
    /\ job' = [phase |-> "writing", next |-> [rev |-> memory.rev + 1, doc |-> d]]
    /\ CloseSessions(live)
    /\ Publish
    /\ UNCHANGED <<paused, condition, settings, memory, disk, signals, clients,
                   links>>

\* commit_settings and what became of the file.  The file is replaced only if
\* it still holds the revision the control plane knows; if the commit is
\* unknown (or the thread panicked) it holds either document.
Commit(outcome) ==
    /\ job.phase = "writing"
    /\ job' = [phase |-> "done", outcome |-> outcome]
    /\ outcome \in {"updated", "committed", "unknown"} => disk.rev = memory.rev
    /\ CASE outcome \in {"updated", "committed"} -> disk' = job.next /\ memory' = job.next
         [] outcome = "unknown" -> disk' \in {disk, job.next} /\ UNCHANGED memory
         [] OTHER -> UNCHANGED <<disk, memory>>
    /\ UNCHANGED <<paused, condition, settings, signals, sessions, clients, links,
                   news>>

\* Mutant: any failed mutation may be recovered from by a clear.
ConditionAfterForgiving(outcome) ==
    CASE outcome = "updated" -> "healthy"
      [] outcome = "rejected" -> condition
      [] OTHER -> "recoverable"

\* Mutant: a later failure downgrades an unknown commit.
ConditionAfterDowngraded(outcome) ==
    CASE outcome = "updated" -> "healthy"
      [] outcome = "unknown" -> "restart"
      [] outcome \in {"committed", "degraded"} -> "recoverable"
      [] OTHER -> condition

\* A failure short of a commit never downgrades an unknown commit.
ConditionAfter(outcome) ==
    CASE outcome = "updated" -> "healthy"
      [] outcome = "committed" -> "recoverable"
      [] outcome = "unknown" -> "restart"
      [] outcome = "degraded" /\ condition = "healthy" -> "recoverable"
      [] OTHER -> condition

\* Mutant: a rejected mutation leaves the data plane paused.
FinishMutationAccepted ==
    /\ job.phase = "done" /\ job.outcome \in {"updated", "committed"}
    /\ job' = NoJob
    /\ condition' = ConditionAfter(job.outcome)
    /\ settings' = memory /\ CloseSessions(live)
    /\ Publish
    /\ UNCHANGED <<paused, memory, disk, signals, clients, links>>

\* A committed document is in force even if its reconciliation failed; an
\* unknown or rejected one leaves the previous settings in force.
FinishMutation ==
    /\ job.phase = "done" /\ job' = NoJob
    /\ condition' = ConditionAfter(job.outcome)
    /\ IF job.outcome \in {"updated", "committed"}
       THEN settings' = memory /\ CloseSessions(live)
       ELSE UNCHANGED <<settings, sessions>>
    /\ Publish
    /\ UNCHANGED <<paused, memory, disk, signals, clients, links>>

\* clear_personalization holds the same lock, and pauses nothing.  Nothing of
\* this module depends on a clear while the control plane is healthy.
BeginClear ==
    /\ job = NoJob /\ condition # "healthy"
    /\ job' = [phase |-> "clearing"]
    /\ UNCHANGED <<paused, condition, settings, memory, disk, signals, sessions,
                   clients, links, news>>

\* A successful clear ends a recoverable degradation, and only that.
FinishClear(cleared) ==
    /\ job.phase = "clearing" /\ job' = NoJob
    /\ IF cleared /\ condition = "recoverable"
       THEN condition' = "healthy" /\ settings' = memory /\ Publish
       ELSE UNCHANGED <<condition, settings, news>>
    /\ UNCHANGED <<paused, memory, disk, signals, sessions, clients, links>>

-----------------------------------------------------------------------------
(* A connection: its hello, its loop, its teardown                         *)

Idle(c) == pc[c] = "up" /\ request[c] = NoRequest

Goes(c, place) == pc' = [pc EXCEPT ![c] = place]

Subscribe(c) ==
    /\ pc[c] = "new" /\ Goes(c, "hello")
    /\ UNCHANGED <<switches, signals, sessions, clients, request, told, news>>

\* hello.ack is written, or the peer is gone.
Acknowledge(c, written) ==
    /\ pc[c] = "hello"
    /\ IF ~written THEN Goes(c, "gone") /\ UNCHANGED clients
       ELSE IF c \in Policy
       THEN /\ Goes(c, "registered")
            /\ registered' = registered \cup {c} /\ UNCHANGED acked
       ELSE Goes(c, "up") /\ UNCHANGED clients
    /\ UNCHANGED <<switches, signals, sessions, request, told, news>>

\* The first announcement is a snapshot under a lock of its own.
Snapshot(c) ==
    /\ pc[c] = "registered" /\ Goes(c, "greeting")
    /\ told' = [told EXCEPT ![c] = epoch]
    /\ UNCHANGED <<switches, signals, sessions, clients, request, news>>

\* Nothing unregisters a client whose first announcement was not written.
Greet(c, written) ==
    /\ pc[c] = "greeting" /\ Goes(c, IF written THEN "up" ELSE "gone")
    /\ UNCHANGED <<switches, signals, sessions, clients, request, told, news>>

\* The client answers one of the announcements it received, late or not.
AckEpoch(c, e) ==
    /\ Idle(c) /\ c \in registered /\ e \in 1 .. told[c] /\ e > acked[c]
    /\ acked' = [acked EXCEPT ![c] = e]
    /\ UNCHANGED <<switches, signals, sessions, registered, links, news>>

Admitted(c) == c \in registered => acked[c] = epoch

\* require_current_authority_ack, ahead of the handler's own lock.
Gate(s, op) ==
    LET c == ConnOf[s] IN
    /\ Idle(c) /\ Admitted(c)
    /\ request' = [request EXCEPT ![c] = [op |-> op, sid |-> s]]
    /\ UNCHANGED <<switches, signals, sessions, clients, pc, told, news>>

\* The handler proper.  A denied message is answered with an error.
Handle(c, kept) ==
    LET s == request[c].sid IN
    /\ pc[c] = "up" /\ request[c] # NoRequest
    /\ request' = [request EXCEPT ![c] = NoRequest]
    /\ CASE request[c].op = "open" /\ s \notin live /\ DataAllowed(AppOf[s]) ->
              live' = live \cup {s} /\ UNCHANGED ctx
         [] request[c].op = "context" /\ s \in live /\ DataAllowed(AppOf[s]) ->
              ctx' = (IF kept THEN ctx \cup {s} ELSE ctx \ {s}) /\ UNCHANGED live
         [] OTHER -> UNCHANGED sessions
    /\ UNCHANGED <<switches, signals, clients, pc, told, news>>

CloseSession(s) ==
    /\ s \in live /\ Idle(ConnOf[s])
    /\ CloseSessions({s})
    /\ UNCHANGED <<switches, signals, clients, links, news>>

\* Mutant: the announcement leaves the connection's sessions open.
ForwardOpen(c, sent) ==
    /\ Idle(c) /\ c \in Policy \ lagged /\ queue[c] # <<>>
    /\ queue' = [queue EXCEPT ![c] = Tail(@)]
    /\ IF sent THEN told' = [told EXCEPT ![c] = Head(queue[c])] /\ UNCHANGED pc
       ELSE Goes(c, "closing") /\ UNCHANGED told
    /\ UNCHANGED <<switches, signals, sessions, clients, request, epoch, lagged>>

\* An announcement closes the connection's sessions, then goes out if the
\* wire queue has room.
Forward(c, sent) ==
    /\ Idle(c) /\ c \in Policy \ lagged /\ queue[c] # <<>>
    /\ CloseSessions(Owned(c))
    /\ queue' = [queue EXCEPT ![c] = Tail(@)]
    /\ IF sent THEN told' = [told EXCEPT ![c] = Head(queue[c])] /\ UNCHANGED pc
       ELSE Goes(c, "closing") /\ UNCHANGED told
    /\ UNCHANGED <<switches, signals, clients, request, epoch, lagged>>

\* The peer left, its queue lagged, or anything else ended the loop.
EndLoop(c) ==
    /\ Idle(c) /\ Goes(c, "closing")
    /\ UNCHANGED <<switches, signals, sessions, clients, request, told, news>>

CloseOwned(c) ==
    /\ pc[c] = "closing" /\ Goes(c, "unregister")
    /\ CloseSessions(Owned(c))
    /\ UNCHANGED <<switches, signals, clients, request, told, news>>

Unregister(c) ==
    /\ pc[c] = "unregister" /\ Goes(c, "desktop")
    /\ registered' = registered \ {c}
    /\ UNCHANGED <<switches, signals, sessions, acked, request, told, news>>

LeaveDesktop(c) ==
    /\ pc[c] = "desktop" /\ Goes(c, "editor")
    /\ ForgetDesktop(c)
    /\ UNCHANGED <<switches, focus, snoozes, live, clients, request, told>>

\* Mutant: an editor's focus outlives it.
LeaveEditorFocused(c) ==
    /\ pc[c] = "editor" /\ Goes(c, "gone")
    /\ UNCHANGED <<switches, signals, sessions, clients, request, told, news>>

LeaveEditor(c) ==
    /\ pc[c] = "editor" /\ Goes(c, "gone")
    /\ Focus(c, FALSE)
    /\ UNCHANGED <<switches, away, sharing, grace, snoozes, alarms, live, clients,
                   request, told>>

ReportDesktop(h, holds, shared) ==
    /\ h \in Helper /\ Idle(h) /\ epoch < MaxEpoch
    /\ Report(h, holds, shared)
    /\ UNCHANGED <<switches, focus, snoozes, live, clients, links>>

ReportFocus(c, focused) ==
    /\ c \in Editor /\ Idle(c) /\ epoch < MaxEpoch
    /\ Focus(c, focused)
    /\ UNCHANGED <<switches, away, sharing, grace, snoozes, alarms, live, clients,
                   links>>

-----------------------------------------------------------------------------

Switch ==
    \/ \E b \in BOOLEAN : SetPaused(b)
    \/ \E a \in App : Snooze(a)
    \/ EndSnoozes
    \/ \E h \in Helper, holds, shared \in BOOLEAN : ReportDesktop(h, holds, shared)
    \/ \E c \in Editor, focused \in BOOLEAN : ReportFocus(c, focused)

Mutation ==
    \/ \E d \in Docs : BeginMutation(d)
    \/ \E outcome \in Outcomes : Commit(outcome)
    \/ FinishMutation
    \/ BeginClear
    \/ \E cleared \in BOOLEAN : FinishClear(cleared)

Clock == \E n \in Alarms : AlarmPasses(n) \/ EndShareGrace(n) \/ ExpireSnoozes(n)

Hello(c) ==
    \/ Subscribe(c)
    \/ \E written \in BOOLEAN : Acknowledge(c, written) \/ Greet(c, written)
    \/ Snapshot(c)

Leave(c) == CloseOwned(c) \/ Unregister(c) \/ LeaveDesktop(c) \/ LeaveEditor(c)

Loop(c) ==
    \/ \E e \in 1 .. told[c] : AckEpoch(c, e)
    \/ \E kept \in BOOLEAN : Handle(c, kept)
    \/ \E sent \in BOOLEAN : Forward(c, sent)
    \/ EndLoop(c)

Message(s) == CloseSession(s) \/ \E op \in {"open", "context"} : Gate(s, op)

Next ==
    \/ Switch
    \/ Mutation
    \/ Clock
    \/ \E c \in Conn : Hello(c) \/ Loop(c) \/ Leave(c)
    \/ \E s \in Sid : Message(s)

\* Handlers return, the blocking thread ends, alarms ring, and a connection
\* loop serves its announcements or ends if it missed one.
Fairness ==
    /\ WF_vars(\E outcome \in Outcomes : Commit(outcome))
    /\ WF_vars(FinishMutation)
    /\ WF_vars(\E n \in Alarms : AlarmPasses(n))
    /\ WF_vars(\E n \in Alarms : EndShareGrace(n) \/ ExpireSnoozes(n))
    /\ \A c \in Conn :
        /\ WF_vars(\E kept \in BOOLEAN : Handle(c, kept))
        /\ SF_vars(\E sent \in BOOLEAN : Forward(c, sent))
        /\ SF_vars(c \in lagged /\ EndLoop(c))
        /\ WF_vars(Leave(c))

Spec == Init /\ [][Next]_vars
FairSpec == Spec /\ Fairness

-----------------------------------------------------------------------------
(* Properties                                                              *)

\* Whatever combination of switches denies an app, no session there retains
\* context: each switch revokes what it alone now covers.
NoDataWithheld == \A s \in ctx : DataAllowed(AppOf[s])

RanOut(a) == \E n \in Alarms : n = snoozes[a] /\ alarms'[n] # alarms[n]

\* What may be suggested for changes only with a new epoch, except that a
\* snooze that runs out allows its app a moment before the epoch says so.
EpochTells ==
    [][\A a \in App : DataAllowed(a)' # DataAllowed(a) =>
           \/ epoch' = epoch + 1
           \/ ~DataAllowed(a) /\ RanOut(a)]_vars

\* An established connection that missed nothing was told the current epoch,
\* or the announcement of it is the last one queued.
NothingMissed ==
    \A c \in Policy \ lagged : pc[c] \in {"greeting", "up"} =>
        epoch = IF queue[c] = <<>> THEN told[c] ELSE queue[c][Len(queue[c])]

\* A session that outlives the announcements its connection has queued was
\* opened by a connection that acknowledged the current epoch.
AckedSessions ==
    \A s \in live : LET c == ConnOf[s] IN
        pc[c] = "up" /\ queue[c] = <<>> => acked[c] = epoch

\* A connection that ended holds no session, no focus and no report.
GoneHoldsNothing ==
    \A c \in Conn : pc[c] = "gone" =>
        Owned(c) = {} /\ c \notin focus \cup away \cup sharing

\* A screen share that is held stays held while its helper restarts: it ends
\* by a report, by a settings change, or once its grace is over.
ShareKept ==
    [][LET held == ShareLive /\ settings.doc.share = "hold" IN
       held /\ ~held' =>
           \/ \E h \in Helper : Idle(h) /\ h \notin sharing'
           \/ settings' # settings
           \/ grace # 0 /\ alarms[grace].state = "over"]_vars

\* Outside a mutation and short of an unknown commit, the settings in force
\* are those of the file.
Coherent == ~Mutating /\ condition # "restart" => settings = disk

\* Only installing the file's settings reopens the data plane after a commit
\* whose outcome is unknown.
RestartSticks ==
    [][condition = "restart" /\ condition' # "restart" =>
           settings' = disk /\ memory = disk]_vars

\* No hold and no pause of the control plane's own lasts for ever.
GraceEnds == (grace # 0) ~> (grace = 0)
MutationEnds == Mutating ~> ~Mutating
AuthorityEnds == GraceEnds /\ MutationEnds

\* "Sending under the lock keeps the announcements in epoch order" (mod.rs),
\* and clients refuse an epoch that is not above the last: each announcement
\* queued for a connection is newer than what it was told. The code violates it:
\* a connection subscribes before it reads the epoch its hello tells.
AnnouncedInOrder ==
    \A c \in Policy : pc[c] = "up" /\ queue[c] # <<>> => Head(queue[c]) > told[c]

\* A connection that ended is no longer waited for (server/tests.rs expects no
\* pending acknowledgement after a handshake that failed). The code violates it:
\* a connection whose first announcement fails stays registered.
GoneUnregistered == \A c \in registered : pc[c] # "gone"

=============================================================================
