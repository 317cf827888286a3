--------------------------- MODULE AuthorityProofs ---------------------------
(***************************************************************************)
(* Authority keeps its safety properties for every set of connections,     *)
(* sessions, apps and documents.  The inductive invariant says where each  *)
(* connection's task may stand (Placed), what it has heard of the epoch    *)
(* (Heard), and which of the three copies of the settings agree (Copies).  *)
(***************************************************************************)
EXTENDS Authority, TLAPS

Placed ==
    /\ \A s \in live : pc[ConnOf[s]] \in {"up", "closing"}
    /\ \A c \in Conn : request[c] # NoRequest =>
           pc[c] = "up" /\ ConnOf[request[c].sid] = c
    /\ \A c \in focus : pc[c] = "up" \/ pc[c] \in Late
    /\ \A c \in away \cup sharing :
           pc[c] \in {"up", "closing", "unregister", "desktop"}
    /\ \A c \in Policy :
           pc[c] \in {"registered", "greeting", "up"} => c \in registered

HeardBy(c) ==
    /\ pc[c] = "new" => queue[c] = <<>>
    /\ told[c] <= epoch /\ acked[c] <= epoch
    /\ \A i \in 1 .. Len(queue[c]) : queue[c][i] <= epoch
    /\ Receiving(c) /\ queue[c] # <<>> => queue[c][Len(queue[c])] = epoch
    /\ pc[c] \in {"greeting", "up"} /\ queue[c] = <<>> => told[c] = epoch
    /\ request[c] # NoRequest /\ queue[c] = <<>> => acked[c] = epoch

Heard == (\A c \in Policy : HeardBy(c)) /\ AckedSessions

Copies ==
    LET agree == settings = memory /\ memory = disk IN
    IF job.phase = "done"
    THEN /\ job.outcome \in {"updated", "committed"} => memory = disk
         /\ job.outcome \in {"degraded", "rejected"} /\ condition # "restart" => agree
    ELSE condition # "restart" => agree

IInv == TypeOK /\ Placed /\ Heard /\ Copies /\ NoDataWithheld

-----------------------------------------------------------------------------
(* Types                                                                   *)

LEMMA NewsTyped ==
    ASSUME TypeOK, Publish \/ UNCHANGED news
    PROVE  epoch' \in Nat \ {0} /\ queue' \in [Conn -> Seq(Nat)] /\ lagged' \subseteq Conn
<1>1. \A c \in Conn : Queued(c) \in Seq(Nat)
  BY LimitsAssumption DEF TypeOK, Queued
<1>2. CASE Publish
  BY <1>1, <1>2 DEF TypeOK, Publish
<1>3. CASE UNCHANGED news
  BY <1>3 DEF TypeOK, news
<1> QED
  BY <1>2, <1>3


\* A new alarm leaves the others where they are.
LEMMA AlarmAdded ==
    ASSUME TypeOK, NEW k \in {"share", "snooze"},
           alarms' = Append(alarms, [kind |-> k, state |-> "set"])
    PROVE  /\ alarms' \in Seq(Alarm) /\ Alarms \subseteq Alarms'
           /\ Len(alarms) + 1 \in Alarms'
           /\ \A n \in Alarms : alarms'[n] = alarms[n]
  BY DEF TypeOK, Alarm, Alarms

\* An alarm that rings or fires is no longer set; the others stay the same.
LEMMA AlarmMoved ==
    ASSUME TypeOK, NEW n \in Alarms, NEW st \in {"over", "fired"},
           alarms' = [alarms EXCEPT ![n].state = st]
    PROVE  /\ alarms' \in Seq(Alarm) /\ Alarms' = Alarms
           /\ alarms'[n].state = st
           /\ \A m \in Alarms \ {n} : alarms'[m] = alarms[m]
<1>1. alarms[n] \in Alarm /\ Len(alarms) \in Nat
  BY DEF TypeOK, Alarms
<1>2. [alarms[n] EXCEPT !.state = st] \in Alarm
  BY <1>1 DEF Alarm
<1>3. alarms' = [alarms EXCEPT ![n] = [alarms[n] EXCEPT !.state = st]]
  OBVIOUS
<1>4. alarms' \in Seq(Alarm) /\ Len(alarms') = Len(alarms)
  BY <1>1, <1>2, <1>3 DEF TypeOK, Alarms
<1>5. /\ alarms'[n] = [alarms[n] EXCEPT !.state = st]
      /\ \A m \in Alarms \ {n} : alarms'[m] = alarms[m]
  BY <1>1, <1>3 DEF TypeOK, Alarms
<1> QED
  BY <1>1, <1>4, <1>5 DEF Alarm, Alarms

LEMMA InitTyped == Init => TypeOK
<1> SUFFICES ASSUME Init PROVE TypeOK
  OBVIOUS
<1>1. settings \in Revised
  BY SetsAssumption DEF Init, Revised
<1>2. alarms \in Seq(Alarm) /\ queue \in [Conn -> Seq(Nat)]
  BY DEF Init
<1>3. request \in [Conn -> Request] /\ job \in Job
  BY DEF Init, Request, Job
<1>4. grace \in {0} \cup Alarms /\ snoozes \in [App -> {0} \cup Alarms]
  BY DEF Init
<1>5. acked \in [Conn -> Nat] /\ told \in [Conn -> Nat] /\ epoch \in Nat \ {0}
  BY DEF Init
<1>6. pc \in [Conn -> {"new", "up", "gone"} \cup Early \cup Late]
  BY DEF Init
<1> QED
  BY <1>1, <1>2, <1>3, <1>4, <1>5, <1>6 DEF Init, TypeOK

\* Every step of a switch is type correct.
LEMMA SwitchTyped == TypeOK /\ Switch => TypeOK'
<1> SUFFICES ASSUME TypeOK, Switch PROVE TypeOK'
  OBVIOUS
<1>1. ASSUME NEW b \in BOOLEAN, SetPaused(b) PROVE TypeOK'
  <2>1. Publish /\ ctx' \subseteq live' /\ live' \subseteq Sid
    BY <1>1 DEF SetPaused, TypeOK
  <2> QED
    BY <1>1, <2>1, NewsTyped DEF SetPaused, TypeOK, signals, clients, links, Alarms
<1>2. ASSUME NEW a \in App, Snooze(a) PROVE TypeOK'
  <2>1. Publish /\ ctx' \subseteq live' /\ live' \subseteq Sid
    BY <1>2 DEF Snooze, RevokeOf, TypeOK
  <2>2. /\ alarms' \in Seq(Alarm) /\ Alarms \subseteq Alarms'
        /\ Len(alarms) + 1 \in Alarms'
    BY <1>2, AlarmAdded DEF Snooze
  <2>3. snoozes' \in [App -> {0} \cup Alarms'] /\ grace' \in {0} \cup Alarms'
    BY <1>2, <2>2 DEF Snooze, TypeOK
  <2> QED
    BY <1>2, <2>1, <2>2, <2>3, NewsTyped DEF Snooze, TypeOK, switches, clients, links
<1>3. ASSUME EndSnoozes PROVE TypeOK'
  <2>1. Publish \/ UNCHANGED news
    BY <1>3 DEF EndSnoozes
  <2> QED
    BY <1>3, <2>1, NewsTyped DEF EndSnoozes, TypeOK, switches, sessions, clients,
       links, Alarms
<1>4. ASSUME NEW h \in Helper, NEW holds \in BOOLEAN, NEW shared \in BOOLEAN,
             ReportDesktop(h, holds, shared)
      PROVE  TypeOK'
  <2>1. /\ Publish \/ UNCHANGED news
        /\ ctx' \subseteq live' /\ live' \subseteq Sid
    BY <1>4 DEF ReportDesktop, Report, Settle, TypeOK
  <2> QED
    BY <1>4, <2>1, NewsTyped DEF ReportDesktop, Report, TypeOK, switches, clients,
       links, Alarms
<1>5. ASSUME NEW c \in Editor, NEW focused \in BOOLEAN, ReportFocus(c, focused)
      PROVE  TypeOK'
  <2>1. /\ Publish \/ UNCHANGED news
        /\ ctx' \subseteq live' /\ live' \subseteq Sid
    BY <1>5 DEF ReportFocus, Focus, RevokeOf, TypeOK
  <2> QED
    BY <1>5, <2>1, NewsTyped DEF ReportFocus, Focus, TypeOK, switches, clients,
       links, Alarms
<1> QED
  BY <1>1, <1>2, <1>3, <1>4, <1>5 DEF Switch

\* What each step of a mutation writes is a job, a condition or a document.
LEMMA MutationTyped == TypeOK /\ Mutation => TypeOK'
<1> SUFFICES ASSUME TypeOK, Mutation PROVE TypeOK'
  OBVIOUS
<1> USE DEF signals, sessions, clients, links, Alarms
<1>1. ASSUME NEW d \in Docs, BeginMutation(d) PROVE TypeOK'
  <2>1. job' \in Job
    BY <1>1, SetsAssumption DEF BeginMutation, TypeOK, Job, Revised
  <2> QED
    BY <1>1, <2>1, NewsTyped DEF BeginMutation, CloseSessions, TypeOK
<1>2. ASSUME NEW o \in Outcomes, Commit(o) PROVE TypeOK'
  <2>1. job.next \in Revised /\ job' \in Job
    BY <1>2 DEF Commit, TypeOK, Job, NoJob
  <2>2. disk' \in Revised /\ memory' \in Revised
    BY <1>2, <2>1 DEF Commit, TypeOK
  <2>3. UNCHANGED <<paused, condition, settings, signals, sessions, clients,
                    links, news>>
    BY <1>2 DEF Commit
  <2> QED
    BY <2>1, <2>2, <2>3 DEF TypeOK, news
<1>3. ASSUME FinishMutation PROVE TypeOK'
  <2>1. job' \in Job /\ condition' \in {"healthy", "recoverable", "restart"}
    BY <1>3 DEF FinishMutation, ConditionAfter, TypeOK, Job
  <2>2. settings' \in Revised /\ ctx' \subseteq live' /\ live' \subseteq Sid
    BY <1>3 DEF FinishMutation, CloseSessions, TypeOK
  <2> QED
    BY <1>3, <2>1, <2>2, NewsTyped DEF FinishMutation, TypeOK
<1>4. ASSUME BeginClear PROVE TypeOK'
  BY <1>4 DEF BeginClear, TypeOK, Job, news
<1>5. ASSUME NEW b \in BOOLEAN, FinishClear(b) PROVE TypeOK'
  <2>1. job' \in Job /\ condition' \in {"healthy", "recoverable", "restart"}
    BY <1>5 DEF FinishClear, TypeOK, Job
  <2>2. settings' \in Revised /\ (Publish \/ UNCHANGED news)
    BY <1>5 DEF FinishClear, TypeOK
  <2> QED
    BY <1>5, <2>1, <2>2, NewsTyped DEF FinishClear, TypeOK
<1> QED
  BY <1>1, <1>2, <1>3, <1>4, <1>5 DEF Mutation

\* Alarms are typed as they ring, and what they end is typed.
LEMMA ClockTyped == TypeOK /\ Clock => TypeOK'
<1> SUFFICES ASSUME TypeOK, NEW n \in Alarms,
                    AlarmPasses(n) \/ EndShareGrace(n) \/ ExpireSnoozes(n)
             PROVE  TypeOK'
  BY DEF Clock
<1>1. alarms' \in Seq(Alarm) /\ Alarms' = Alarms
  <2>1. PICK st \in {"over", "fired"} : alarms' = [alarms EXCEPT ![n].state = st]
    BY DEF AlarmPasses, EndShareGrace, ExpireSnoozes, Fired
  <2> QED
    BY <2>1, AlarmMoved
<1>2. Publish \/ UNCHANGED news
  BY DEF AlarmPasses, EndShareGrace, ExpireSnoozes, Settle
<1>3. ctx' \subseteq live' /\ live' \subseteq Sid
  BY DEF AlarmPasses, EndShareGrace, ExpireSnoozes, Settle, sessions, TypeOK
<1>4. grace' \in {0} \cup Alarms' /\ snoozes' \in [App -> {0} \cup Alarms']
  BY <1>1 DEF AlarmPasses, EndShareGrace, ExpireSnoozes, TypeOK
<1>5. UNCHANGED <<switches, away, sharing, focus, clients, links>>
  BY DEF AlarmPasses, EndShareGrace, ExpireSnoozes
<1> QED
  BY <1>1, <1>2, <1>3, <1>4, <1>5, NewsTyped DEF TypeOK, switches, clients, links

\* A connection's hello and loop, and a session's messages.
LEMMA LoopTyped ==
    ASSUME TypeOK, NEW c \in Conn, Hello(c) \/ Loop(c)
    PROVE  TypeOK'
<1> USE DEF switches, signals, sessions, clients, links, news, Alarms
<1>1. CASE Subscribe(c)
  BY <1>1 DEF Subscribe, Goes, Early, TypeOK
<1>2. ASSUME NEW w \in BOOLEAN, Acknowledge(c, w) PROVE TypeOK'
  BY <1>2 DEF Acknowledge, Goes, Early, TypeOK
<1>3. ASSUME NEW w \in BOOLEAN, Greet(c, w) PROVE TypeOK'
  BY <1>3 DEF Greet, Goes, Early, TypeOK
<1>4. CASE Snapshot(c)
  BY <1>4 DEF Snapshot, Goes, Early, TypeOK
<1>5. ASSUME NEW e \in 1 .. told[c], AckEpoch(c, e) PROVE TypeOK'
  BY <1>5 DEF AckEpoch, TypeOK
<1>6. ASSUME NEW k \in BOOLEAN, Handle(c, k) PROVE TypeOK'
  <2>1. request[c].sid \in Sid /\ request' \in [Conn -> Request]
    BY <1>6 DEF Handle, TypeOK, Request, NoRequest
  <2>2. ctx' \subseteq live' /\ live' \subseteq Sid
    BY <1>6, <2>1 DEF Handle, TypeOK
  <2> QED
    BY <1>6, <2>1, <2>2 DEF Handle, TypeOK
<1>7. ASSUME NEW b \in BOOLEAN, Forward(c, b) PROVE TypeOK'
  <2>1. Tail(queue[c]) \in Seq(Nat) /\ Head(queue[c]) \in Nat
    BY <1>7 DEF Forward, TypeOK
  <2>2. queue' \in [Conn -> Seq(Nat)]
    BY <1>7, <2>1 DEF Forward, TypeOK
  <2>3. told' \in [Conn -> Nat] /\ pc' \in [Conn -> {"new", "up", "gone"} \cup Early \cup Late]
    BY <1>7, <2>1 DEF Forward, Goes, Late, TypeOK
  <2> QED
    BY <1>7, <2>2, <2>3 DEF Forward, CloseSessions, TypeOK
<1>8. CASE EndLoop(c)
  BY <1>8 DEF EndLoop, Goes, Late, TypeOK
<1> QED
  BY <1>1, <1>2, <1>3, <1>4, <1>5, <1>6, <1>7, <1>8 DEF Hello, Loop

LEMMA LeaveTyped ==
    ASSUME TypeOK, NEW c \in Conn, Leave(c)
    PROVE  TypeOK'
<1> USE DEF switches, signals, sessions, clients, links
<1>1. CASE CloseOwned(c)
  BY <1>1 DEF CloseOwned, CloseSessions, Goes, Late, TypeOK, news, Alarms
<1>2. CASE Unregister(c)
  BY <1>2 DEF Unregister, Goes, Late, TypeOK, news, Alarms
<1>3. CASE LeaveDesktop(c)
  <2>1. /\ Publish \/ UNCHANGED news
        /\ ctx' \subseteq live' /\ live' \subseteq Sid
    BY <1>3 DEF LeaveDesktop, ForgetDesktop, Settle, TypeOK
  <2>2. pc' \in [Conn -> {"new", "up", "gone"} \cup Early \cup Late]
    BY <1>3 DEF LeaveDesktop, Goes, Late, TypeOK
  <2>3. /\ alarms' \in Seq(Alarm) /\ Alarms \subseteq Alarms'
        /\ grace' \in {0} \cup Alarms'
    <3>1. CASE c \in sharing
      BY <1>3, <3>1, AlarmAdded DEF LeaveDesktop, ForgetDesktop
    <3>2. CASE c \notin sharing
      BY <1>3, <3>2 DEF LeaveDesktop, ForgetDesktop, TypeOK, Alarms
    <3> QED
      BY <3>1, <3>2
  <2>4. snoozes' \in [App -> {0} \cup Alarms'] /\ settings' \in Revised
    BY <1>3, <2>3 DEF LeaveDesktop, ForgetDesktop, TypeOK
  <2> QED
    BY <1>3, <2>1, <2>2, <2>3, <2>4, NewsTyped DEF LeaveDesktop, ForgetDesktop, TypeOK
<1>4. CASE LeaveEditor(c)
  <2>1. /\ Publish \/ UNCHANGED news
        /\ ctx' \subseteq live' /\ live' \subseteq Sid
    BY <1>4 DEF LeaveEditor, Focus, RevokeOf, TypeOK
  <2>2. pc' \in [Conn -> {"new", "up", "gone"} \cup Early \cup Late]
    BY <1>4 DEF LeaveEditor, Goes, TypeOK
  <2> QED
    BY <1>4, <2>1, <2>2, NewsTyped DEF LeaveEditor, Focus, TypeOK, Alarms
<1> QED
  BY <1>1, <1>2, <1>3, <1>4 DEF Leave

LEMMA MessageTyped ==
    ASSUME TypeOK, NEW s \in Sid, Message(s)
    PROVE  TypeOK'
<1> USE DEF switches, signals, sessions, clients, links, news, Alarms
<1>1. CASE CloseSession(s)
  BY <1>1 DEF CloseSession, CloseSessions, TypeOK
<1>2. ASSUME NEW op \in {"open", "context"}, Gate(s, op) PROVE TypeOK'
  <2>1. [op |-> op, sid |-> s] \in Request
    BY DEF Request
  <2> QED
    BY <1>2, <2>1 DEF Gate, TypeOK
<1> QED
  BY <1>1, <1>2 DEF Message

LEMMA StepTyped == TypeOK /\ [Next]_vars => TypeOK'
<1> SUFFICES ASSUME TypeOK, [Next]_vars PROVE TypeOK'
  OBVIOUS
<1>1. CASE UNCHANGED vars
  BY <1>1 DEF TypeOK, vars, switches, signals, sessions, clients, links, news, Alarms
<1>2. CASE Next
  BY <1>2, SwitchTyped, MutationTyped, ClockTyped, LoopTyped, LeaveTyped,
     MessageTyped DEF Next
<1> QED
  BY <1>1, <1>2

\* Every reachable state is well typed, and an alarm that anything refers to
\* was set: snooze.rs and desktop.rs keep ends, Authority their alarms.
THEOREM TypeCorrect == Spec => []TypeOK
  BY InitTyped, StepTyped, PTL DEF Spec

-----------------------------------------------------------------------------
(* Connections: where they stand, what they have heard                     *)

LEMMA InitIInv == Init => IInv
<1> SUFFICES ASSUME Init PROVE IInv
  OBVIOUS
<1>1. TypeOK
  BY InitTyped
<1>2. Placed /\ NoDataWithheld
  BY SetsAssumption DEF Init, Placed, NoDataWithheld
<1>3. Heard
  BY SetsAssumption DEF Init, Heard, HeardBy, AckedSessions, Receiving, Early
<1>4. Copies
  BY DEF Init, Copies, NoJob
<1> QED
  BY <1>1, <1>2, <1>3, <1>4 DEF IInv

\* A published epoch is the last one queued for all who can still hear it.
LEMMA Published ==
    ASSUME TypeOK, TypeOK', Heard, Publish, NEW c \in Policy
    PROVE  /\ \A i \in 1 .. Len(queue'[c]) : queue'[c][i] <= epoch'
           /\ Receiving(c) => queue'[c] # <<>> /\ queue'[c][Len(queue'[c])] = epoch'
           /\ ~Receiving(c) => queue'[c] = queue[c]
<1> DEFINE kept == IF Len(queue[c]) < Capacity THEN queue[c] ELSE Tail(queue[c])
<1>1. /\ queue[c] \in Seq(Nat) /\ epoch \in Nat
      /\ \A i \in 1 .. Len(queue[c]) : queue[c][i] <= epoch
  BY SetsAssumption DEF TypeOK, Heard, HeardBy
<1>2. queue'[c] = Queued(c) /\ epoch' = epoch + 1
  BY SetsAssumption DEF Publish, TypeOK
<1>3. CASE ~Receiving(c)
  BY <1>1, <1>2, <1>3 DEF Queued
<1>4. CASE Receiving(c)
  <2>1. kept \in Seq(Nat) /\ \A i \in 1 .. Len(kept) : kept[i] <= epoch
    BY <1>1, LimitsAssumption
  <2>2. queue'[c] = Append(kept, epoch + 1)
    BY <1>2, <1>4 DEF Queued
  <2> HIDE DEF kept
  <2>3. /\ Len(queue'[c]) = Len(kept) + 1
        /\ queue'[c][Len(kept) + 1] = epoch + 1
        /\ \A i \in 1 .. Len(kept) : queue'[c][i] = kept[i]
    BY <2>1, <2>2, <1>1
  <2>4. Len(kept) \in Nat /\ queue'[c] # <<>>
    BY <2>1, <2>3
  <2>5. ASSUME NEW i \in 1 .. Len(queue'[c]) PROVE queue'[c][i] <= epoch'
    <3>1. i \in 1 .. Len(kept) \/ i = Len(kept) + 1
      BY <2>3, <2>4
    <3>2. \A j \in 1 .. Len(kept) : kept[j] \in Nat
      BY <2>1
    <3> QED
      BY <1>1, <1>2, <2>1, <2>3, <3>1, <3>2
  <2> QED
    BY <1>2, <1>4, <2>3, <2>4, <2>5
<1> QED
  BY <1>3, <1>4

\* A step that at most publishes, and moves tasks only towards their end.
LEMMA HeardStays ==
    ASSUME IInv, TypeOK', Publish \/ UNCHANGED news,
           UNCHANGED <<acked, request, told>>, live' \subseteq live,
           \A c \in Policy : pc'[c] = pc[c] \/ pc'[c] \in Late \cup {"gone"}
    PROVE  Heard'
<1> USE DEF IInv, Receiving, Early, Late
<1>1. CASE UNCHANGED news
  BY <1>1, SetsAssumption DEF Heard, HeardBy, AckedSessions, news, TypeOK
<1>2. CASE Publish
  <2>1. ASSUME NEW c \in Policy PROVE HeardBy(c)'
    <3>1. /\ HeardBy(c) /\ epoch' = epoch + 1 /\ epoch \in Nat
          /\ told[c] \in Nat /\ acked[c] \in Nat /\ c \in Conn
      BY <1>2, SetsAssumption DEF Heard, Publish, TypeOK
    <3>2. /\ acked'[c] = acked[c] /\ told'[c] = told[c] /\ request'[c] = request[c]
          /\ request[c] # NoRequest => pc[c] = "up"
      BY <3>1 DEF Placed
    <3>3. CASE Receiving(c)
      BY <3>1, <3>2, <3>3, <1>2, Published DEF HeardBy
    <3>4. CASE ~Receiving(c)
      BY <3>1, <3>2, <3>4, <1>2, Published DEF HeardBy
    <3> QED
      BY <3>3, <3>4
  <2>2. AckedSessions'
    <3> SUFFICES ASSUME NEW s \in live', pc'[ConnOf[s]] = "up"
                 PROVE  queue'[ConnOf[s]] # <<>>
      BY DEF AckedSessions
    <3>1. ConnOf[s] \in Policy /\ pc[ConnOf[s]] = "up"
      BY SetsAssumption DEF TypeOK
    <3> QED
      BY <3>1, <1>2, Published
  <2> QED
    BY <2>1, <2>2 DEF Heard
<1> QED
  BY <1>1, <1>2

\* A step of no connection that opens no session: only connections in their
\* loop gain the focus or a report.
LEMMA PlacedStays ==
    ASSUME IInv, UNCHANGED <<registered, pc, request>>, live' \subseteq live,
           focus' \subseteq focus \cup {c \in Conn : pc[c] = "up"},
           away' \subseteq away \cup {c \in Conn : pc[c] = "up"},
           sharing' \subseteq sharing \cup {c \in Conn : pc[c] = "up"}
    PROVE  Placed'
  BY SetsAssumption DEF IInv, Placed, Late

\* A message or an announcement moves one connection only.
LEMMA HelloHeard ==
    ASSUME IInv, TypeOK', NEW c \in Conn, Hello(c)
    PROVE  Placed' /\ Heard'
<1> USE DEF IInv, Goes, signals, sessions, clients, news, links, TypeOK, Early, Late
<1> USE SetsAssumption
<1>1. CASE Subscribe(c)
  BY <1>1 DEF Subscribe, Placed, Heard, HeardBy, AckedSessions, Receiving
<1>2. ASSUME NEW w \in BOOLEAN, Acknowledge(c, w) PROVE Placed' /\ Heard'
  <2>a. pc' \in [Conn -> {"new", "up", "gone"} \cup Early \cup Late]
    OBVIOUS
  <2>b. /\ pc[c] = "hello" /\ registered \subseteq registered'
        /\ pc'[c] \in {"gone", "registered", "up"}
        /\ c \in Policy /\ pc'[c] # "gone" => c \in registered'
        /\ \A d \in Conn \ {c} : pc'[d] = pc[d]
        /\ UNCHANGED <<live, request, focus, away, sharing>>
    BY <1>2 DEF Acknowledge
  <2>1. /\ Placed'
        /\ \A s \in live' : pc'[ConnOf[s]] = pc[ConnOf[s]]
    <3> HIDE DEF TypeOK, Goes, signals, sessions, clients, news, links
    <3>1. /\ live \subseteq Sid /\ focus \subseteq Conn
          /\ away \subseteq Conn /\ sharing \subseteq Conn
      BY DEF TypeOK
    <3>2. /\ \A s \in live : ConnOf[s] \in Conn \ {c}
          /\ c \notin focus \cup away \cup sharing /\ request[c] = NoRequest
      BY <2>b, <3>1 DEF Placed
    <3>3. \A d \in Policy : pc'[d] \in {"registered", "greeting", "up"} => d \in registered'
      BY <2>b DEF Placed
    <3> QED
      BY <2>b, <3>1, <3>2, <3>3 DEF Placed
  <2>2. ASSUME NEW d \in Policy PROVE HeardBy(d)'
    <3>1. HeardBy(d) /\ d \in Conn
      BY DEF Heard
    <3>2. CASE d # c
      BY <1>2, <3>1, <3>2 DEF Acknowledge, HeardBy, Receiving
    <3>3. CASE d = c
      BY <1>2, <3>1, <3>3 DEF Acknowledge, HeardBy, Receiving
    <3> QED
      BY <3>2, <3>3
  <2>3. AckedSessions'
    BY <1>2, <2>1 DEF Acknowledge, Heard, AckedSessions
  <2> QED
    BY <2>1, <2>2, <2>3 DEF Heard
<1>3. ASSUME NEW w \in BOOLEAN, Greet(c, w) PROVE Placed' /\ Heard'
  BY <1>3 DEF Greet, Placed, Heard, HeardBy, AckedSessions, Receiving
<1>4. CASE Snapshot(c)
  BY <1>4 DEF Snapshot, Placed, Heard, HeardBy, AckedSessions, Receiving
<1> QED
  BY <1>1, <1>2, <1>3, <1>4 DEF Hello

\* What one connection does leaves what the others heard alone.
LEMMA OthersHeard ==
    ASSUME NEW d \in Policy, HeardBy(d), epoch' = epoch, queue'[d] = queue[d],
           acked'[d] = acked[d], told'[d] = told[d], pc'[d] = pc[d],
           request'[d] = request[d]
    PROVE  HeardBy(d)'
  BY DEF HeardBy, Receiving

LEMMA LoopHeard ==
    ASSUME IInv, TypeOK', NEW c \in Conn, Loop(c)
    PROVE  Placed' /\ Heard'
<1>0. /\ \A d \in Policy : HeardBy(d) /\ d \in Conn
      /\ \A s \in live : ConnOf[s] \in Policy /\ s \in Sid
      /\ AckedSessions /\ Placed /\ TypeOK
  BY SetsAssumption DEF IInv, Heard, TypeOK
<1>1. ASSUME NEW e \in 1 .. told[c], AckEpoch(c, e) PROVE Placed' /\ Heard'
  <2>1. /\ pc[c] = "up" /\ request[c] = NoRequest /\ e > acked[c]
        /\ acked' = [acked EXCEPT ![c] = e] /\ c \in Policy
        /\ UNCHANGED <<live, registered, pc, request, told, epoch, queue, focus,
                       away, sharing>>
    BY <1>0, <1>1 DEF AckEpoch, Idle, sessions, links, news, signals, TypeOK
  <2>2. Placed'
    BY <1>0, <2>1 DEF Placed
  <2>3. e <= epoch /\ epoch \in Nat /\ acked[c] \in Nat /\ acked'[c] = e
    BY <1>0, <2>1 DEF HeardBy, TypeOK
  <2>4. ASSUME NEW d \in Policy PROVE HeardBy(d)'
    <3>1. CASE d # c
      BY <1>0, <2>1, <3>1, OthersHeard DEF TypeOK
    <3>2. CASE d = c
      BY <1>0, <2>1, <2>3, <3>2 DEF HeardBy, Receiving
    <3> QED
      BY <3>1, <3>2
  <2>5. ASSUME NEW s \in live', pc'[ConnOf[s]] = "up", queue'[ConnOf[s]] = <<>>
        PROVE  acked'[ConnOf[s]] = epoch'
    BY <1>0, <2>1, <2>3, <2>5 DEF AckedSessions, TypeOK
  <2> QED
    BY <2>2, <2>4, <2>5 DEF Heard, AckedSessions
<1>2. ASSUME NEW k \in BOOLEAN, Handle(c, k) PROVE Placed' /\ Heard'
  <2>1. /\ pc[c] = "up" /\ request[c] # NoRequest
        /\ request' = [request EXCEPT ![c] = NoRequest]
        /\ live' \subseteq live \cup {request[c].sid}
        /\ UNCHANGED <<registered, acked, pc, told, epoch, queue, focus, away,
                       sharing>>
    BY <1>2 DEF Handle, sessions, clients, news, signals
  <2>2. ConnOf[request[c].sid] = c /\ request'[c] = NoRequest
    BY <1>0, <2>1 DEF Placed, TypeOK
  <2>3. Placed'
    BY <1>0, <2>1, <2>2 DEF Placed, TypeOK
  <2>4. ASSUME NEW d \in Policy PROVE HeardBy(d)'
    BY <1>0, <2>1, <2>2 DEF HeardBy, Receiving, TypeOK
  <2>5. ASSUME NEW s \in live', pc'[ConnOf[s]] = "up", queue'[ConnOf[s]] = <<>>
        PROVE  acked'[ConnOf[s]] = epoch'
    <3>1. CASE s \in live
      BY <1>0, <2>1, <2>5, <3>1 DEF AckedSessions
    <3>2. CASE s = request[c].sid
      <4>1. ConnOf[s] = c /\ s \in Sid /\ c \in Policy
        BY <2>2, <3>2, <2>5, SetsAssumption DEF TypeOK
      <4> QED
        BY <1>0, <2>1, <2>5, <4>1 DEF HeardBy
    <3> QED
      BY <2>1, <3>1, <3>2
  <2> QED
    BY <2>3, <2>4, <2>5 DEF Heard, AckedSessions
<1>3. ASSUME NEW b \in BOOLEAN, Forward(c, b) PROVE Placed' /\ Heard'
  <2>1. /\ pc[c] = "up" /\ request[c] = NoRequest /\ c \in Policy
        /\ queue[c] # <<>> /\ queue' = [queue EXCEPT ![c] = Tail(@)]
        /\ live' = live \ Owned(c)
        /\ \/ told' = [told EXCEPT ![c] = Head(queue[c])] /\ pc' = pc
           \/ pc' = [pc EXCEPT ![c] = "closing"] /\ told' = told
        /\ UNCHANGED <<registered, acked, request, epoch, focus, away, sharing>>
    BY <1>3 DEF Forward, Idle, Goes, CloseSessions, clients, signals
  <2>2. /\ queue[c] \in Seq(Nat) /\ queue'[c] = Tail(queue[c])
        /\ \A s \in live' : ConnOf[s] # c
    BY <1>0, <2>1 DEF Owned, TypeOK
  <2>3. Placed'
    <3>1. /\ pc'[c] \in {"up", "closing"} /\ \A d \in Conn \ {c} : pc'[d] = pc[d]
          /\ focus \subseteq Conn /\ away \subseteq Conn /\ sharing \subseteq Conn
      BY <1>0, <2>1, SetsAssumption DEF TypeOK
    <3>2. pc'[c] = "closing" => c \notin {d \in Conn : request'[d] # NoRequest}
      BY <2>1
    <3>3. \A s \in live' : pc'[ConnOf[s]] \in {"up", "closing"}
      BY <1>0, <2>1, <2>2, <3>1 DEF Placed, Owned
    <3> QED
      BY <1>0, <2>1, <3>1, <3>2, <3>3 DEF Placed, Late
  <2>4. ASSUME NEW d \in Policy, d # c PROVE HeardBy(d)'
    BY <1>0, <2>1, <2>4, OthersHeard DEF TypeOK
  <2>5. HeardBy(c)'
    <3>1. /\ HeardBy(c) /\ told[c] \in Nat /\ acked[c] \in Nat /\ epoch \in Nat
          /\ Receiving(c) /\ request'[c] = NoRequest
          /\ pc'[c] \in {"up", "closing"}
      BY <1>0, <2>1 DEF Receiving, TypeOK
    <3>2. /\ Len(queue'[c]) = Len(queue[c]) - 1 /\ Len(queue[c]) \in Nat \ {0}
          /\ \A i \in 1 .. Len(queue'[c]) : queue'[c][i] = queue[c][i + 1]
      <4>1. ASSUME NEW q \in Seq(Nat), q # <<>>
            PROVE  /\ Len(Tail(q)) = Len(q) - 1 /\ Len(q) \in Nat \ {0}
                   /\ \A i \in 1 .. Len(Tail(q)) : Tail(q)[i] = q[i + 1]
        BY <4>1
      <4> QED
        BY <2>1, <2>2, <4>1
    <3>3. /\ Head(queue[c]) = queue[c][1]
          /\ queue'[c] = <<>> => Len(queue[c]) = 1
          /\ queue'[c] # <<>> => Len(queue'[c]) # 0
      <4>1. queue'[c] \in Seq(Nat)
        BY SetsAssumption, <2>1 DEF TypeOK
      <4>2. ASSUME NEW q \in Seq(Nat)
            PROVE  (q = <<>> <=> Len(q) = 0) /\ (q # <<>> => Head(q) = q[1])
        OBVIOUS
      <4>3. /\ queue[c] \in Seq(Nat) /\ queue[c] # <<>>
            /\ Len(queue'[c]) = Len(queue[c]) - 1
        BY <2>1, <2>2, <3>2
      <4>4. queue'[c] = <<>> <=> Len(queue'[c]) = 0
        BY <4>1, <4>2
      <4> QED
        BY <4>2, <4>3, <4>4
    <3>4. queue[c][Len(queue[c])] = epoch
      BY <2>1, <3>1 DEF HeardBy
    <3>5. \A i \in 1 .. Len(queue'[c]) : queue'[c][i] <= epoch'
      BY <2>1, <3>1, <3>2 DEF HeardBy
    <3>6. queue'[c] # <<>> => queue'[c][Len(queue'[c])] = epoch'
      BY <2>1, <3>2, <3>3, <3>4
    <3>7. told'[c] = Head(queue[c]) \/ (told'[c] = told[c] /\ pc'[c] = "closing")
      BY <1>0, <2>1 DEF TypeOK
    <3>8. told'[c] <= epoch' /\ (pc'[c] = "up" /\ queue'[c] = <<>> => told'[c] = epoch')
      BY <2>1, <3>1, <3>2, <3>3, <3>4, <3>7 DEF HeardBy
    <3> QED
      BY <2>1, <3>1, <3>5, <3>6, <3>8 DEF HeardBy
  <2>6. AckedSessions'
    BY <1>0, <2>1, <2>2 DEF AckedSessions, TypeOK
  <2> QED
    BY <2>3, <2>4, <2>5, <2>6 DEF Heard
<1>4. CASE EndLoop(c)
  <2>1. /\ pc[c] = "up" /\ request[c] = NoRequest
        /\ pc' = [pc EXCEPT ![c] = "closing"]
        /\ UNCHANGED <<live, registered, acked, request, told, epoch, queue, focus,
                       away, sharing>>
    BY <1>4 DEF EndLoop, Idle, Goes, sessions, clients, news, signals
  <2>2. Placed'
    BY <1>0, <2>1 DEF Placed, TypeOK, Late
  <2>3. Heard'
    BY <1>4, HeardStays DEF EndLoop, Goes, Late, sessions, clients, IInv, TypeOK
  <2> QED
    BY <2>2, <2>3
<1> QED
  BY <1>1, <1>2, <1>3, <1>4 DEF Loop

\* A connection's teardown gives up in turn all that the broker keeps for it.
LEMMA LeaveHeard ==
    ASSUME IInv, TypeOK', NEW c \in Conn, Leave(c)
    PROVE  Placed' /\ Heard'
<1>1. PICK place \in {"unregister", "desktop", "editor", "gone"} :
          /\ pc' = [pc EXCEPT ![c] = place]
          /\ place = "unregister" <=> pc[c] = "closing"
          /\ place = "desktop" <=> pc[c] = "unregister"
          /\ place = "editor" <=> pc[c] = "desktop"
          /\ place = "gone" <=> pc[c] = "editor"
  BY DEF Leave, CloseOwned, Unregister, LeaveDesktop, LeaveEditor, Goes
<1>2. Publish \/ UNCHANGED news
  BY DEF Leave, CloseOwned, Unregister, LeaveDesktop, LeaveEditor, ForgetDesktop,
     Focus, Settle
<1>3. /\ live' = IF pc[c] = "closing" THEN live \ Owned(c) ELSE live
      /\ focus' = IF pc[c] = "editor" THEN focus \ {c} ELSE focus
      /\ away' = IF pc[c] = "desktop" THEN away \ {c} ELSE away
      /\ sharing' = IF pc[c] = "desktop" THEN sharing \ {c} ELSE sharing
      /\ registered' = IF pc[c] = "unregister" THEN registered \ {c} ELSE registered
      /\ UNCHANGED <<acked, request, told>>
  BY DEF Leave, CloseOwned, Unregister, LeaveDesktop, LeaveEditor, ForgetDesktop,
     Focus, CloseSessions, Goes, signals, sessions, clients
<1>4. Placed'
  <2>1. /\ Placed /\ pc[c] \in Late /\ \A d \in Conn \ {c} : pc'[d] = pc[d]
        /\ pc'[c] = place /\ request[c] = NoRequest
        /\ live \subseteq Sid /\ \A s \in Sid : ConnOf[s] \in Conn
        /\ focus \subseteq Conn /\ away \subseteq Conn /\ sharing \subseteq Conn
    BY <1>1, SetsAssumption DEF IInv, Placed, Late, TypeOK
  <2>2. \A s \in live' : pc'[ConnOf[s]] \in {"up", "closing"}
    BY <1>1, <1>3, <2>1 DEF Placed, Owned
  <2>3. \A d \in focus' : pc'[d] = "up" \/ pc'[d] \in Late
    BY <1>1, <1>3, <2>1 DEF Placed, Late
  <2>4. \A d \in away' \cup sharing' :
            pc'[d] \in {"up", "closing", "unregister", "desktop"}
    BY <1>1, <1>3, <2>1 DEF Placed
  <2>5. \A d \in Policy :
            pc'[d] \in {"registered", "greeting", "up"} => d \in registered'
    BY <1>1, <1>3, <2>1, SetsAssumption DEF Placed
  <2>6. \A d \in Conn : request'[d] # NoRequest =>
            pc'[d] = "up" /\ ConnOf[request'[d].sid] = d
    BY <1>1, <1>3, <2>1 DEF Placed
  <2> QED
    BY <2>2, <2>3, <2>4, <2>5, <2>6 DEF Placed
<1>5. Heard'
  <2>1. live' \subseteq live
    BY <1>3
  <2>2. \A d \in Policy : pc'[d] = pc[d] \/ pc'[d] \in Late \cup {"gone"}
    BY <1>1, SetsAssumption DEF IInv, TypeOK, Late
  <2> QED
    BY <1>2, <1>3, <2>1, <2>2, HeardStays
<1> QED
  BY <1>4, <1>5

LEMMA MessageHeard ==
    ASSUME IInv, TypeOK', NEW s \in Sid, Message(s)
    PROVE  Placed' /\ Heard'
<1>1. CASE CloseSession(s)
  <2>1. /\ live' \subseteq live
        /\ UNCHANGED <<registered, acked, pc, request, told, epoch, queue, lagged,
                       focus, away, sharing>>
    BY <1>1 DEF CloseSession, CloseSessions, signals, clients, links, news
  <2> QED
    BY <2>1, PlacedStays, HeardStays DEF news
<1>2. ASSUME NEW op \in {"open", "context"}, Gate(s, op) PROVE Placed' /\ Heard'
  <2> DEFINE c == ConnOf[s]
  <2>1. /\ pc[c] = "up" /\ Admitted(c)
        /\ request' = [request EXCEPT ![c] = [op |-> op, sid |-> s]]
        /\ UNCHANGED <<live, registered, acked, pc, told, epoch, queue, focus, away,
                       sharing>>
    BY <1>2 DEF Gate, Idle, signals, sessions, clients, news
  <2>2. c \in Policy /\ c \in Conn
    BY SetsAssumption
  <2>3. acked[c] = epoch
    BY <2>1, <2>2 DEF IInv, Placed, Admitted
  <2>4. request'[c].sid = s /\ \A d \in Conn \ {c} : request'[d] = request[d]
    BY <2>1, <2>2 DEF IInv, TypeOK
  <2> HIDE DEF c
  <2>5. Placed'
    BY <2>1, <2>4 DEF IInv, Placed, c
  <2>6. ASSUME NEW d \in Policy PROVE HeardBy(d)'
    BY <2>1, <2>3, <2>4, SetsAssumption DEF IInv, Heard, HeardBy, Receiving
  <2>7. AckedSessions'
    BY <2>1 DEF IInv, Heard, AckedSessions
  <2> QED
    BY <2>5, <2>6, <2>7 DEF Heard
<1> QED
  BY <1>1, <1>2 DEF Message

-----------------------------------------------------------------------------
(* The copies of the settings                                              *)

LEMMA CopiesStay ==
    ASSUME Copies, UNCHANGED <<settings, memory, disk, job, condition>>
    PROVE  Copies'
  BY DEF Copies

LEMMA MutationCopies ==
    ASSUME TypeOK, Copies, Mutation
    PROVE  Copies'
<1>1. ASSUME NEW d \in Docs, BeginMutation(d) PROVE Copies'
  BY <1>1 DEF BeginMutation, Copies, NoJob
<1>2. ASSUME NEW o \in Outcomes, Commit(o) PROVE Copies'
  <2>1. CASE o \in {"updated", "committed"}
    BY <1>2, <2>1 DEF Commit, Copies
  <2>2. CASE o = "unknown"
    BY <1>2, <2>2 DEF Commit, Copies
  <2>3. CASE o \in {"degraded", "rejected"}
    BY <1>2, <2>3 DEF Commit, Copies
  <2> QED
    BY <2>1, <2>2, <2>3 DEF Outcomes
<1>3. CASE FinishMutation
  <2>1. job.outcome \in Outcomes /\ job.phase = "done" /\ job'.phase = "none"
    BY <1>3 DEF FinishMutation, TypeOK, Job, NoJob
  <2> QED
    BY <1>3, <2>1 DEF FinishMutation, ConditionAfter, Copies, Outcomes, TypeOK
<1>4. CASE BeginClear
  BY <1>4 DEF BeginClear, Copies, NoJob
<1>5. ASSUME NEW b \in BOOLEAN, FinishClear(b) PROVE Copies'
  BY <1>5 DEF FinishClear, Copies, NoJob
<1> QED
  BY <1>1, <1>2, <1>3, <1>4, <1>5 DEF Mutation

-----------------------------------------------------------------------------
(* Nothing withheld is retained                                            *)

\* While the data plane is paused no session retains context.
LEMMA PausedHoldsNone ==
    ASSUME TypeOK, NoDataWithheld, EffectivePaused
    PROVE  ctx = {}
  BY DEF NoDataWithheld, DataAllowed

LEMMA SwitchWithholds ==
    ASSUME TypeOK, NoDataWithheld, Switch
    PROVE  NoDataWithheld'
<1> USE DEF switches
<1>1. ASSUME NEW b \in BOOLEAN, SetPaused(b) PROVE NoDataWithheld'
  BY <1>1, PausedHoldsNone DEF SetPaused, NoDataWithheld, DataAllowed, EffectivePaused,
     RuntimePaused, Mutating, DesktopHold, ShareLive, Snoozed, EditorWithholds, signals
<1>2. ASSUME NEW a \in App, Snooze(a) PROVE NoDataWithheld'
  <2>1. ASSUME NEW x \in App, x # a PROVE Snoozed(x)' = Snoozed(x)
    BY <1>2, <2>1, AlarmAdded DEF Snooze, Snoozed, TypeOK
  <2>2. ctx' = {s \in ctx : AppOf[s] # a} /\ \A s \in ctx : AppOf[s] \in App
    BY <1>2, SetsAssumption DEF Snooze, RevokeOf, TypeOK
  <2>3. EffectivePaused' = EffectivePaused
    BY <1>2 DEF Snooze, EffectivePaused, RuntimePaused, Mutating, DesktopHold, ShareLive
  <2>4. settings' = settings /\ \A x \in App : EditorWithholds(x)' = EditorWithholds(x)
    BY <1>2 DEF Snooze, EditorWithholds
  <2> QED
    BY <2>1, <2>2, <2>3, <2>4 DEF NoDataWithheld, DataAllowed
<1>3. CASE EndSnoozes
  BY <1>3, SetsAssumption DEF EndSnoozes, NoDataWithheld, DataAllowed, EffectivePaused, RuntimePaused,
     Mutating, DesktopHold, ShareLive, Snoozed, EditorWithholds, sessions, TypeOK
<1>4. ASSUME NEW h \in Helper, NEW holds \in BOOLEAN, NEW shared \in BOOLEAN,
             ReportDesktop(h, holds, shared)
      PROVE  NoDataWithheld'
  <2>1. CASE DesktopHold' = DesktopHold
    BY <1>4, <2>1 DEF ReportDesktop, Report, Settle, NoDataWithheld, DataAllowed,
       EffectivePaused, RuntimePaused, Mutating, Snoozed, EditorWithholds
  <2>2. CASE DesktopHold' # DesktopHold
    <3>1. CASE DesktopHold'
      BY <1>4, <2>2, <3>1 DEF ReportDesktop, Report, Settle, NoDataWithheld
    <3>2. CASE DesktopHold
      BY <1>4, <2>2, <3>2, PausedHoldsNone DEF ReportDesktop, Report, Settle,
         NoDataWithheld, EffectivePaused, RuntimePaused
    <3> QED
      BY <2>2, <3>1, <3>2 DEF DesktopHold
  <2> QED
    BY <2>1, <2>2
<1>5. ASSUME NEW c \in Editor, NEW focused \in BOOLEAN, ReportFocus(c, focused)
      PROVE  NoDataWithheld'
  BY <1>5 DEF ReportFocus, Focus, RevokeOf, NoDataWithheld, DataAllowed,
     EffectivePaused, RuntimePaused, Mutating, DesktopHold, ShareLive, Snoozed,
     EditorWithholds
<1> QED
  BY <1>1, <1>2, <1>3, <1>4, <1>5 DEF Switch

LEMMA MutationWithholds ==
    ASSUME TypeOK, NoDataWithheld, Mutation
    PROVE  NoDataWithheld'
<1>1. CASE EffectivePaused \/ \E d \in Docs : BeginMutation(d)
  <2>1. ctx' = {}
    BY <1>1, PausedHoldsNone DEF Mutation, BeginMutation, Commit, FinishMutation,
       BeginClear, FinishClear, CloseSessions, sessions, TypeOK
  <2> QED
    BY <2>1 DEF NoDataWithheld
<1>2. CASE ~EffectivePaused /\ ~\E d \in Docs : BeginMutation(d)
  \* Everything else a mutation does is done while it pauses the data plane, or
  \* the control plane's condition does.
  <2>1. PICK b \in BOOLEAN : FinishClear(b)
    BY <1>2 DEF Mutation, Commit, FinishMutation, BeginClear, EffectivePaused,
       RuntimePaused, Mutating
  <2>2. condition = "healthy"
    BY <1>2 DEF EffectivePaused, RuntimePaused
  <2> QED
    BY <1>2, <2>1, <2>2 DEF FinishClear, NoDataWithheld, DataAllowed, EffectivePaused,
       RuntimePaused, Mutating, DesktopHold, ShareLive, Snoozed, EditorWithholds,
       signals, sessions, NoJob
<1> QED
  BY <1>1, <1>2

LEMMA ClockWithholds ==
    ASSUME TypeOK, NoDataWithheld, Clock
    PROVE  NoDataWithheld'
<1> PICK n \in Alarms : AlarmPasses(n) \/ EndShareGrace(n) \/ ExpireSnoozes(n)
  BY DEF Clock
<1>1. /\ \A m \in Alarms : alarms'[m].state = "set" => alarms[m].state = "set"
      /\ Alarms' = Alarms
  <2>1. PICK st \in {"over", "fired"} : alarms' = [alarms EXCEPT ![n].state = st]
    BY DEF AlarmPasses, EndShareGrace, ExpireSnoozes, Fired
  <2> QED
    BY <2>1, AlarmMoved
<1>2. \A a \in App : Snoozed(a)' => Snoozed(a)
  BY <1>1 DEF AlarmPasses, EndShareGrace, ExpireSnoozes, Snoozed, TypeOK, Alarms
<1>3. /\ UNCHANGED <<paused, condition, settings, job, focus>> /\ ctx' \subseteq ctx
      /\ DesktopHold' /\ ~DesktopHold => ctx' = {}
  BY DEF AlarmPasses, EndShareGrace, ExpireSnoozes, Settle, switches, sessions,
     DesktopHold, ShareLive
<1> QED
  BY <1>2, <1>3, SetsAssumption DEF NoDataWithheld, DataAllowed, EffectivePaused,
     RuntimePaused, Mutating, EditorWithholds, TypeOK

\* A connection's own steps retain context only where it is allowed, and what
\* it leaves behind withholds no more than before.
LEMMA ConnectionWithholds ==
    ASSUME TypeOK, NoDataWithheld, NEW c \in Conn, Hello(c) \/ Loop(c)
    PROVE  NoDataWithheld'
<1>1. UNCHANGED <<switches, signals>>
  BY DEF Hello, Subscribe, Acknowledge, Greet, Snapshot, Loop, AckEpoch, Handle,
     Forward, EndLoop
<1>2. \A a \in App : DataAllowed(a)' = DataAllowed(a)
  BY <1>1 DEF DataAllowed, EffectivePaused, RuntimePaused, Mutating, DesktopHold,
     ShareLive, Snoozed, EditorWithholds, switches, signals
<1>3. \A s \in ctx' : s \in ctx \/ DataAllowed(AppOf[s])
  BY DEF Hello, Subscribe, Acknowledge, Greet, Snapshot, Loop, AckEpoch, Handle,
     Forward, EndLoop, CloseSessions, sessions
<1>4. \A s \in ctx' : AppOf[s] \in App
  BY SetsAssumption, LoopTyped DEF TypeOK
<1> QED
  BY <1>2, <1>3, <1>4 DEF NoDataWithheld

LEMMA LeaveWithholds ==
    ASSUME TypeOK, NoDataWithheld, NEW c \in Conn, Leave(c)
    PROVE  NoDataWithheld'
<1>1. CASE CloseOwned(c) \/ Unregister(c)
  BY <1>1 DEF CloseOwned, Unregister, CloseSessions, NoDataWithheld, DataAllowed,
     EffectivePaused, RuntimePaused, Mutating, DesktopHold, ShareLive, Snoozed,
     EditorWithholds, switches, signals, sessions
<1>2. CASE LeaveDesktop(c)
  <2>1. \A a \in App : Snoozed(a)' = Snoozed(a)
    BY <1>2, AlarmAdded DEF LeaveDesktop, ForgetDesktop, Snoozed, TypeOK
  <2>2. /\ UNCHANGED <<paused, condition, settings, job, focus>> /\ ctx' \subseteq ctx
        /\ DesktopHold' /\ ~DesktopHold => ctx' = {}
    BY <1>2 DEF LeaveDesktop, ForgetDesktop, Settle, switches, DesktopHold, ShareLive
  <2> QED
    BY <2>1, <2>2, SetsAssumption DEF NoDataWithheld, DataAllowed, EffectivePaused,
       RuntimePaused, Mutating, EditorWithholds, TypeOK
<1>3. CASE LeaveEditor(c)
  BY <1>3 DEF LeaveEditor, Focus, RevokeOf, NoDataWithheld, DataAllowed,
     EffectivePaused, RuntimePaused, Mutating, DesktopHold, ShareLive, Snoozed,
     EditorWithholds, switches
<1> QED
  BY <1>1, <1>2, <1>3 DEF Leave

LEMMA MessageWithholds ==
    ASSUME TypeOK, NoDataWithheld, NEW s \in Sid, Message(s)
    PROVE  NoDataWithheld'
  BY DEF Message, CloseSession, Gate, CloseSessions, NoDataWithheld, DataAllowed,
     EffectivePaused, RuntimePaused, Mutating, DesktopHold, ShareLive, Snoozed,
     EditorWithholds, switches, signals, sessions

-----------------------------------------------------------------------------
(* The invariant                                                           *)

LEMMA SwitchKeeps ==
    ASSUME IInv, TypeOK', Switch \/ Mutation \/ Clock
    PROVE  Placed' /\ Heard'
<1>1. Publish \/ UNCHANGED news
  BY DEF Switch, SetPaused, Snooze, EndSnoozes, ReportDesktop, Report, ReportFocus,
     Focus, Settle, Mutation, BeginMutation, Commit, FinishMutation, BeginClear,
     FinishClear, Clock, AlarmPasses, EndShareGrace, ExpireSnoozes
<1>2. UNCHANGED <<clients, links>> /\ live' \subseteq live
  BY DEF Switch, SetPaused, Snooze, EndSnoozes, ReportDesktop, ReportFocus, Mutation,
     BeginMutation, Commit, FinishMutation, BeginClear, FinishClear, CloseSessions,
     Clock, AlarmPasses, EndShareGrace, ExpireSnoozes, sessions
<1>3. /\ focus' \subseteq focus \cup {c \in Conn : pc[c] = "up"}
      /\ away' \subseteq away \cup {c \in Conn : pc[c] = "up"}
      /\ sharing' \subseteq sharing \cup {c \in Conn : pc[c] = "up"}
  <2>1. CASE Switch
    BY <2>1, SetsAssumption DEF Switch, SetPaused, Snooze, EndSnoozes, ReportDesktop,
       Report, ReportFocus, Focus, Idle, signals
  <2>2. CASE Mutation \/ Clock
    BY <2>2 DEF Mutation, BeginMutation, Commit, FinishMutation, BeginClear,
       FinishClear, Clock, AlarmPasses, EndShareGrace, ExpireSnoozes, signals
  <2> QED
    BY <2>1, <2>2
<1>4. UNCHANGED <<registered, acked, pc, request, told>>
  BY <1>2 DEF clients, links
<1> QED
  BY <1>1, <1>2, <1>3, <1>4, PlacedStays, HeardStays

LEMMA OnlyMutationCopies ==
    ASSUME Copies, Next, ~Mutation
    PROVE  Copies'
<1>1. UNCHANGED <<settings, memory, disk, job, condition>>
  BY DEF Next, Switch, SetPaused, Snooze, EndSnoozes, ReportDesktop, Report,
     ReportFocus, Clock, AlarmPasses, EndShareGrace, ExpireSnoozes, Hello, Subscribe,
     Acknowledge, Greet, Snapshot, Loop, AckEpoch, Handle, Forward, EndLoop, Leave,
     CloseOwned, Unregister, LeaveDesktop, ForgetDesktop, LeaveEditor, Message,
     CloseSession, Gate, switches
<1> QED
  BY <1>1, CopiesStay

LEMMA StepIInv == IInv /\ [Next]_vars => IInv'
<1> SUFFICES ASSUME IInv, [Next]_vars PROVE IInv'
  OBVIOUS
<1>1. TypeOK' /\ TypeOK /\ Copies /\ NoDataWithheld
  BY StepTyped DEF IInv
<1>2. CASE UNCHANGED vars
  BY <1>1, <1>2 DEF IInv, Placed, Heard, HeardBy, AckedSessions, Receiving, Copies,
     NoDataWithheld, DataAllowed, EffectivePaused, RuntimePaused, Mutating, DesktopHold,
     ShareLive, Snoozed, EditorWithholds, vars, switches, signals, sessions, clients,
     links, news
<1>3. CASE Next
  <2>1. Placed' /\ Heard'
    BY <1>1, <1>3, SwitchKeeps, HelloHeard, LoopHeard, LeaveHeard, MessageHeard DEF Next
  <2>2. Copies'
    BY <1>1, <1>3, MutationCopies, OnlyMutationCopies
  <2>3. NoDataWithheld'
    BY <1>1, <1>3, SwitchWithholds, MutationWithholds, ClockWithholds,
       ConnectionWithholds, LeaveWithholds, MessageWithholds DEF Next
  <2> QED
    BY <1>1, <2>1, <2>2, <2>3 DEF IInv
<1> QED
  BY <1>2, <1>3

LEMMA Inductive == Spec => []IInv
  BY InitIInv, StepIInv, PTL DEF Spec

-----------------------------------------------------------------------------
(* What follows in every reachable state                                   *)

\* Whatever pauses, holds, snoozes, focus and settings come together, and in
\* whatever order they come and go, no session in a withheld app retains
\* context: each handler revokes what its own switch now covers.
THEOREM WithheldRetainsNothing == Spec => []NoDataWithheld
<1>1. IInv => NoDataWithheld
  BY DEF IInv
<1> QED
  BY <1>1, Inductive, PTL

\* No interleaving of a hello with epoch advances makes a connection miss the
\* current epoch: the receiver exists before the snapshot is taken.
THEOREM NothingIsMissed == Spec => []NothingMissed
<1>1. IInv => NothingMissed
  BY DEF IInv, Heard, HeardBy, NothingMissed, Receiving, Early
<1> QED
  BY <1>1, Inductive, PTL

\* The announcement of an epoch closes the sessions opened under an older one,
\* so those left were opened under an acknowledged current epoch.
THEOREM SessionsAcked == Spec => []AckedSessions
<1>1. IInv => AckedSessions
  BY DEF IInv, Heard
<1> QED
  BY <1>1, Inductive, PTL

\* The teardown, a step per lock, leaves nothing of an ended connection.
THEOREM GoneLeavesNothing == Spec => []GoneHoldsNothing
<1>1. IInv => GoneHoldsNothing
  <2> SUFFICES ASSUME IInv, NEW c \in Conn, pc[c] = "gone"
               PROVE  Owned(c) = {} /\ c \notin focus \cup away \cup sharing
    BY DEF GoneHoldsNothing
  <2> QED
    BY DEF IInv, Placed, Owned, Late
<1> QED
  BY <1>1, Inductive, PTL

\* Outside a mutation, and unless a commit's outcome is unknown, the settings
\* the engine applies are those of the file.
THEOREM SettingsCoherent == Spec => []Coherent
<1>1. IInv => Coherent
  BY DEF IInv, Copies, Coherent, Mutating
<1> QED
  BY <1>1, Inductive, PTL

\* An unknown commit closes the data plane until settings are installed that
\* are known to be the file's: no later failure and no clear reopens it.
THEOREM RestartIsSticky == Spec => RestartSticks
<1>1. IInv /\ [Next]_vars =>
        [condition = "restart" /\ condition' # "restart" =>
            settings' = disk /\ memory = disk]_vars
  <2> SUFFICES ASSUME IInv, Next, condition = "restart", condition' # "restart"
               PROVE  settings' = disk /\ memory = disk
    BY DEF vars
  <2>1. CASE FinishMutation
    BY <2>1 DEF FinishMutation, ConditionAfter, IInv, Copies
  <2>2. CASE ~FinishMutation
    BY <2>2 DEF Next, Mutation, BeginMutation, Commit, BeginClear, FinishClear,
     Switch, SetPaused, Snooze, EndSnoozes, ReportDesktop,
     ReportFocus, Clock, AlarmPasses, EndShareGrace, ExpireSnoozes, Hello, Subscribe,
     Acknowledge, Greet, Snapshot, Loop, AckEpoch, Handle, Forward, EndLoop, Leave,
     CloseOwned, Unregister, LeaveDesktop, LeaveEditor, Message,
     CloseSession, Gate, switches
  <2> QED
    BY <2>1, <2>2
<1> QED
  BY <1>1, Inductive, PTL DEF Spec, RestartSticks

-----------------------------------------------------------------------------
(* What no step does                                                       *)

\* Unless one of these changes, what may be suggested for does not.
LEMMA SameAllowed ==
    ASSUME UNCHANGED <<switches, signals>>, NEW a \in App
    PROVE  DataAllowed(a)' = DataAllowed(a)
  BY DEF DataAllowed, EffectivePaused, RuntimePaused, Mutating, DesktopHold,
     ShareLive, Snoozed, EditorWithholds, switches, signals

\* A step of the hold that publishes nothing does not change it, and then only
\* the app's own snooze can change what is allowed for it.
LEMMA SameHold ==
    ASSUME NEW a \in App, Snoozed(a)' = Snoozed(a), DesktopHold' = DesktopHold,
           UNCHANGED <<switches, focus>>
    PROVE  DataAllowed(a)' = DataAllowed(a)
  BY DEF DataAllowed, EffectivePaused, RuntimePaused, Mutating, EditorWithholds,
     switches

\* The clock alone can only let a snooze run out.
LEMMA ClockTells ==
    ASSUME TypeOK, Clock, epoch' # epoch + 1, NEW a \in App,
           DataAllowed(a)' # DataAllowed(a)
    PROVE  ~DataAllowed(a) /\ RanOut(a)
<1>1. PICK n \in Alarms : AlarmPasses(n) \/ EndShareGrace(n) \/ ExpireSnoozes(n)
  BY DEF Clock
<1>2. CASE AlarmPasses(n)
  <2>1. /\ DesktopHold' = DesktopHold /\ UNCHANGED <<switches, focus, snoozes>>
        /\ EffectivePaused' = EffectivePaused
    BY <1>2 DEF AlarmPasses, DesktopHold, ShareLive, switches, EffectivePaused,
       RuntimePaused, Mutating
  <2>2. /\ alarms'[n].state = "over" /\ alarms[n].state = "set"
        /\ \A m \in Alarms \ {n} : alarms'[m] = alarms[m]
    BY <1>2, AlarmMoved DEF AlarmPasses
  <2>3. snoozes[a] \in {0} \cup Alarms
    BY DEF TypeOK
  <2>4. Snoozed(a) /\ ~Snoozed(a)' /\ snoozes[a] = n
    <3>1. snoozes[a] # n => Snoozed(a)' = Snoozed(a)
      BY <2>1, <2>2, <2>3 DEF Snoozed
    <3>2. snoozes[a] = n
      BY <3>1, <2>1, SameHold
    <3> QED
      BY <2>1, <2>2, <3>2 DEF Snoozed, Alarms
  <2> QED
    BY <2>2, <2>4 DEF DataAllowed, RanOut
<1>3. CASE EndShareGrace(n)
  <2>1. DesktopHold' = DesktopHold /\ UNCHANGED <<switches, focus, snoozes>>
    BY <1>3 DEF EndShareGrace, Settle, Publish
  <2>2. Snoozed(a)' = Snoozed(a)
    <3>1. /\ alarms'[n].state = "fired" /\ alarms[n].state = "over"
          /\ \A m \in Alarms \ {n} : alarms'[m] = alarms[m]
      <4>1. alarms' = [alarms EXCEPT ![n].state = "fired"] /\ alarms[n].state = "over"
        BY <1>3 DEF EndShareGrace, Fired
      <4> QED
        BY <1>1, <4>1, AlarmMoved
    <3> QED
      BY <2>1, <3>1 DEF Snoozed, TypeOK
  <2> QED
    BY <2>1, <2>2, SameHold
<1>4. CASE ExpireSnoozes(n)
  <2>1. /\ UNCHANGED <<switches, focus, away, sharing, grace>>
        /\ \A x \in App : snoozes[x] # 0 => Snoozed(x)
        /\ snoozes' = [x \in App |-> snoozes[x]]
    BY <1>4 DEF ExpireSnoozes, Publish
  <2>2. DesktopHold' = DesktopHold
    BY <2>1 DEF DesktopHold, ShareLive, switches
  <2>3. /\ alarms'[n].state = "fired" /\ alarms[n].state = "over"
        /\ \A m \in Alarms \ {n} : alarms'[m] = alarms[m]
    <3>1. alarms' = [alarms EXCEPT ![n].state = "fired"] /\ alarms[n].state = "over"
      BY <1>4 DEF ExpireSnoozes, Fired
    <3> QED
      BY <1>1, <3>1, AlarmMoved
  <2>4. Snoozed(a)' = Snoozed(a)
    BY <2>1, <2>3 DEF Snoozed, TypeOK
  <2> QED
    BY <2>1, <2>2, <2>4, SameHold
<1> QED
  BY <1>1, <1>2, <1>3, <1>4

\* Every other step that changes what is allowed publishes.
LEMMA OthersTell ==
    ASSUME TypeOK, Next, ~Clock, epoch' # epoch + 1, NEW a \in App
    PROVE  DataAllowed(a)' = DataAllowed(a)
<1>1. CASE Switch
  <2>1. CASE EndSnoozes
    BY <2>1 DEF EndSnoozes, Publish, DataAllowed, EffectivePaused, RuntimePaused,
       Mutating, DesktopHold, ShareLive, Snoozed, EditorWithholds, switches
  <2>2. ASSUME NEW h \in Helper, NEW holds \in BOOLEAN, NEW shared \in BOOLEAN,
               ReportDesktop(h, holds, shared)
        PROVE  DataAllowed(a)' = DataAllowed(a)
    <3>1. /\ DesktopHold' = DesktopHold /\ UNCHANGED <<switches, focus>>
          /\ Snoozed(a)' = Snoozed(a)
      BY <2>2 DEF ReportDesktop, Report, Settle, Publish, Snoozed
    <3> QED
      BY <3>1, SameHold
  <2>3. ASSUME NEW c \in Editor, NEW b \in BOOLEAN, ReportFocus(c, b)
        PROVE  DataAllowed(a)' = DataAllowed(a)
    BY <2>3 DEF ReportFocus, Focus, Publish, DataAllowed, EffectivePaused,
       RuntimePaused, Mutating, DesktopHold, ShareLive, Snoozed, EditorWithholds,
       switches
  <2> QED
    BY <1>1, <2>1, <2>2, <2>3 DEF Switch, SetPaused, Snooze, Publish
<1>2. CASE Mutation
  <2>1. \/ EffectivePaused /\ EffectivePaused'
        \/ UNCHANGED <<switches, signals>>
        \/ /\ condition = "healthy" /\ job.phase = "clearing" /\ job' = NoJob
           /\ UNCHANGED <<paused, condition, settings, signals>>
    BY <1>2 DEF Mutation, BeginMutation, Commit, FinishMutation, BeginClear,
       FinishClear, Publish, EffectivePaused, RuntimePaused, Mutating
  <2> QED
    BY <2>1, SameAllowed DEF DataAllowed, EffectivePaused, RuntimePaused, Mutating,
       DesktopHold, ShareLive, Snoozed, EditorWithholds, signals, NoJob
<1>3. ASSUME NEW c \in Conn, Hello(c) \/ Loop(c)
      PROVE  DataAllowed(a)' = DataAllowed(a)
  <2>1. UNCHANGED <<switches, signals>>
    BY <1>3 DEF Hello, Subscribe, Acknowledge, Greet, Snapshot, Loop, AckEpoch,
       Handle, Forward, EndLoop
  <2> QED
    BY <2>1, SameAllowed
<1>4. ASSUME NEW c \in Conn, Leave(c)
      PROVE  DataAllowed(a)' = DataAllowed(a)
  <2>1. CASE CloseOwned(c) \/ Unregister(c)
    BY <2>1, SameAllowed DEF CloseOwned, Unregister
  <2>2. CASE LeaveDesktop(c)
    <3>1. DesktopHold' = DesktopHold /\ UNCHANGED <<switches, focus, snoozes>>
      BY <2>2 DEF LeaveDesktop, ForgetDesktop, Settle, Publish
    <3>2. Snoozed(a)' = Snoozed(a)
      BY <2>2, <3>1, AlarmAdded DEF LeaveDesktop, ForgetDesktop, Snoozed, TypeOK
    <3> QED
      BY <3>1, <3>2, SameHold
  <2>3. CASE LeaveEditor(c)
    BY <2>3 DEF LeaveEditor, Focus, Publish, DataAllowed, EffectivePaused,
       RuntimePaused, Mutating, DesktopHold, ShareLive, Snoozed, EditorWithholds,
       switches
  <2> QED
    BY <1>4, <2>1, <2>2, <2>3 DEF Leave
<1>5. ASSUME NEW s \in Sid, Message(s) PROVE DataAllowed(a)' = DataAllowed(a)
  BY <1>5, SameAllowed DEF Message, CloseSession, Gate
<1> QED
  BY <1>1, <1>2, <1>3, <1>4, <1>5 DEF Next

\* Adapters resolve policy once per epoch, so nothing but the epoch may change
\* what is allowed; only a snooze runs out by the clock, ahead of its timer.
THEOREM EpochAlwaysTells == Spec => EpochTells
<1>1. IInv /\ [Next]_vars =>
        [\A a \in App : DataAllowed(a)' # DataAllowed(a) =>
            \/ epoch' = epoch + 1
            \/ ~DataAllowed(a) /\ RanOut(a)]_vars
  BY ClockTells, OthersTell DEF IInv
<1> QED
  BY <1>1, Inductive, PTL DEF Spec, EpochTells

\* A helper that crashes and restarts while it shares does not end the hold:
\* desktop.rs keeps it for the grace, whatever earlier timers still fire.
THEOREM ShareIsKept == Spec => ShareKept
<1>1. IInv /\ [Next]_vars =>
        [LET held == ShareLive /\ settings.doc.share = "hold" IN
         held /\ ~held' =>
             \/ \E h \in Helper : Idle(h) /\ h \notin sharing'
             \/ settings' # settings
             \/ grace # 0 /\ alarms[grace].state = "over"]_vars
  <2> SUFFICES ASSUME IInv, Next, ShareLive, ~ShareLive', settings' = settings
               PROVE  \/ \E h \in Helper : Idle(h) /\ h \notin sharing'
                      \/ grace # 0 /\ alarms[grace].state = "over"
    BY DEF vars
  <2>1. CASE Switch
    BY <2>1 DEF Switch, SetPaused, Snooze, EndSnoozes, ReportDesktop, Report,
       ReportFocus, ShareLive, signals
  <2>2. CASE Mutation
    BY <2>2 DEF Mutation, BeginMutation, Commit, FinishMutation, BeginClear,
       FinishClear, ShareLive, signals
  <2>3. CASE Clock
    BY <2>3 DEF Clock, AlarmPasses, EndShareGrace, ExpireSnoozes, ShareLive
  <2>4. ASSUME NEW c \in Conn, Hello(c) \/ Loop(c) PROVE FALSE
    BY <2>4 DEF Hello, Subscribe, Acknowledge, Greet, Snapshot, Loop, AckEpoch,
       Handle, Forward, EndLoop, ShareLive, signals
  <2>5. ASSUME NEW c \in Conn, Leave(c) PROVE FALSE
    <3>1. Len(alarms) + 1 # 0
      BY DEF IInv, TypeOK
    <3>2. CASE LeaveDesktop(c)
      BY <3>1, <3>2 DEF LeaveDesktop, ForgetDesktop, ShareLive
    <3>3. CASE ~LeaveDesktop(c)
      BY <2>5, <3>3 DEF Leave, CloseOwned, Unregister, LeaveEditor, ShareLive, signals
    <3> QED
      BY <3>2, <3>3
  <2>6. ASSUME NEW s \in Sid, Message(s) PROVE FALSE
    BY <2>6 DEF Message, CloseSession, Gate, ShareLive, signals
  <2> QED
    BY <2>1, <2>2, <2>3, <2>4, <2>5, <2>6 DEF Next
<1> QED
  BY <1>1, Inductive, PTL DEF Spec, ShareKept

=============================================================================
