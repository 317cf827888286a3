------------------------------ MODULE Revision ------------------------------
(***************************************************************************)
(* Revisions of a selection (broker/src/engine/revision.rs) and the model  *)
(* process behind them (broker/src/revision/runtime.rs).  A request is a   *)
(* critical section of the broker's state lock that starts a task; the     *)
(* task waits for the one permit, gets the process from the slot (starting *)
(* it if there is none), asks it, and takes the state lock again with the  *)
(* answer.  The slot has a lock of its own, held while a process starts;   *)
(* idle timers, the launching thread and background stops run beside it.   *)
(*                                                                         *)
(* Abstractions.  A revision is its number in the order of admission; a    *)
(* coordinate is its rank, as in Engine.  A process is its number in the   *)
(* order of launch.  Text is absent except the synonym a reply offers.     *)
(* What the session keeps of context and suggestions is Engine's subject:  *)
(* a request revokes both, and until a new context, which in turn ends the *)
(* revision, there is nothing of either.                                   *)
(***************************************************************************)
EXTENDS Naturals, Sequences, FiniteSets

CONSTANTS
    Sid,       \* open sessions with the selection_revision capability
    Sel,       \* selections a request may name
    Asks,      \* what they ask for, \subseteq {"rewrite", "synonyms"}
    Word,      \* what the model may answer
    MaxShown,  \* MAX_SYNONYMS_SHOWN
    MaxCoord,  \* bound: coordinates are 1..MaxCoord
    MaxRev,    \* bound: revisions admitted
    MaxProc    \* bound: model processes launched

ASSUME RevisionAssumption ==
    /\ Asks \subseteq {"rewrite", "synonyms"}
    /\ MaxShown \in Nat \ {0} /\ MaxCoord \in Nat /\ MaxRev \in Nat /\ MaxProc \in Nat

VARIABLES
    sess,     \* what a SessionState holds of revisions
    history,  \* SynonymHistory of each session
    withheld, \* sessions a hold, snooze, pause or setting withholds
    screen,   \* the revision each adapter was last told to display, 0 none
    revs,     \* the revisions admitted: their record and their task
    lock,     \* the revision that holds the slot's lock across a start, 0 none
    running,  \* Slot.running
    proc,     \* the processes launched
    launches, \* the launching thread's queue: the revisions that asked
    socket,   \* the process bound to llama-<pid>-revision.sock, 0 none
    uses,     \* uses recorded; Slot.last_used is the newest
    timers    \* idle stops sleeping, by the use that armed them

engine == <<sess, history, withheld, screen>>
slot == <<lock, running, proc, launches, socket, uses, timers>>
vars == <<sess, history, withheld, screen, revs, slot>>

-----------------------------------------------------------------------------
(* State                                                                   *)

Coords == 1 .. MaxCoord
Revs == DOMAIN revs
Procs == DOMAIN proc
NoneOr(S) == S \cup {0}

\* rev is the session's revision, grant the one its pending commit applies;
\* lands: its connection may report a landed commit.
Session == [lands : BOOLEAN, coord : NoneOr(Coords), rev : NoneOr(1 .. MaxRev),
            grant : NoneOr(1 .. MaxRev), lease : {"off", "armed", "due"}]

Reply == {"none", "timeout", "unavailable", "failed", "cancelled", "refused"} \cup Word

\* One revision: SessionRevision, AdmittedRevision and the task's progress.
Rev == [sid : Sid, coord : Coords, mode : Asks, sel : Sel,
        excluded : SUBSET Word, cancelled : BOOLEAN,
        shown : BOOLEAN, lapsed : BOOLEAN, grants : Nat,
        at : {"permit", "slot", "launch", "call", "touch", "answer", "end"},
        proc : NoneOr(1 .. MaxProc), reply : Reply]

Proc == {"starting", "bound", "ready", "dead", "stopping", "gone"}

NoHistory == [on |-> FALSE]
History == [on : {TRUE}, sel : Sel, shown : SUBSET Word]

TypeOK ==
    /\ sess \in [Sid -> Session]
    /\ history \in [Sid -> {NoHistory} \cup History]
    /\ withheld \subseteq Sid
    /\ screen \in [Sid -> NoneOr(Revs)]
    /\ Len(revs) <= MaxRev /\ revs \in Seq(Rev)
    /\ lock \in NoneOr(Revs) /\ running \in NoneOr(Procs)
    /\ Len(proc) <= MaxProc /\ proc \in Seq(Proc)
    /\ launches \in Seq(Revs)
    /\ socket \in NoneOr(Procs)
    /\ uses \in Nat /\ timers \subseteq 1 .. uses

Init ==
    /\ \E lands \in [Sid -> BOOLEAN] : sess = [s \in Sid |->
         [lands |-> lands[s], coord |-> 0, rev |-> 0, grant |-> 0, lease |-> "off"]]
    /\ history = [s \in Sid |-> NoHistory]
    /\ withheld = {} /\ screen = [s \in Sid |-> 0]
    /\ revs = <<>>
    /\ lock = 0 /\ running = 0 /\ proc = <<>> /\ launches = <<>> /\ socket = 0
    /\ uses = 0 /\ timers = {}

-----------------------------------------------------------------------------
(* Sessions                                                                *)

Cancel(s) ==
    IF sess[s].rev = 0 THEN revs ELSE [revs EXCEPT ![sess[s].rev].cancelled = TRUE]

\* What is left of a session whose context authority was revoked.
Revoked(s) == [sess[s] EXCEPT !.rev = 0, !.grant = 0, !.lease = "off"]

\* The adapter hears that its revision or its grant ended.
Cleared(s) ==
    IF sess[s].rev # 0 \/ sess[s].grant # 0 THEN [screen EXCEPT ![s] = 0] ELSE screen

Current(h, s, sel) == h[s].on /\ h[s].sel = sel /\ Cardinality(h[s].shown) < MaxShown

\* SessionState::synonym_exclusions for a request of `mode' over `sel'.
Exclusions(s, mode, sel) ==
    IF mode = "synonyms" /\ Current(history, s, sel) THEN history[s].shown ELSE {}

Asked(s, mode, sel) ==
    IF mode # "synonyms" \/ Current(history, s, sel) THEN history
    ELSE [history EXCEPT ![s] = [on |-> TRUE, sel |-> sel, shown |-> {}]]

\* A request whose answer is a refusal: policy, language, shape or no reviser.
Refuse(s, c) ==
    /\ c > sess[s].coord
    /\ sess' = [sess EXCEPT ![s] = [Revoked(s) EXCEPT !.coord = c]]
    /\ revs' = Cancel(s) /\ screen' = Cleared(s)
    /\ UNCHANGED <<history, withheld, slot>>

Request(s, c, mode, sel) ==
    /\ c > sess[s].coord /\ s \notin withheld /\ Len(revs) < MaxRev
    /\ sess' = [sess EXCEPT ![s] = [Revoked(s) EXCEPT !.coord = c,
                    !.rev = Len(revs) + 1, !.lease = "armed"]]
    /\ history' = Asked(s, mode, sel) /\ screen' = Cleared(s)
    /\ revs' = Append(Cancel(s),
         [sid |-> s, coord |-> c, mode |-> mode, sel |-> sel,
          excluded |-> Exclusions(s, mode, sel), cancelled |-> FALSE,
          shown |-> FALSE, lapsed |-> FALSE, grants |-> 0,
          at |-> "permit", proc |-> 0, reply |-> "none"])
    /\ UNCHANGED <<withheld, slot>>

\* A new context, a hold, a close or a lapsed lease ends what is derived
\* from the field; only a context moves the coordinate.
Retire(s) ==
    /\ revs' = Cancel(s) /\ screen' = Cleared(s)
    /\ UNCHANGED <<history, slot>>

Context(s, c) ==
    /\ c > sess[s].coord /\ s \notin withheld
    /\ sess' = [sess EXCEPT ![s] = [Revoked(s) EXCEPT !.coord = c, !.lease = "armed"]]
    /\ Retire(s) /\ UNCHANGED withheld

Hold(s) ==
    /\ s \notin withheld /\ withheld' = withheld \cup {s}
    /\ sess' = [sess EXCEPT ![s] = Revoked(s)]
    /\ Retire(s)

Release(s) ==
    /\ s \in withheld /\ withheld' = withheld \ {s}
    /\ UNCHANGED <<sess, history, screen, revs, slot>>

LeaseLapses(s) ==
    /\ sess[s].lease = "armed"
    /\ sess' = [sess EXCEPT ![s].lease = "due"]
    /\ UNCHANGED <<history, withheld, screen, revs, slot>>

\* expire_context_authority: a renewed lease is not due any more.
ExpireLease(s) ==
    /\ sess[s].lease = "due"
    /\ sess' = [sess EXCEPT ![s] = Revoked(s)]
    /\ Retire(s) /\ UNCHANGED withheld

\* Time passes over a shown revision, and over a history nobody used.
TtlPasses(r) ==
    /\ revs[r].shown /\ ~revs[r].lapsed /\ sess[revs[r].sid].rev = r
    /\ revs' = [revs EXCEPT ![r].lapsed = TRUE]
    /\ UNCHANGED <<engine, slot>>

HistoryLapses(s) ==
    /\ history[s].on /\ (sess[s].rev # 0 => revs[sess[s].rev].lapsed)
    /\ history' = [history EXCEPT ![s] = NoHistory]
    /\ UNCHANGED <<sess, withheld, screen, revs, slot>>

-----------------------------------------------------------------------------
(* The adapter answers a shown revision                                    *)

Answerable(s) ==
    s \notin withheld /\ sess[s].rev # 0 /\ revs[sess[s].rev].shown

Dismiss(s) ==
    /\ Answerable(s)
    /\ sess' = [sess EXCEPT ![s].rev = 0]
    /\ revs' = Cancel(s) /\ screen' = Cleared(s)
    /\ UNCHANGED <<history, withheld, slot>>

\* Past its time the revision is only withdrawn; without the authority to
\* land a commit it is dropped and the adapter hears an error alone.
AcceptLate(s) ==
    /\ Answerable(s) /\ revs[sess[s].rev].lapsed
    /\ sess' = [sess EXCEPT ![s].rev = 0]
    /\ revs' = Cancel(s) /\ screen' = Cleared(s)
    /\ UNCHANGED <<history, withheld, slot>>

AcceptRefused(s) ==
    /\ Answerable(s) /\ ~revs[sess[s].rev].lapsed /\ ~sess[s].lands
    /\ sess' = [sess EXCEPT ![s].rev = 0]
    /\ UNCHANGED <<history, withheld, screen, revs, slot>>

Accept(s) ==
    /\ Answerable(s) /\ ~revs[sess[s].rev].lapsed /\ sess[s].lands
    /\ sess' = [sess EXCEPT ![s].rev = 0, ![s].grant = sess[s].rev, ![s].lease = "armed"]
    /\ revs' = [revs EXCEPT ![sess[s].rev].grants = @ + 1]
    /\ UNCHANGED <<history, withheld, screen, slot>>

\* The adapter reports; or the grant's own timer ends it.
CommitResult(s) ==
    /\ sess[s].grant # 0
    /\ sess' = [sess EXCEPT ![s] = Revoked(s)]
    /\ screen' = [screen EXCEPT ![s] = 0] \* the edit itself ends the display
    /\ UNCHANGED <<history, withheld, revs, slot>>

ExpireGrant(s) ==
    /\ sess[s].grant # 0
    /\ sess' = [sess EXCEPT ![s].grant = 0]
    /\ screen' = Cleared(s)
    /\ UNCHANGED <<history, withheld, revs, slot>>

-----------------------------------------------------------------------------
(* The task: run_revision and LocalReviser::revise                         *)

At(r, place) == revs[r].at = place

\* The permit is held from its acquisition until revise returns.
Holding == {r \in Revs : revs[r].at \in {"slot", "launch", "call", "touch"}}

Move(r, place) == revs' = [revs EXCEPT ![r].at = place]
Answer(r, reply) == [revs EXCEPT ![r].at = "answer", ![r].reply = reply]

\* Mutant: no admission, so that a second revision waits inside the process.
AdmitUnbounded(r) ==
    /\ At(r, "permit")
    /\ Move(r, IF revs[r].cancelled THEN "end" ELSE "slot")
    /\ UNCHANGED <<engine, slot>>

Admit(r) ==
    /\ At(r, "permit")
    /\ \/ revs[r].cancelled /\ Move(r, "end")
       \/ ~revs[r].cancelled /\ Holding = {} /\ Move(r, "slot")
    /\ UNCHANGED <<engine, slot>>

\* The call is cancelled, or runs out of REVISION_TIMEOUT, before it has a
\* process; dropping it lets go of the slot.
GiveUp(r) ==
    /\ revs[r].at \in {"slot", "launch"}
    /\ \/ revs[r].cancelled /\ revs' = Answer(r, "cancelled")
       \/ revs' = Answer(r, "timeout")
    /\ lock' = IF lock = r THEN 0 ELSE lock
    /\ UNCHANGED <<engine, running, proc, launches, socket, uses, timers>>

Serving == running # 0 /\ proc[running] = "ready"

\* Arc::clone of the running process: a lookup that succeeds at once.
Reuse(r) ==
    /\ At(r, "slot") /\ lock = 0 /\ Serving
    /\ revs' = [revs EXCEPT ![r].at = "call", ![r].proc = running]
    /\ UNCHANGED <<engine, slot>>

\* stop_in_background, which a process that died gets too.
Stop(p) == [proc EXCEPT ![p] = "stopping"]
Discarded == IF running = 0 THEN proc ELSE Stop(running)

NeedsStart(r) == At(r, "slot") /\ lock = 0 /\ ~Serving

\* No model, no memory, or artifacts that do not verify.
Unavailable(r) ==
    /\ NeedsStart(r)
    /\ revs' = Answer(r, "unavailable")
    /\ proc' = Discarded /\ running' = 0
    /\ UNCHANGED <<engine, lock, launches, socket, uses, timers>>

AskLaunch(r) ==
    /\ NeedsStart(r) /\ Len(proc) + Len(launches) < MaxProc
    /\ Move(r, "launch") /\ lock' = r /\ launches' = Append(launches, r)
    /\ proc' = Discarded /\ running' = 0
    /\ UNCHANGED <<engine, socket, uses, timers>>

\* arm_idle_stop: a use and the timer that looks back at it.
Used == uses' = uses + 1 /\ timers' = timers \cup {uses + 1}

\* complete(): an answer needs the process, and its socket at its path.
Reached(r) == proc[revs[r].proc] = "ready" /\ socket = revs[r].proc

Reply1(r) ==
    {"timeout", "failed", "refused"} \cup (IF Reached(r) THEN Word ELSE {})

Complete(r) ==
    /\ At(r, "call")
    /\ \E reply \in IF revs[r].cancelled THEN {"cancelled"} ELSE Reply1(r) :
         revs' = [revs EXCEPT ![r].at = "touch", ![r].proc = 0, ![r].reply = reply]
    /\ UNCHANGED <<engine, slot>>

Touch(r) ==
    /\ At(r, "touch") /\ lock = 0
    /\ Move(r, "answer") /\ Used
    /\ UNCHANGED <<engine, lock, running, proc, launches, socket>>

\* Mutant: an answer that only looks whether its session has a revision.
StillSome(r) == LET s == revs[r].sid IN
    s \notin withheld /\ sess[s].rev # 0

\* What the last critical section finds still wanted.
StillAsked(r) == LET s == revs[r].sid IN
    s \notin withheld /\ sess[s].coord = revs[r].coord
        /\ sess[s].rev = r /\ ~revs[r].shown

\* Mutant: a repeated synonym offered again.
OfferedAgain(r) == revs[r].reply \in Word

\* gate(): a synonym the history holds is no new offer.
Offered(r) == revs[r].reply \in Word \ revs[r].excluded

Noted(r) == LET s == revs[r].sid
                h == history[s] IN
    IF revs[r].mode # "synonyms" THEN history
    ELSE [history EXCEPT ![s] = [on |-> TRUE, sel |-> revs[r].sel, shown |->
           {revs[r].reply} \cup (IF h.on /\ h.sel = revs[r].sel THEN h.shown ELSE {})]]

\* Mutant: only a cancelled answer is let go.
DropCancelled(r) ==
    /\ At(r, "answer") /\ revs[r].reply = "cancelled"
    /\ Move(r, "end")
    /\ UNCHANGED <<engine, slot>>

Drop(r) ==
    /\ At(r, "answer") /\ (revs[r].reply = "cancelled" \/ ~StillAsked(r))
    /\ Move(r, "end")
    /\ UNCHANGED <<engine, slot>>

Show(r) == LET s == revs[r].sid IN
    /\ At(r, "answer") /\ StillAsked(r) /\ Offered(r)
    /\ revs' = [revs EXCEPT ![r].at = "end", ![r].shown = TRUE]
    /\ screen' = [screen EXCEPT ![s] = r]
    /\ history' = Noted(r)
    /\ sess' = [sess EXCEPT ![s].lease = "armed"]
    /\ UNCHANGED <<withheld, slot>>

\* An answer that is none: the adapter hears why.
Clear(r) == LET s == revs[r].sid IN
    /\ At(r, "answer") /\ StillAsked(r) /\ ~Offered(r) /\ revs[r].reply # "cancelled"
    /\ revs' = [revs EXCEPT ![r].at = "end", ![r].cancelled = TRUE]
    /\ sess' = [sess EXCEPT ![s].rev = 0]
    /\ screen' = Cleared(s)
    /\ UNCHANGED <<history, withheld, slot>>

-----------------------------------------------------------------------------
(* The launching thread, the processes and the idle stop                   *)

\* One process at a time starts; prepare_runtime_socket takes away what is
\* at the path before the new process binds it.
Launching == {p \in Procs : proc[p] \in {"starting", "bound"}}

Spawn ==
    /\ launches # <<>> /\ Launching = {}
    /\ proc' = Append(proc, "starting") /\ socket' = 0
    /\ UNCHANGED <<engine, revs, lock, running, launches, uses, timers>>

Bind(p) ==
    /\ proc[p] = "starting"
    /\ socket = 0 /\ socket' = p
    /\ proc' = [proc EXCEPT ![p] = "bound"]
    /\ UNCHANGED <<engine, revs, lock, running, launches, uses, timers>>

\* A start that nobody waits for any more is dropped on the thread itself.
Waiting == lock # 0 /\ At(lock, "launch") /\ lock = Head(launches)

Ready(p) ==
    /\ proc[p] = "bound" /\ socket = p
    /\ launches' = Tail(launches)
    /\ \/ /\ Waiting
          /\ proc' = [proc EXCEPT ![p] = "ready"] /\ running' = p /\ lock' = 0
          /\ revs' = [revs EXCEPT ![lock].at = "call", ![lock].proc = p]
          /\ Used /\ UNCHANGED socket
       \/ /\ ~Waiting
          /\ proc' = [proc EXCEPT ![p] = "gone"] /\ socket' = 0
          /\ UNCHANGED <<running, lock, revs, uses, timers>>
    /\ UNCHANGED engine

\* The deadline passes, the process exits or a file changed: terminated on
\* the thread, and whoever still waits is told.
StartFails(p) ==
    /\ p \in Launching
    /\ launches' = Tail(launches)
    /\ proc' = [proc EXCEPT ![p] = "gone"] /\ socket' = 0
    /\ \/ Waiting /\ revs' = Answer(lock, "failed") /\ lock' = 0
       \/ ~Waiting /\ UNCHANGED <<revs, lock>>
    /\ UNCHANGED <<engine, running, uses, timers>>

Die(p) ==
    /\ proc[p] = "ready"
    /\ proc' = [proc EXCEPT ![p] = "dead"]
    /\ UNCHANGED <<engine, revs, lock, running, launches, socket, uses, timers>>

\* terminate(): the process is gone, then the file at its path is removed.
Stopped(p) ==
    /\ proc[p] = "stopping"
    /\ proc' = [proc EXCEPT ![p] = "gone"] /\ socket' = 0
    /\ UNCHANGED <<engine, revs, lock, running, launches, uses, timers>>

\* Arc::strong_count: calls that still hold the process.
Callers(p) == {r \in Revs : revs[r].proc = p}

IdleStop(u) ==
    /\ u \in timers /\ lock = 0 /\ timers' = timers \ {u}
    /\ IF u = uses /\ running # 0 /\ Callers(running) = {}
       THEN running' = 0 /\ proc' = Stop(running) ELSE UNCHANGED <<running, proc>>
    /\ UNCHANGED <<engine, revs, lock, launches, socket, uses>>

-----------------------------------------------------------------------------
(* The specification                                                       *)

Adapter == \E s \in Sid :
    \/ \E c \in Coords : Refuse(s, c) \/ Context(s, c)
                        \/ \E m \in Asks, sel \in Sel : Request(s, c, m, sel)
    \/ Dismiss(s) \/ AcceptLate(s) \/ AcceptRefused(s) \/ Accept(s)
    \/ CommitResult(s)

Authority == \E s \in Sid : Hold(s) \/ Release(s)

Clock ==
    \/ \E s \in Sid : LeaseLapses(s) \/ ExpireLease(s) \/ HistoryLapses(s) \/ ExpireGrant(s)
    \/ \E r \in Revs : TtlPasses(r)

Work(r) == \/ Admit(r) \/ GiveUp(r) \/ Reuse(r) \/ Unavailable(r) \/ AskLaunch(r)
           \/ Complete(r) \/ Touch(r) \/ Drop(r) \/ Show(r) \/ Clear(r)

Thread == Spawn \/ \E p \in Procs : Bind(p) \/ Ready(p) \/ StartFails(p)

Next ==
    \/ Adapter \/ Authority \/ Clock \/ Thread
    \/ \E r \in Revs : Work(r)
    \/ \E p \in Procs : Die(p) \/ Stopped(p)
    \/ \E u \in timers : IdleStop(u)

Spec == Init /\ [][Next]_vars

\* Tasks, timers and the thread run; what the adapter and the person do, and
\* a process that dies, is never required.  Locks are fair (tokio's are FIFO).
Fairness ==
    /\ \A r \in 1 .. MaxRev : SF_vars(r \in Revs /\ Work(r))
    /\ WF_vars(Thread)
    /\ \A p \in 1 .. MaxProc : WF_vars(p \in Procs /\ Stopped(p))
    /\ \A u \in 1 .. MaxRev + MaxProc : SF_vars(u \in timers /\ IdleStop(u))
    /\ \A s \in Sid : WF_vars(LeaseLapses(s) \/ ExpireLease(s))

FairSpec == Spec /\ Fairness

-----------------------------------------------------------------------------
(* Properties                                                              *)

\* What an adapter displays is its session's own revision, uncancelled and for
\* the field as it is now, or the one its pending commit applies: no late answer
\* puts a stale one there.  Only one whose acceptance was refused, for want of
\* commit authority, may stay: it was never cancelled and can no more be taken.
ScreenCurrent == \A s \in Sid : screen[s] # 0 => LET r == screen[s] IN
    /\ revs[r].sid = s /\ revs[r].shown
    /\ \/ sess[s].grant = r
       \/ sess[s].rev = r /\ ~revs[r].cancelled /\ sess[s].coord = revs[r].coord
       \/ ~sess[s].lands /\ sess[s].rev # r /\ ~revs[r].cancelled

\* A hold, pause or snooze leaves nothing of a revision behind: none
\* displayed, none answerable, none that a commit may apply.
WithheldSilent == \A s \in withheld :
    (sess[s].lands => screen[s] = 0) /\ sess[s].rev = 0 /\ sess[s].grant = 0

\* A revision is granted to the editor at most once, and only if shown.
GrantedOnce == \A r \in Revs : revs[r].grants <= 1 /\ (revs[r].grants = 1 => revs[r].shown)

\* However many sessions ask, one revision at a time is inside the process
\* or waiting for it.
OneCall == Cardinality(Holding) <= 1

\* Work goes on only for what its session still wants; all other calls
\* have been cancelled.
StaleCancelled == \A r \in Revs :
    ~At(r, "end") => revs[r].cancelled \/ sess[revs[r].sid].rev = r

\* A process that a call uses is not taken from under it.
InUseKept == \A r \in Revs :
    revs[r].proc # 0 => running = revs[r].proc /\ proc[running] \in {"ready", "dead"}

\* A process that serves or died is the slot's own: none is forgotten, and
\* none is served by two.
NoOrphan == \A p \in Procs : proc[p] \in {"ready", "dead"} => running = p

\* What an adapter displays of a revision is its own, current and allowed, and
\* commits once: ScreenCurrent, WithheldSilent and GrantedOnce.
ScreenSafe == TypeOK /\ ScreenCurrent /\ WithheldSilent /\ GrantedOnce

\* One call at a time, for what is still wanted, on a process that is kept for
\* it and is the only one: OneCall, StaleCancelled, InUseKept and NoOrphan.
CallsSafe == OneCall /\ StaleCancelled /\ InUseKept /\ NoOrphan

\* A synonym is not offered twice for one selection while its history lives.
SynonymFresh == [][\A r \in Revs : ~revs[r].shown /\ revs'[r].shown =>
    LET h == history[revs[r].sid] IN
    revs[r].mode = "synonyms" /\ h.on /\ h.sel = revs[r].sel => revs[r].reply \notin h.shown]_vars

\* Nothing of a revision stays for ever: each call ends, and each process is
\* stopped and reaped once nobody uses it (revision/runtime.rs).
Ended == (\A r \in Revs : At(r, "end")) /\ \A p \in Procs : proc[p] = "gone"
AllEnd == <>[]Ended

\* revision/runtime.rs:3-4, "Its failure or exit never stops suggestions; the
\* next request starts it again": the process the slot holds, alive and
\* verified, can be reached at its socket.
NextRequestReaches == Serving => socket = running

=============================================================================
