------------------------------- MODULE Engine -------------------------------
(***************************************************************************)
(* The session engine of the broker (broker/src/engine: session.rs,        *)
(* generation.rs, acceptance.rs, alternatives.rs, and the parts of         *)
(* authority.rs, snooze.rs and desktop.rs that revoke sessions).  One      *)
(* mutex guards all of it, so one action is one critical section; provider *)
(* tasks, lease timers, display timers and grant timers run between them   *)
(* and act on what they captured earlier.                                  *)
(*                                                                         *)
(* Abstractions.  A coordinate is the rank of (focus_epoch, revision) in   *)
(* the lexicographic order the code compares.  A context is named by the   *)
(* coordinate that delivered it, and so is its fingerprint.  A suggestion  *)
(* is its number in the order of issue (the code draws a UUID).  The       *)
(* authority switches of the broker are one set `withheld' of apps.  Text  *)
(* is absent: whether a proposal, a carry or a policy fits is a choice.    *)
(***************************************************************************)
EXTENDS Naturals, FiniteSets

CONSTANTS
    Sid,          \* session ids; an adapter draws a fresh one per session
    Conn,         \* connections, each with one event queue
    App,          \* policy identities: apps and sites
    ConnOf,       \* the connection that opens each session
    AppOf,        \* the identity of each session's target
    Slots,        \* provider_concurrency
    MaxCoord,     \* bound: coordinates are 1..MaxCoord
    MaxGen,       \* bound: clients act on a session below this generation
    MaxOffer,     \* bound: suggestions shown in one behaviour
    MaxEpoch,     \* bound: authority epoch advances
    Alternatives, \* alternative plans in play
    Blockable,    \* connections whose event queue may fill
    Granters      \* connections that negotiated a commit capability

ASSUME BoundsAssumption ==
    /\ Slots \in Nat /\ MaxCoord \in Nat \ {0} /\ MaxGen \in Nat
    /\ MaxOffer \in Nat /\ MaxEpoch \in Nat

ASSUME TargetAssumption ==
    /\ ConnOf \in [Sid -> Conn]
    /\ AppOf \in [Sid -> App]

ASSUME ChoicesAssumption ==
    /\ Alternatives \subseteq {"show", "generate", "list"}
    /\ Blockable \subseteq Conn /\ Granters \subseteq Conn

VARIABLES
    opened,   \* session ids used so far
    live,     \* keys of BrokerState.sessions
    sess,     \* SessionState of each session
    tasks,    \* spawned generation tasks
    plans,    \* alternative requests between their two critical sections
    offers,   \* suggestions: what the display and grant timers captured
    issued,   \* suggestions issued so far
    carry,    \* BrokerState.type_through
    withheld, \* apps whose grants are withheld now
    epoch,    \* authority_epoch
    full,     \* connections whose event queue has no room
    link,     \* connections: up, lifetime token cancelled, or torn down
    screen    \* what each session's adapter was last told to display

vars == <<opened, live, sess, tasks, plans, offers, issued, carry,
          withheld, epoch, full, link, screen>>

-----------------------------------------------------------------------------
(* State                                                                   *)

Coords == 1 .. MaxCoord
Ids == 1 .. MaxOffer
Issued == 1 .. issued
NoneOr(S) == S \cup {0} \* 0 stands for None

Session == [coord : Coords, seen : BOOLEAN, ctx : NoneOr(Coords),
            lease : {"off", "armed", "due"}, stray : BOOLEAN,
            gen : Nat, token : Nat, visible : NoneOr(Issued),
            pending : NoneOr(Issued), list : NoneOr(Issued)]

Task == [sid : Sid, coord : Coords, gen : Nat, cancelled : BOOLEAN,
         kind : {"plain", "generate", "list", "abstain"}, about : NoneOr(Issued)]

Plan == [sid : Sid, coord : Coords, kind : {"show", "generate", "list"},
         about : NoneOr(Issued)]

\* root is the suggestion whose deadline this one keeps, fund the one whose
\* recorded Shown aggregate it may spend, spent the outcomes charged to it.
Offer == [sid : Sid, coord : Coords, gen : Nat, root : Issued,
          fund : NoneOr(Issued), correction : BOOLEAN, lapsed : BOOLEAN,
          timer : {"running", "fired"}, spent : Nat,
          grant : {"none", "running", "overdue", "fired"}]

NoCarry == [on |-> FALSE]
Carry == [on : {TRUE}, app : App, root : Issued, fund : NoneOr(Issued), epoch : Nat]

Fresh == [coord |-> 1, seen |-> FALSE, ctx |-> 0, lease |-> "off",
          stray |-> FALSE, gen |-> 0, token |-> 0, visible |-> 0,
          pending |-> 0, list |-> 0]

TypeOK ==
    /\ live \subseteq opened /\ opened \subseteq Sid
    /\ sess \in [Sid -> Session]
    /\ tasks \subseteq Task
    /\ plans \subseteq Plan
    /\ issued \in 0 .. MaxOffer
    /\ offers \in [Issued -> Offer]
    /\ carry = NoCarry \/ carry \in Carry
    /\ withheld \subseteq App
    /\ epoch \in Nat
    /\ full \subseteq Conn
    /\ link \in [Conn -> {"up", "ending", "gone"}]
    /\ screen \in [Sid -> NoneOr(Issued)]

Init ==
    /\ opened = {} /\ live = {}
    /\ sess = [s \in Sid |-> Fresh]
    /\ tasks = {} /\ plans = {}
    /\ offers = [i \in 1 .. 0 |-> 0] /\ issued = 0
    /\ carry = NoCarry
    /\ withheld = {} /\ epoch = 0
    /\ full = {} /\ link = [c \in Conn |-> "up"]
    /\ screen = [s \in Sid |-> 0]

-----------------------------------------------------------------------------
(* What the critical sections do to one SessionState                       *)

\* A fired timer of the replaced lease may still be waiting for the lock.
InvalidateLease(x) ==
    [x EXCEPT !.lease = "off", !.stray = @ \/ x.lease = "due"]

\* Mutant: a renewal that only cancels the old lease.
ArmLeaseForgotten(x) == InvalidateLease(x)

ArmLease(x) == [InvalidateLease(x) EXCEPT !.lease = "armed"]

\* Mutants: a retired generation that keeps what it should take.
RetireKeepsVisible(x) == [x EXCEPT !.gen = @ + 1, !.token = 0, !.pending = 0]
RetireKeepsPending(x) == [x EXCEPT !.gen = @ + 1, !.token = 0, !.visible = 0]
RetireKeepsToken(x) == [x EXCEPT !.gen = @ + 1, !.visible = 0, !.pending = 0]

RetireGeneration(x) ==
    [x EXCEPT !.gen = @ + 1, !.token = 0, !.visible = 0, !.pending = 0]

\* Mutant: a revocation that forgets the coordinates the session stands at.
RevokeForgetsPlace(x) ==
    [RetireGeneration(InvalidateLease(x)) EXCEPT !.ctx = 0, !.coord = 0]

Revoke(x) == [RetireGeneration(InvalidateLease(x)) EXCEPT !.ctx = 0]

\* The admitted binding: one generation past the retired one, lease renewed.
Bind(x) == LET y == RetireGeneration(x) IN ArmLease([y EXCEPT !.gen = @ + 1])

\* The fingerprint that controls and cancellations must match.
Fingerprint(x) ==
    IF x.ctx # 0 THEN x.ctx
    ELSE IF x.visible # 0 THEN offers[x.visible].coord ELSE 0

\* Mutant: a hold that admission does not look at.
DataAccessUnheld(s) == s \in live

DataAccess(s) == s \in live /\ AppOf[s] \notin withheld

-----------------------------------------------------------------------------
(* Their effects outside it                                                *)

\* Mutant: superseded work runs on.
CancelsNothing(S) == tasks

\* The tasks whose token the sessions S hold are cancelled.
Cancelled(S) ==
    {IF t.sid \in S /\ t.kind # "abstain" /\ t.gen = sess[t.sid].token
     THEN [t EXCEPT !.cancelled = TRUE] ELSE t : t \in tasks}

\* An event sent for each session of S; one that finds no room ends its
\* connection.
Send(S) ==
    link' = [c \in Conn |-> IF c \in full /\ \E s \in S : ConnOf[s] = c
                           THEN "ending" ELSE link[c]]

Reached(s) == ConnOf[s] \notin full

Displayed(s) == sess[s].visible # 0 \/ sess[s].pending # 0

\* Mutant: only a grant is withdrawn from the adapter.
ClearsGrantsOnly(S) ==
    /\ Send({s \in S : sess[s].pending # 0})
    /\ UNCHANGED screen

\* The clears retire_generation sends for the sessions S.
Clear(S) ==
    /\ Send({s \in S : Displayed(s)})
    /\ screen' = [s \in Sid |->
           IF s \in S /\ sess[s].visible # 0 /\ Reached(s) THEN 0 ELSE screen[s]]

Withdraw(S) == tasks' = Cancelled(S) /\ Clear(S)

\* The visible slot, the display timer and the carry of a new suggestion.
\* A root or fund of 0 stands for the new suggestion itself or for none.
Show(s, x, root, fund, correction) ==
    LET id == issued + 1
        keeps == IF root = 0 THEN id ELSE root
    IN  /\ Reached(s) /\ issued < MaxOffer
        /\ issued' = id
        /\ offers' = [i \in 1 .. id |-> IF i # id THEN offers[i] ELSE
               [sid |-> s, coord |-> x.coord, gen |-> x.gen, root |-> keeps,
                fund |-> fund, correction |-> correction, lapsed |-> FALSE,
                timer |-> "running", spent |-> 0, grant |-> "none"]]
        /\ sess' = [sess EXCEPT ![s] =
               [x EXCEPT !.token = 0, !.list = 0, !.visible = id]]
        /\ screen' = [screen EXCEPT ![s] = id]
        /\ carry' = IF correction THEN NoCarry
                    ELSE [on |-> TRUE, app |-> AppOf[s], root |-> keeps,
                          fund |-> fund, epoch |-> epoch]
        /\ UNCHANGED link

\* The same step when the event queue refuses the show.
ShowRefused(s, x) ==
    /\ ~Reached(s)
    /\ Send({s})
    /\ sess' = [sess EXCEPT ![s] = [x EXCEPT !.token = 0]]
    /\ UNCHANGED <<issued, offers, screen, carry>>

-----------------------------------------------------------------------------
(* Sessions and their context                                              *)

OpenSession(s, c) ==
    /\ s \notin opened /\ AppOf[s] \notin withheld /\ link[ConnOf[s]] # "gone"
    /\ opened' = opened \cup {s}
    /\ live' = live \cup {s}
    /\ sess' = [sess EXCEPT ![s] = [Fresh EXCEPT !.coord = c]]
    /\ UNCHANGED <<tasks, plans, offers, issued, carry, withheld, epoch, full,
                   link, screen>>

\* Removes the sessions S after revoking them.
Close(S) ==
    /\ live' = live \ S
    /\ sess' = [s \in Sid |-> IF s \in S THEN Revoke(sess[s]) ELSE sess[s]]
    /\ Withdraw(S)

CloseSession(s) ==
    /\ s \in live
    /\ Close({s})
    /\ UNCHANGED <<opened, plans, offers, issued, carry, withheld, epoch, full>>

Owned(c) == {s \in live : ConnOf[s] = c}

\* The server closes a policy connection's sessions on each authority event.
CloseOwned(c) ==
    /\ Owned(c) # {}
    /\ Close(Owned(c))
    /\ UNCHANGED <<opened, plans, offers, issued, carry, withheld, epoch, full>>

\* Mutant: a teardown that forgets what the connection owned.
TeardownKeepsSessions(c) ==
    /\ link[c] # "gone"
    /\ link' = [link EXCEPT ![c] = "gone"]
    /\ UNCHANGED <<opened, live, sess, tasks, plans, offers, issued, carry,
                   withheld, epoch, full, screen>>

\* A disconnected or ended connection takes its sessions with it.
Teardown(c) ==
    /\ link[c] # "gone"
    /\ live' = live \ Owned(c)
    /\ sess' = [s \in Sid |-> IF s \in Owned(c) THEN Revoke(sess[s]) ELSE sess[s]]
    /\ tasks' = Cancelled(Owned(c))
    /\ link' = [link EXCEPT ![c] = "gone"]
    /\ screen' = [s \in Sid |-> IF ConnOf[s] = c THEN 0 ELSE screen[s]]
    /\ UNCHANGED <<opened, plans, offers, issued, carry, withheld, epoch, full>>

Newer(s, c) == c > sess[s].coord \/ (c = sess[s].coord /\ ~sess[s].seen)

UpdateContext(s, c, allowed) ==
    /\ DataAccess(s) /\ Newer(s, c) /\ sess[s].gen < MaxGen
    /\ LET y == [Revoke(sess[s]) EXCEPT !.coord = c, !.seen = TRUE]
       IN sess' = [sess EXCEPT ![s] =
              IF allowed THEN [ArmLease(y) EXCEPT !.ctx = c] ELSE y]
    /\ Withdraw({s})
    /\ UNCHANGED <<opened, live, plans, offers, issued, carry, withheld, epoch,
                   full>>

LeaseDue(s) ==
    /\ s \in live /\ sess[s].lease = "armed"
    /\ sess' = [sess EXCEPT ![s].lease = "due"]
    /\ UNCHANGED <<opened, live, tasks, plans, offers, issued, carry, withheld,
                   epoch, full, link, screen>>

\* The timer of the current lease gets the lock.
LeaseExpire(s) ==
    /\ s \in live /\ sess[s].lease = "due"
    /\ sess' = [sess EXCEPT ![s] = [Revoke(sess[s]) EXCEPT !.stray = sess[s].stray]]
    /\ Withdraw({s})
    /\ UNCHANGED <<opened, live, plans, offers, issued, carry, withheld, epoch,
                   full>>

\* Mutant: the timer of a replaced lease revokes the renewed one.
StrayLeaseRevokes(s) ==
    /\ s \in live /\ sess[s].stray
    /\ sess' = [sess EXCEPT ![s] = [Revoke(@) EXCEPT !.stray = FALSE]]
    /\ Withdraw({s})
    /\ UNCHANGED <<opened, live, plans, offers, issued, carry, withheld, epoch,
                   full>>

\* So does one whose lease was replaced since: its number no longer matches.
StrayLease(s) ==
    /\ s \in live /\ sess[s].stray
    /\ sess' = [sess EXCEPT ![s].stray = FALSE]
    /\ UNCHANGED <<opened, live, tasks, plans, offers, issued, carry, withheld,
                   epoch, full, link, screen>>

-----------------------------------------------------------------------------
(* Requests: admit_generation                                              *)

\* Every check admission makes of a request for the session's context.
Admissible(s) ==
    /\ DataAccess(s)
    /\ sess[s].ctx = sess[s].coord /\ sess[s].ctx # 0
    /\ sess[s].gen < MaxGen

ProviderTasks == {t \in tasks : t.kind # "abstain"}

NewTask(s, x, kind, about) ==
    [sid |-> s, coord |-> x.coord, gen |-> x.gen, cancelled |-> FALSE,
     kind |-> kind, about |-> about]

\* Quiet, or nothing to correct: the lock is dropped and clear_failed
\* takes it again later.
AdmitAbstain(s) ==
    LET x == Bind(sess[s]) IN
    /\ sess' = [sess EXCEPT ![s] = x]
    /\ tasks' = Cancelled({s}) \cup {NewTask(s, x, "abstain", 0)}
    /\ Clear({s})
    /\ UNCHANGED <<offers, issued, carry>>

\* show_carried: a suggestion at once, without a provider call.
AdmitShow(s, root, fund) ==
    LET x == Bind(sess[s]) IN
    /\ Show(s, x, root, fund, FALSE) \/ ShowRefused(s, x)
    /\ tasks' = Cancelled({s})

AdmitCarried(s) ==
    /\ carry.on /\ carry.app = AppOf[s] /\ ~offers[carry.root].lapsed
    /\ AdmitShow(s, carry.root, carry.fund)

AdmitBusy(s) ==
    /\ Cardinality(ProviderTasks) >= Slots
    /\ sess' = [sess EXCEPT ![s] = RetireGeneration(@)]
    /\ Withdraw({s})
    /\ UNCHANGED <<offers, issued, carry>>

AdmitGenerate(s, kind, about) ==
    LET x == Bind(sess[s]) IN
    /\ Cardinality(ProviderTasks) < Slots
    /\ sess' = [sess EXCEPT ![s] = [x EXCEPT !.token = x.gen]]
    /\ tasks' = Cancelled({s}) \cup {NewTask(s, x, kind, about)}
    /\ Clear({s})
    /\ UNCHANGED <<offers, issued, carry>>

Admit(s, kind, about) ==
    /\ Admissible(s)
    /\ \/ AdmitAbstain(s)
       \/ AdmitCarried(s)
       \/ AdmitBusy(s)
       \/ AdmitGenerate(s, kind, about)

RequestSuggestion(s) ==
    /\ Admit(s, "plain", 0)
    /\ UNCHANGED <<opened, live, plans, withheld, epoch, full>>

CancelSuggestion(s) ==
    /\ s \in live /\ sess[s].gen < MaxGen
    /\ Fingerprint(sess[s]) = sess[s].coord
    /\ sess' = [sess EXCEPT ![s] = RetireGeneration(@)]
    /\ Withdraw({s})
    /\ UNCHANGED <<opened, live, plans, offers, issued, carry, withheld, epoch,
                   full>>

-----------------------------------------------------------------------------
(* Alternatives: a plan under one lock, its admission under another        *)

AskAlternative(s, kind) ==
    /\ DataAccess(s) /\ kind \in Alternatives /\ plans = {}
    /\ sess[s].visible # 0 /\ ~offers[sess[s].visible].correction
    /\ Fingerprint(sess[s]) = sess[s].coord
    /\ sess' = [sess EXCEPT ![s].list = 0]
    /\ plans' = {[sid |-> s, coord |-> sess[s].coord, kind |-> kind,
                  about |-> sess[s].visible]}
    /\ UNCHANGED <<opened, live, tasks, offers, issued, carry, withheld, epoch,
                   full, link, screen>>

\* Picking a listed word spends the list; found says it was still the live
\* list and held the word.
PickAlternative(s, found) ==
    /\ DataAccess(s) /\ plans = {}
    /\ sess[s].list # 0 /\ Fingerprint(sess[s]) = sess[s].coord
    /\ found => offers[sess[s].list].coord = sess[s].coord
    /\ sess' = [sess EXCEPT ![s].list = 0]
    /\ plans' = IF found THEN {[sid |-> s, coord |-> sess[s].coord,
                               kind |-> "generate", about |-> sess[s].list]}
                ELSE {}
    /\ UNCHANGED <<opened, live, tasks, offers, issued, carry, withheld, epoch,
                   full, link, screen>>

AdmitAlternative(p) ==
    /\ p \in plans /\ plans' = plans \ {p}
    /\ Admissible(p.sid) /\ sess[p.sid].coord = p.coord
    /\ IF p.kind = "show" THEN AdmitShow(p.sid, 0, 0)
       ELSE \/ AdmitAbstain(p.sid)
            \/ AdmitCarried(p.sid)
            \/ AdmitBusy(p.sid)
            \/ AdmitGenerate(p.sid, p.kind, p.about)
    /\ UNCHANGED <<opened, live, withheld, epoch, full>>

RejectAlternative(p) ==
    /\ p \in plans /\ plans' = plans \ {p}
    /\ ~(Admissible(p.sid) /\ sess[p.sid].coord = p.coord)
    /\ UNCHANGED <<opened, live, sess, tasks, offers, issued, carry, withheld,
                   epoch, full, link, screen>>

-----------------------------------------------------------------------------
(* Generation tasks end: run_generation, finish_generation, show_fallback  *)

\* session_awaiting: the session still awaits exactly this generation.
Awaiting(t) ==
    /\ DataAccess(t.sid)
    /\ sess[t.sid].gen = t.gen /\ sess[t.sid].coord = t.coord
    /\ sess[t.sid].ctx = t.coord
    /\ ~t.cancelled

Ends(t) == tasks' = tasks \ {t}

Idle == UNCHANGED <<opened, live, plans, withheld, epoch, full>>
Unshown == UNCHANGED <<offers, issued, carry, screen>>

\* The cancelled token is seen first, or the provider honored it.
EndCancelled(t) ==
    /\ t \in ProviderTasks /\ t.cancelled
    /\ Ends(t) /\ Idle /\ Unshown /\ UNCHANGED <<sess, link>>

\* clear_failed_generation: no answer, a bad one, or one past its deadline
\* (for an alternative only that), and the second half of every abstention.
\* It asks nothing of the token.
EndFailed(t) ==
    /\ t \in tasks
    /\ IF t.sid \in live /\ sess[t.sid].gen = t.gen /\ sess[t.sid].coord = t.coord
       THEN /\ sess' = [sess EXCEPT ![t.sid].token = 0, ![t.sid].visible = 0]
            /\ Send({t.sid})
       ELSE UNCHANGED <<sess, link>>
    /\ Ends(t) /\ Idle /\ Unshown

\* An answer for a session that moved on shows nothing.
EndStale(t) ==
    /\ t \in ProviderTasks /\ ~Awaiting(t)
    /\ Ends(t) /\ Idle /\ Unshown /\ UNCHANGED <<sess, link>>

\* Turned down, not allowed here, or its deadline passed under the lock.
EndWithheld(t) ==
    /\ t \in ProviderTasks /\ t.kind # "list" /\ Awaiting(t)
    /\ sess' = [sess EXCEPT ![t.sid].token = 0]
    /\ Send({t.sid})
    /\ Ends(t) /\ Idle /\ Unshown

\* The Shown aggregate funds one later outcome if it could be recorded.
EndShow(t, correction, recorded) ==
    /\ t \in ProviderTasks /\ t.kind # "list" /\ Awaiting(t)
    /\ t.kind = "generate" => ~correction
    /\ \/ Show(t.sid, sess[t.sid], 0, IF recorded THEN issued + 1 ELSE 0, correction)
       \/ ShowRefused(t.sid, sess[t.sid])
    /\ Ends(t) /\ Idle

\* An invalid list is reported, but the session's token stays behind.
EndList(t, valid) ==
    /\ t \in ProviderTasks /\ t.kind = "list" /\ Awaiting(t)
    /\ sess' = IF valid
              THEN [sess EXCEPT ![t.sid].token = 0, ![t.sid].list = t.about]
              ELSE sess
    /\ Send({t.sid})
    /\ Ends(t) /\ Idle /\ Unshown

\* An alternative without an answer shows one already shown.  The timeout of
\* a generate alternative has cancelled its own token, so session_awaiting no
\* longer finds it.
EndFallback(t, timeout) ==
    LET awaiting == Awaiting(t) /\ ~(timeout /\ t.kind = "generate")
    IN  /\ t \in ProviderTasks /\ t.kind \in {"generate", "list"}
        /\ \/ ~awaiting /\ Unshown /\ UNCHANGED <<sess, link>>
           \/ awaiting /\ Show(t.sid, sess[t.sid], 0, 0, FALSE)
           \/ awaiting /\ ShowRefused(t.sid, sess[t.sid])
           \/ /\ awaiting \* the deadline passed under the lock
              /\ sess' = [sess EXCEPT ![t.sid].token = 0]
              /\ Send({t.sid}) /\ Unshown
        /\ Ends(t) /\ Idle

TaskEnd(t) ==
    \/ EndCancelled(t)
    \/ EndFailed(t)
    \/ EndStale(t)
    \/ EndWithheld(t)
    \/ \E correction, recorded \in BOOLEAN : EndShow(t, correction, recorded)
    \/ \E valid \in BOOLEAN : EndList(t, valid)
    \/ \E timeout \in BOOLEAN : EndFallback(t, timeout)

-----------------------------------------------------------------------------
(* Controls: session_control and grant_commit                              *)

\* The offer a control names must be the visible one of a session that may
\* still receive suggestions.
Controllable(s) ==
    /\ DataAccess(s) /\ sess[s].visible # 0
    /\ Fingerprint(sess[s]) = sess[s].coord

\* Mutant: a carried remainder with a deadline of its own.
LiveOwnDeadline(i) == ~offers[i].lapsed

Live(i) == ~offers[offers[i].root].lapsed

\* take_live_suggestion past the deadline: the adapter is told to clear it.
ControlExpired(s) ==
    /\ Controllable(s) /\ ~Live(sess[s].visible)
    /\ Clear({s})
    /\ sess' = [sess EXCEPT ![s].visible = 0]
    /\ UNCHANGED <<opened, live, tasks, plans, offers, issued, carry, withheld,
                   epoch, full>>

\* One outcome charged to the Shown aggregate that funds suggestion i.
Charge(i) == [offers EXCEPT ![offers[i].fund].spent = @ + 1]

Funded(i, recorded) == recorded => offers[i].fund # 0

\* Mutant: the remainder of an accepted word may be charged again.
CarryAfterStillFunded(kept, recorded) == IF kept THEN carry ELSE NoCarry

\* What is left of the carry after an outcome and an acceptance.
CarryAfter(kept, recorded) ==
    IF ~kept \/ ~carry.on THEN NoCarry
    ELSE IF recorded THEN [carry EXCEPT !.fund = 0] ELSE carry

Dismiss(s, recorded) ==
    LET id == sess[s].visible IN
    /\ Controllable(s) /\ Live(id) /\ Funded(id, recorded)
    /\ sess' = [sess EXCEPT ![s].visible = 0, ![s].gen = @ + 1]
    /\ Clear({s})
    /\ offers' = IF recorded THEN Charge(id) ELSE offers
    /\ carry' = NoCarry
    /\ UNCHANGED <<opened, live, tasks, plans, issued, withheld, epoch, full>>

\* Accepting grants the adapter one commit and starts its lease; an accepted
\* word leaves the rest of the carry, a whole acceptance ends it.
Accept(s, word, recorded) ==
    LET id == sess[s].visible
        charged == IF recorded THEN Charge(id) ELSE offers
    IN  /\ Controllable(s) /\ Live(id) /\ Funded(id, recorded)
        /\ ConnOf[s] \in Granters /\ Reached(s)
        /\ sess' = [sess EXCEPT ![s] =
               [ArmLease(@) EXCEPT !.visible = 0, !.pending = id]]
        /\ offers' = [charged EXCEPT ![id].grant = "running"]
        /\ screen' = [screen EXCEPT ![s] = 0]
        /\ carry' = CarryAfter(word, recorded)
        /\ UNCHANGED <<opened, live, tasks, plans, issued, withheld, epoch,
                       full, link>>

\* A grant refused for want of a capability or of room takes the suggestion
\* and tells the adapter nothing else.
AcceptRefused(s) ==
    /\ Controllable(s) /\ Live(sess[s].visible)
    /\ \/ ConnOf[s] \notin Granters /\ UNCHANGED link
       \/ ConnOf[s] \in Granters /\ ~Reached(s) /\ Send({s})
    /\ sess' = [sess EXCEPT ![s].visible = 0]
    /\ UNCHANGED <<opened, live, tasks, plans, offers, issued, carry, withheld,
                   epoch, full, screen>>

-----------------------------------------------------------------------------
(* The adapter's commit result                                             *)

Lapsed(i) == offers[i].grant # "running"

\* Applied retires everything derived from the old revision.
Committed(x) ==
    [InvalidateLease(x) EXCEPT !.pending = 0, !.gen = @ + 1, !.token = 0,
                               !.ctx = 0, !.visible = 0]

CommitApplied(s) ==
    /\ s \in live /\ sess[s].pending # 0 /\ ~Lapsed(sess[s].pending)
    /\ sess' = [sess EXCEPT ![s] = Committed(@)]
    /\ tasks' = Cancelled({s})
    /\ UNCHANGED <<opened, live, plans, offers, issued, carry, withheld, epoch,
                   full, link, screen>>

\* A dispatched commit is only known to have been sent to the application.
CommitDispatched(s) ==
    /\ s \in live /\ sess[s].pending # 0 /\ ~Lapsed(sess[s].pending)
    /\ sess' = [sess EXCEPT ![s] = [InvalidateLease(@) EXCEPT
           !.pending = 0, !.ctx = 0]]
    /\ UNCHANGED <<opened, live, tasks, plans, offers, issued, carry, withheld,
                   epoch, full, link, screen>>

\* Stale, blocked or failed, or a status this adapter may not report.
CommitRefused(s) ==
    /\ s \in live /\ sess[s].pending # 0 /\ ~Lapsed(sess[s].pending)
    /\ sess' = [sess EXCEPT ![s] = Revoke([@ EXCEPT !.pending = 0])]
    /\ tasks' = Cancelled({s})
    /\ Send({r \in {s} : sess[r].visible # 0})
    /\ screen' = [screen EXCEPT ![s] =
           IF sess[s].visible # 0 /\ Reached(s) THEN 0 ELSE @]
    /\ UNCHANGED <<opened, live, plans, offers, issued, carry, withheld, epoch,
                   full>>

CommitLate(s) ==
    /\ s \in live /\ sess[s].pending # 0 /\ Lapsed(sess[s].pending)
    /\ sess' = [sess EXCEPT ![s].pending = 0]
    /\ Send({s})
    /\ UNCHANGED <<opened, live, tasks, plans, offers, issued, carry, withheld,
                   epoch, full, screen>>

-----------------------------------------------------------------------------
(* Deadlines and the timers that act on them                               *)

DeadlinePasses(i) ==
    /\ i \in Issued /\ offers[i].root = i /\ ~offers[i].lapsed
    /\ offers' = [offers EXCEPT ![i].lapsed = TRUE]
    /\ UNCHANGED <<opened, live, sess, tasks, plans, issued, carry, withheld,
                   epoch, full, link, screen>>

\* expire_suggestion acts only on what its timer captured.
ExpireSuggestion(i) ==
    LET s == offers[i].sid IN
    /\ i \in Issued /\ ~Live(i) /\ offers[i].timer = "running"
    /\ offers' = [offers EXCEPT ![i].timer = "fired"]
    /\ IF s \in live /\ sess[s].gen = offers[i].gen
          /\ sess[s].coord = offers[i].coord /\ sess[s].visible = i
       THEN sess' = [sess EXCEPT ![s].visible = 0] /\ Clear({s})
       ELSE UNCHANGED <<sess, link, screen>>
    /\ UNCHANGED <<opened, live, tasks, plans, issued, carry, withheld, epoch,
                   full>>

GrantLapses(i) ==
    /\ i \in Issued /\ offers[i].grant = "running"
    /\ offers' = [offers EXCEPT ![i].grant = "overdue"]
    /\ UNCHANGED <<opened, live, sess, tasks, plans, issued, carry, withheld,
                   epoch, full, link, screen>>

\* expire_pending_commit
ExpireGrant(i) ==
    LET s == offers[i].sid IN
    /\ i \in Issued /\ offers[i].grant = "overdue"
    /\ offers' = [offers EXCEPT ![i].grant = "fired"]
    /\ IF s \in live /\ sess[s].pending = i
       THEN sess' = [sess EXCEPT ![s].pending = 0] /\ Send({s})
       ELSE UNCHANGED <<sess, link>>
    /\ UNCHANGED <<opened, live, tasks, plans, issued, carry, withheld, epoch,
                   full, screen>>

-----------------------------------------------------------------------------
(* Authority switches and the event queue                                  *)

\* advance_authority_epoch and publish_authority_change: derived text never
\* outlives the authority it was shown under.
PublishKeepsCarry == epoch' = epoch + 1 /\ UNCHANGED carry \* a mutant
Publish == epoch' = epoch + 1 /\ carry' = NoCarry

\* A pause, a desktop hold, a snooze or an editor's focus: each advances the
\* epoch, revokes the sessions it covers and drops the carry in one step.
Withhold(A) ==
    LET S == {s \in live : AppOf[s] \in A} IN
    /\ epoch < MaxEpoch /\ A # {}
    /\ withheld' = withheld \cup A /\ Publish
    /\ sess' = [s \in Sid |-> IF s \in S THEN Revoke(sess[s]) ELSE sess[s]]
    /\ Withdraw(S)
    /\ UNCHANGED <<opened, live, plans, offers, issued, full>>

Release(A) ==
    /\ epoch < MaxEpoch /\ A # {} /\ A \subseteq withheld
    /\ withheld' = withheld \ A /\ Publish
    /\ UNCHANGED <<opened, live, sess, tasks, plans, offers, issued, full, link,
                   screen>>

\* Installed settings close every session and decide anew what is withheld.
CloseAll(A) ==
    /\ epoch < MaxEpoch
    /\ withheld' = A /\ Publish
    /\ Close(live)
    /\ UNCHANGED <<opened, plans, offers, issued, full>>

Fill(c) ==
    /\ c \in Blockable \ full /\ link[c] = "up"
    /\ full' = full \cup {c}
    /\ UNCHANGED <<opened, live, sess, tasks, plans, offers, issued, carry,
                   withheld, epoch, link, screen>>

Drain(c) ==
    /\ c \in full
    /\ full' = full \ {c}
    /\ UNCHANGED <<opened, live, sess, tasks, plans, offers, issued, carry,
                   withheld, epoch, link, screen>>

-----------------------------------------------------------------------------

Client(s) ==
    \/ \E c \in Coords : OpenSession(s, c)
    \/ CloseSession(s)
    \/ \E c \in Coords, allowed \in BOOLEAN : UpdateContext(s, c, allowed)
    \/ RequestSuggestion(s)
    \/ CancelSuggestion(s)
    \/ \E kind \in Alternatives : AskAlternative(s, kind)
    \/ \E found \in BOOLEAN : PickAlternative(s, found)
    \/ ControlExpired(s)
    \/ \E recorded \in BOOLEAN : Dismiss(s, recorded)
    \/ \E word, recorded \in BOOLEAN : Accept(s, word, recorded)
    \/ AcceptRefused(s)
    \/ CommitApplied(s)
    \/ CommitDispatched(s)
    \/ CommitRefused(s)
    \/ CommitLate(s)

Switches ==
    \E A \in SUBSET App : Withhold(A) \/ Release(A) \/ CloseAll(A)

Next ==
    \/ \E s \in Sid : Client(s) \/ LeaseDue(s) \/ LeaseExpire(s) \/ StrayLease(s)
    \/ \E p \in plans : AdmitAlternative(p) \/ RejectAlternative(p)
    \/ \E t \in tasks : TaskEnd(t)
    \/ \E i \in Issued : DeadlinePasses(i) \/ ExpireSuggestion(i)
                            \/ GrantLapses(i) \/ ExpireGrant(i)
    \/ \E c \in Conn : CloseOwned(c) \/ Teardown(c) \/ Fill(c) \/ Drain(c)
    \/ Switches

\* The runtime runs every task it spawned, every timer fires, time passes and
\* a connection whose lifetime ended is torn down.  Clients owe nothing.
Fairness ==
    /\ \A s \in Sid : WF_vars(LeaseDue(s)) /\ WF_vars(LeaseExpire(s))
    /\ WF_vars(\E p \in plans : AdmitAlternative(p) \/ RejectAlternative(p))
    /\ \A s \in Sid : WF_vars(\E t \in tasks : t.sid = s /\ TaskEnd(t))
    /\ \A i \in Ids : /\ WF_vars(DeadlinePasses(i)) /\ WF_vars(ExpireSuggestion(i))
                     /\ WF_vars(GrantLapses(i)) /\ WF_vars(ExpireGrant(i))
    /\ \A c \in Conn : WF_vars(link[c] = "ending" /\ Teardown(c))

Spec == Init /\ [][Next]_vars
FairSpec == Spec /\ Fairness

-----------------------------------------------------------------------------
(* Properties                                                              *)

\* A suggestion on offer, and a granted commit, belong to the session, the
\* coordinate and the context they were made for, and the display timer of a
\* visible one captured the current generation, so it will find it.
BoundOffers ==
    \A s \in live :
        /\ sess[s].visible # 0 =>
            LET o == offers[sess[s].visible]
            IN  /\ o.sid = s /\ o.coord = sess[s].coord
                /\ sess[s].ctx = o.coord /\ o.gen = sess[s].gen
        /\ sess[s].pending # 0 =>
            LET o == offers[sess[s].pending]
            IN  o.sid = s /\ o.coord = sess[s].coord /\ sess[s].ctx = o.coord

\* A session has at most one of a suggestion on offer, a granted commit and a
\* provider call awaited, and any of them only while it retains the context
\* they derive from.
OneAuthority ==
    \A s \in live :
        /\ sess[s].visible # 0 => sess[s].pending = 0 /\ sess[s].token = 0
        /\ sess[s].pending # 0 => sess[s].token = 0
        /\ sess[s].token # 0 => sess[s].ctx # 0 /\ sess[s].token = sess[s].gen

\* Typed text is never retained without a lease that will end it.
LeasedContext == \A s \in live : sess[s].ctx # 0 <=> sess[s].lease # "off"

\* While an app is withheld nothing read from it or derived from it is held.
WithheldSilent ==
    \A s \in live : AppOf[s] \in withheld =>
        /\ sess[s].ctx = 0 /\ sess[s].token = 0
        /\ sess[s].visible = 0 /\ sess[s].pending = 0

\* Provider work nobody waits for any more has been cancelled, so each
\* session has at most one call that is not, and permits bound them all.
OwnedWork ==
    /\ \A t \in ProviderTasks : ~t.cancelled =>
           t.sid \in live /\ sess[t.sid].token = t.gen
    /\ Cardinality(ProviderTasks) <= Slots

\* A session that awaits a provider call has that call running: some answer,
\* even an empty one, will still reach the adapter.
AwaitedCallRuns ==
    \A s \in live : sess[s].token # 0 =>
        \E t \in ProviderTasks :
            t.sid = s /\ t.gen = sess[s].token /\ ~t.cancelled

\* On a working connection that can be granted commits, what the adapter was
\* last told to display is exactly what the broker would let it accept.
ScreenAgrees ==
    \A s \in opened : link[ConnOf[s]] = "up" /\ ConnOf[s] \in Granters =>
        screen[s] = (IF s \in live THEN sess[s].visible ELSE 0)

\* What the broker and the adapter believe of each other is true: what is
\* displayed (ScreenAgrees) and what is awaited (AwaitedCallRuns).
BeliefsHold == ScreenAgrees /\ AwaitedCallRuns

\* Derived text never outlives the authority it was shown under.
CarryAuthority == carry.on => carry.epoch = epoch

\* One Shown aggregate funds one outcome, however its text was carried.
FundOnce == \A i \in Issued : offers[i].spent <= 1

\* A suggestion is granted at most once, never past its deadline, and a
\* remainder is never shown past the deadline of the suggestion it carries.
NoRevival ==
    [][/\ \A s \in live : sess'[s].pending \notin {0, sess[s].pending} =>
             LET o == offers[sess'[s].pending]
             IN  o.grant = "none" /\ ~offers[o.root].lapsed
       /\ \A i \in (1 .. issued') \ (1 .. issued) :
             offers'[i].root # i => ~offers[offers'[i].root].lapsed]_vars

\* A session keeps its context at one coordinate until its lease ran out,
\* its adapter reported a commit, or its app was withheld.
LossHasCause ==
    [][\A s \in live \cap live' :
         sess[s].ctx # 0 /\ sess'[s].ctx = 0 /\ sess'[s].coord = sess[s].coord =>
            \/ sess[s].lease = "due"
            \/ sess[s].pending # 0
            \/ AppOf[s] \in withheld']_vars

\* What comes and goes has its reason: no suggestion comes back (NoRevival) and
\* no context goes on its own (LossHasCause).
StepsHaveCause == NoRevival /\ LossHasCause

\* Nothing derived from typed text is held forever: a context, a suggestion
\* and a grant all end although the adapter stays silent.
ContextEnds ==
    \A s \in Sid : (s \in live /\ sess[s].ctx # 0) ~> (sess[s].ctx = 0)

Holds(s, i) == s \in live /\ i \in {sess[s].visible, sess[s].pending}
OfferEnds == \A s \in Sid, i \in Ids : Holds(s, i) ~> ~Holds(s, i)

\* A connection that missed an event loses every session it owned.
EndingCloses == \A c \in Conn : link[c] = "ending" ~> Owned(c) = {}

\* Everything held ends: ContextEnds, OfferEnds and EndingCloses.
HoldsEnd == ContextEnds /\ OfferEnds /\ EndingCloses

\* The engine keeps the promise of Offers: a session's slot holds its visible
\* suggestion or its granted one.
SlotOf(s) ==
    IF s \in live /\ sess[s].visible # 0
    THEN [held |-> "shown", id |-> sess[s].visible]
    ELSE IF s \in live /\ sess[s].pending # 0
         THEN [held |-> "granted", id |-> sess[s].pending]
         ELSE [held |-> "nothing", id |-> 0]

Promise == INSTANCE Offers WITH slot <- [s \in Sid |-> SlotOf(s)], used <- 1 .. issued

OffersSpec == Promise!Spec

=============================================================================
