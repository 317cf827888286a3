----------------------------- MODULE EngineProofs -----------------------------
(***************************************************************************)
(* Proofs about Engine for every value of its constants: TypeOK, which is  *)
(* inductive by itself, then IInv, which every safety theorem rests on.    *)
(*                                                                         *)
(* Then why things come and go: a suggestion is granted once and in time,  *)
(* a context goes for a cause, the adapter displays what the broker would  *)
(* let it accept, a call that is awaited runs, and one Shown aggregate     *)
(* funds one outcome.  CInv is IInv with what the timers and the adapters  *)
(* rely on; every step of the engine is then one of the moves of Caused.   *)
(* Last, Engine implements Offers, what a suggestion's slot promises.      *)
(***************************************************************************)
EXTENDS Engine, FiniteSetTheorems, TLAPS

-----------------------------------------------------------------------------
(* The record operators                                                    *)

\* Single updates of a session record.
LEMMA Fields ==
    ASSUME NEW x \in Session
    PROVE  /\ [x EXCEPT !.token = 0] \in Session
           /\ [x EXCEPT !.visible = 0] \in Session
           /\ [x EXCEPT !.pending = 0] \in Session
           /\ [x EXCEPT !.list = 0] \in Session
           /\ [x EXCEPT !.ctx = 0] \in Session
           /\ [x EXCEPT !.gen = @ + 1] \in Session
           /\ [x EXCEPT !.lease = "armed"] \in Session
           /\ [x EXCEPT !.lease = "due"] \in Session
           /\ [x EXCEPT !.stray = FALSE] \in Session
           /\ \A g \in Nat : [x EXCEPT !.token = g] \in Session
           /\ \A c \in Coords : [x EXCEPT !.ctx = c] \in Session
           /\ \A c \in Coords : [x EXCEPT !.coord = c, !.seen = TRUE] \in Session
           /\ \A i \in NoneOr(Issued) : /\ [x EXCEPT !.visible = i] \in Session
                                     /\ [x EXCEPT !.pending = i] \in Session
                                     /\ [x EXCEPT !.list = i] \in Session
<1> DEFINE N == NoneOr(Coords)
           I == NoneOr(Issued)
<1>1. 0 \in N /\ 0 \in I /\ \A c \in Coords : c \in N
  BY DEF NoneOr
<1> HIDE DEF N, I
<1>2. Session = [coord : Coords, seen : BOOLEAN, ctx : N,
                 lease : {"off", "armed", "due"}, stray : BOOLEAN,
                 gen : Nat, token : Nat, visible : I, pending : I, list : I]
  BY DEF Session, N, I
<1>3. /\ [x EXCEPT !.token = 0] \in Session
      /\ [x EXCEPT !.gen = @ + 1] \in Session
  BY <1>2
<1>9. /\ [x EXCEPT !.lease = "armed"] \in Session
      /\ [x EXCEPT !.lease = "due"] \in Session
  BY <1>2
<1>10. [x EXCEPT !.stray = FALSE] \in Session
  BY <1>2
<1>4. /\ [x EXCEPT !.visible = 0] \in Session
      /\ [x EXCEPT !.pending = 0] \in Session
      /\ [x EXCEPT !.list = 0] \in Session
      /\ [x EXCEPT !.ctx = 0] \in Session
  BY <1>1, <1>2
<1>5. \A g \in Nat : [x EXCEPT !.token = g] \in Session
  BY <1>2
<1>6. \A c \in Coords : [x EXCEPT !.ctx = c] \in Session
  BY <1>1, <1>2
<1>7. \A c \in Coords : [x EXCEPT !.coord = c, !.seen = TRUE] \in Session
  BY <1>2
<1>8. \A i \in I : /\ [x EXCEPT !.visible = i] \in Session
                  /\ [x EXCEPT !.pending = i] \in Session
                  /\ [x EXCEPT !.list = i] \in Session
  BY <1>2
<1> QED
  BY <1>3, <1>4, <1>5, <1>6, <1>7, <1>8, <1>9, <1>10 DEF I

\* Each transition of a session record yields a session record.
LEMMA SessionOps ==
    ASSUME NEW x \in Session
    PROVE  /\ InvalidateLease(x) \in Session
           /\ ArmLease(x) \in Session
           /\ RetireGeneration(x) \in Session
           /\ Revoke(x) \in Session
           /\ Bind(x) \in Session
<1>1. \A y \in Session : InvalidateLease(y) \in Session
  BY DEF InvalidateLease, Session
<1>2. \A y \in Session : RetireGeneration(y) \in Session
  BY Fields DEF RetireGeneration
<1> QED
  BY <1>1, <1>2, Fields DEF ArmLease, Revoke, Bind

\* Cancelling work keeps every task and changes only its flag.
LEMMA CancelledTasks ==
    ASSUME tasks \subseteq Task, NEW S
    PROVE  Cancelled(S) \subseteq Task
  BY DEF Cancelled, Task

\* Every event a critical section sends keeps connections and screens typed.
LEMMA SendTyped ==
    ASSUME TypeOK, NEW S, Send(S)
    PROVE  link' \in [Conn -> {"up", "ending", "gone"}]
  BY DEF Send, TypeOK

LEMMA ClearTyped ==
    ASSUME TypeOK, NEW S, Clear(S)
    PROVE  /\ link' \in [Conn -> {"up", "ending", "gone"}]
           /\ screen' \in [Sid -> NoneOr(Issued)]
<1>1. link' \in [Conn -> {"up", "ending", "gone"}]
  BY SendTyped DEF Clear
<1>2. 0 \in NoneOr(Issued) /\ screen \in [Sid -> NoneOr(Issued)]
  BY DEF NoneOr, TypeOK
<1> QED
  BY <1>1, <1>2 DEF Clear

LEMMA WithdrawTyped ==
    ASSUME TypeOK, NEW S, Withdraw(S)
    PROVE  /\ tasks' \subseteq Task
           /\ link' \in [Conn -> {"up", "ending", "gone"}]
           /\ screen' \in [Sid -> NoneOr(Issued)]
  BY CancelledTasks, ClearTyped DEF Withdraw, TypeOK

\* While no suggestion is issued the data sets stay the same.
LEMMA SameData ==
    ASSUME issued' = issued
    PROVE  /\ Session' = Session /\ Task' = Task /\ Plan' = Plan
           /\ Offer' = Offer /\ Carry' = Carry /\ Issued' = Issued
           /\ NoneOr(Issued)' = NoneOr(Issued)
  BY DEF Session, Task, Plan, Offer, Carry, Issued, NoneOr

\* A step that issues nothing is type correct if what it changes is.
LEMMA TypedStep ==
    ASSUME TypeOK, UNCHANGED <<issued, offers>>,
           live' \subseteq opened', opened' \subseteq Sid,
           sess' \in [Sid -> Session], tasks' \subseteq Task,
           plans' \subseteq Plan, carry' = carry \/ carry' = NoCarry,
           withheld' \subseteq App, epoch' \in Nat, full' \subseteq Conn,
           link' \in [Conn -> {"up", "ending", "gone"}],
           screen' \in [Sid -> NoneOr(Issued)]
    PROVE  TypeOK'
  BY SameData DEF TypeOK

\* Revoking some sessions keeps all of them session records.
LEMMA RevokeTyped ==
    ASSUME TypeOK, NEW S,
           sess' = [s \in Sid |-> IF s \in S THEN Revoke(sess[s]) ELSE sess[s]]
    PROVE  sess' \in [Sid -> Session]
  BY SessionOps DEF TypeOK

\* So does replacing one.
LEMMA OneTyped ==
    ASSUME TypeOK, NEW s, NEW x \in Session, sess' = [sess EXCEPT ![s] = x]
    PROVE  sess' \in [Sid -> Session]
  BY DEF TypeOK

-----------------------------------------------------------------------------
(* Type correctness                                                        *)

\* Sessions, contexts and leases.
LEMMA TypedSessions ==
    ASSUME TypeOK, NEW s \in Sid,
           \/ \E c \in Coords : OpenSession(s, c)
           \/ CloseSession(s)
           \/ \E c \in Coords, allowed \in BOOLEAN : UpdateContext(s, c, allowed)
           \/ LeaseDue(s) \/ LeaseExpire(s) \/ StrayLease(s)
           \/ CancelSuggestion(s)
    PROVE  TypeOK'
<1> USE TypedStep
<1>0. sess[s] \in Session
  BY DEF TypeOK
<1>1. ASSUME NEW c \in Coords, OpenSession(s, c)
      PROVE  TypeOK'
  <2>1. [Fresh EXCEPT !.coord = c] \in Session
    BY DEF Fresh, Session, NoneOr
  <2>2. sess' \in [Sid -> Session]
    BY <1>1, <2>1, OneTyped DEF OpenSession
  <2> QED
    BY <1>1, <2>2 DEF OpenSession, TypeOK
<1>2. ASSUME CloseSession(s)
      PROVE  TypeOK'
  <2>1. sess' \in [Sid -> Session]
    BY <1>2, RevokeTyped DEF CloseSession, Close
  <2> QED
    BY <1>2, <2>1, WithdrawTyped DEF CloseSession, Close, TypeOK
<1>3. ASSUME NEW c \in Coords, NEW allowed \in BOOLEAN, UpdateContext(s, c, allowed)
      PROVE  TypeOK'
  <2> DEFINE y == [Revoke(sess[s]) EXCEPT !.coord = c, !.seen = TRUE]
  <2>1. y \in Session /\ [ArmLease(y) EXCEPT !.ctx = c] \in Session
    BY <1>0, SessionOps, Fields
  <2>2. sess' \in [Sid -> Session]
    BY <1>3, <2>1, OneTyped DEF UpdateContext
  <2> QED
    BY <1>3, <2>2, WithdrawTyped DEF UpdateContext, TypeOK
<1>4. ASSUME LeaseDue(s)
      PROVE  TypeOK'
  <2>1. sess' \in [Sid -> Session]
    BY <1>0, <1>4, Fields, OneTyped DEF LeaseDue
  <2> QED
    BY <1>4, <2>1 DEF LeaseDue, TypeOK
<1>5. ASSUME LeaseExpire(s)
      PROVE  TypeOK'
  <2>1. [Revoke(sess[s]) EXCEPT !.stray = sess[s].stray] \in Session
    BY <1>0, SessionOps DEF Session
  <2>2. sess' \in [Sid -> Session]
    BY <1>5, <2>1, OneTyped DEF LeaseExpire
  <2> QED
    BY <1>5, <2>2, WithdrawTyped DEF LeaseExpire, TypeOK
<1>6. ASSUME StrayLease(s)
      PROVE  TypeOK'
  <2>1. sess' \in [Sid -> Session]
    BY <1>0, <1>6, Fields, OneTyped DEF StrayLease
  <2> QED
    BY <1>6, <2>1 DEF StrayLease, TypeOK
<1>7. ASSUME CancelSuggestion(s)
      PROVE  TypeOK'
  <2>1. sess' \in [Sid -> Session]
    BY <1>0, <1>7, SessionOps, OneTyped DEF CancelSuggestion
  <2> QED
    BY <1>7, <2>1, WithdrawTyped DEF CancelSuggestion, TypeOK
<1> QED
  BY <1>1, <1>2, <1>3, <1>4, <1>5, <1>6, <1>7

\* Issuing a suggestion only widens the data sets.
LEMMA Widened ==
    ASSUME TypeOK, issued' = issued + 1
    PROVE  /\ Issued \subseteq Issued' /\ issued' \in Issued'
           /\ NoneOr(Issued) \subseteq NoneOr(Issued)' /\ 0 \in NoneOr(Issued)'
           /\ Session \subseteq Session' /\ Task \subseteq Task'
           /\ Plan \subseteq Plan' /\ Offer \subseteq Offer'
<1>1. issued \in Nat
  BY BoundsAssumption DEF TypeOK
<1>2. Issued \subseteq Issued' /\ issued' \in Issued'
  BY <1>1 DEF Issued
<1>3. NoneOr(Issued) \subseteq NoneOr(Issued)' /\ 0 \in NoneOr(Issued)'
  BY <1>2 DEF NoneOr
<1>4. Task \subseteq Task'
  BY <1>3 DEF Task
<1>5. Plan \subseteq Plan'
  BY <1>3 DEF Plan
<1>6. Offer \subseteq Offer'
  BY <1>2, <1>3 DEF Offer
<1>7. Session \subseteq Session'
  BY <1>3 DEF Session
<1> QED
  BY <1>2, <1>3, <1>4, <1>5, <1>6, <1>7

\* The session that shows the suggestion just issued is a session record.
LEMMA ShownTyped ==
    ASSUME TypeOK, issued' = issued + 1, NEW x \in Session
    PROVE  [x EXCEPT !.token = 0, !.list = 0, !.visible = issued + 1] \in Session'
<1> DEFINE y == [[x EXCEPT !.token = 0] EXCEPT !.list = 0]
           I == NoneOr(Issued)'
<1>1. y \in Session'
  BY Fields, Widened
<1>2. issued + 1 \in I
  BY Widened DEF NoneOr
<1>3. [y EXCEPT !.visible = issued + 1] \in Session'
  <2> HIDE DEF I, y
  <2>1. Session' = [coord : Coords, seen : BOOLEAN, ctx : NoneOr(Coords),
                 lease : {"off", "armed", "due"}, stray : BOOLEAN,
                 gen : Nat, token : Nat, visible : I, pending : I, list : I]
    BY DEF Session, I, Coords, NoneOr
  <2> QED
    BY <1>1, <1>2, <2>1
<1>4. [y EXCEPT !.visible = issued + 1]
        = [x EXCEPT !.token = 0, !.list = 0, !.visible = issued + 1]
  BY DEF Session
<1> QED
  BY <1>3, <1>4

\* The step that issues a suggestion.
LEMMA ShowTyped ==
    ASSUME TypeOK, NEW s \in Sid, NEW x \in Session, NEW root \in NoneOr(Issued),
           NEW fund \in NoneOr(1 .. (issued + 1)), NEW correction \in BOOLEAN,
           Show(s, x, root, fund, correction),
           UNCHANGED <<opened, live, withheld, epoch, full>>,
           tasks' \subseteq Task, plans' \subseteq plans
    PROVE  TypeOK'
<1>1. issued' = issued + 1 /\ issued < MaxOffer /\ issued \in Nat
  BY BoundsAssumption DEF Show, TypeOK
<1>2. Issued' = 1 .. (issued + 1) /\ NoneOr(Issued)' = NoneOr(1 .. (issued + 1))
  BY <1>1 DEF Issued, NoneOr
<1> DEFINE id == issued + 1
           keeps == IF root = 0 THEN id ELSE root
           new == [sid |-> s, coord |-> x.coord, gen |-> x.gen, root |-> keeps,
                   fund |-> fund, correction |-> correction, lapsed |-> FALSE,
                   timer |-> "running", spent |-> 0, grant |-> "none"]
<1>3. keeps \in Issued'
  BY <1>1, Widened DEF NoneOr
<1>4. x.coord \in Coords /\ x.gen \in Nat
  BY DEF Session
<1>5. new \in Offer'
  <2> HIDE DEF keeps
  <2> QED
    BY <1>2, <1>3, <1>4 DEF Offer, Coords
<1>6. offers' \in [Issued' -> Offer']
  <2>1. offers' = [i \in 1 .. id |-> IF i # id THEN offers[i] ELSE new]
    BY DEF Show
  <2>2. \A i \in 1 .. id : i # id => offers[i] \in Offer'
    BY <1>1, Widened DEF TypeOK, Issued
  <2> HIDE DEF new, id
  <2>3. 1 .. id = Issued'
    BY <1>2 DEF id
  <2> QED
    BY <1>5, <2>1, <2>2, <2>3
<1>7. sess' \in [Sid -> Session']
  <2>1. sess' = [sess EXCEPT ![s] =
                   [x EXCEPT !.token = 0, !.list = 0, !.visible = issued + 1]]
    BY DEF Show
  <2> QED
    BY <1>1, <2>1, ShownTyped, Widened DEF TypeOK
<1>8. screen' \in [Sid -> NoneOr(Issued)']
  <2>1. issued + 1 \in NoneOr(Issued)'
    BY <1>1, Widened DEF NoneOr
  <2> QED
    BY <1>1, <2>1, Widened DEF Show, TypeOK
<1>9. carry' = NoCarry \/ carry' \in Carry'
  <2>1. AppOf[s] \in App /\ epoch' \in Nat
    BY TargetAssumption DEF TypeOK
  <2> HIDE DEF keeps
  <2>2. carry' = NoCarry \/ carry' = [on |-> TRUE, app |-> AppOf[s],
                         root |-> keeps, fund |-> fund, epoch |-> epoch]
    BY DEF Show, keeps
  <2>3. \A a \in App, r \in Issued', f \in NoneOr(Issued)', e \in Nat :
          [on |-> TRUE, app |-> a, root |-> r, fund |-> f, epoch |-> e] \in Carry'
    <3> DEFINE J == Issued'
               F == NoneOr(Issued)'
               T == {TRUE}
    <3>1. Carry' = [on : T, app : App, root : J, fund : F, epoch : Nat]
      BY DEF Carry, J, F, T
    <3>2. TRUE \in T
      BY DEF T
    <3> HIDE DEF J, F, T
    <3>3. \A t \in T, a \in App, r \in J, f \in F, e \in Nat :
            [on |-> t, app |-> a, root |-> r, fund |-> f, epoch |-> e] \in Carry'
      BY <3>1
    <3> QED
      BY <3>2, <3>3, Zenon DEF J, F
  <2> QED
    BY <1>2, <1>3, <2>1, <2>2, <2>3
<1>10. /\ tasks' \subseteq Task' /\ plans' \subseteq Plan'
       /\ issued' \in 0 .. MaxOffer
  BY <1>1, Widened, BoundsAssumption DEF TypeOK
<1> QED
  BY <1>6, <1>7, <1>8, <1>9, <1>10 DEF TypeOK, Show

LEMMA NewTaskTyped ==
    ASSUME NEW s \in Sid, NEW x \in Session, NEW about \in NoneOr(Issued),
           NEW kind \in {"plain", "generate", "list", "abstain"}
    PROVE  NewTask(s, x, kind, about) \in Task
<1>1. x.coord \in Coords /\ x.gen \in Nat
  BY DEF Session
<1> QED
  BY <1>1 DEF NewTask, Task

LEMMA ShowRefusedTyped ==
    ASSUME TypeOK, NEW s \in Sid, NEW x \in Session, ShowRefused(s, x),
           UNCHANGED <<opened, live, withheld, epoch, full>>,
           tasks' \subseteq Task, plans' \subseteq plans
    PROVE  TypeOK'
<1>1. [x EXCEPT !.token = 0] \in Session
  BY Fields
<1>2. sess' \in [Sid -> Session]
  BY <1>1, OneTyped DEF ShowRefused
<1> QED
  BY <1>2, TypedStep, SendTyped DEF ShowRefused, TypeOK

\* Whatever admission does with an admissible request.
LEMMA AdmitTyped ==
    ASSUME TypeOK, NEW s \in Sid, NEW kind \in {"plain", "generate", "list"},
           NEW about \in NoneOr(Issued),
           \/ AdmitAbstain(s) \/ AdmitCarried(s) \/ AdmitBusy(s)
           \/ AdmitGenerate(s, kind, about) \/ AdmitShow(s, 0, 0),
           UNCHANGED <<opened, live, withheld, epoch, full>>,
           plans' \subseteq plans
    PROVE  TypeOK'
<1> DEFINE x == Bind(sess[s])
<1>0. /\ sess[s] \in Session /\ x \in Session /\ 0 \in NoneOr(Issued)
      /\ x.gen \in Nat
  <2>1. sess[s] \in Session /\ 0 \in NoneOr(Issued)
    BY DEF TypeOK, NoneOr
  <2>2. x \in Session
    BY <2>1, SessionOps
  <2> QED
    BY <2>1, <2>2 DEF Session
<1>1. CASE AdmitAbstain(s)
  <2>1. sess' \in [Sid -> Session]
    BY <1>0, <1>1, OneTyped DEF AdmitAbstain
  <2>2. tasks' \subseteq Task
    BY <1>0, <1>1, CancelledTasks, NewTaskTyped DEF AdmitAbstain, TypeOK
  <2> QED
    BY <1>1, <2>1, <2>2, TypedStep, ClearTyped DEF AdmitAbstain, TypeOK
<1>2. ASSUME NEW root \in NoneOr(Issued), NEW fund \in NoneOr(Issued),
             AdmitShow(s, root, fund)
      PROVE  TypeOK'
  <2>1. tasks' \subseteq Task
    BY <1>2, CancelledTasks DEF AdmitShow, TypeOK
  <2>2. issued \in Nat
    BY BoundsAssumption DEF TypeOK
  <2>3. fund \in NoneOr(1 .. (issued + 1))
    BY <1>2, <2>2 DEF NoneOr, Issued
  <2>4. CASE Show(s, x, root, fund, FALSE)
    BY <1>0, <2>1, <2>2, <2>3, <2>4, ShowTyped
  <2>5. CASE ShowRefused(s, x)
    BY <1>0, <2>1, <2>2, <2>5, ShowRefusedTyped
  <2> QED
    BY <1>2, <2>4, <2>5 DEF AdmitShow
<1>3. CASE AdmitCarried(s)
  <2>1. carry # NoCarry
    BY <1>3 DEF AdmitCarried, NoCarry
  <2>2. carry.root \in NoneOr(Issued) /\ carry.fund \in NoneOr(Issued)
    BY <2>1 DEF TypeOK, Carry, NoneOr
  <2> QED
    BY <1>2, <1>3, <2>2 DEF AdmitCarried
<1>4. CASE AdmitBusy(s)
  <2>1. sess' \in [Sid -> Session]
    BY <1>0, <1>4, SessionOps, OneTyped DEF AdmitBusy
  <2> QED
    BY <1>4, <2>1, TypedStep, WithdrawTyped DEF AdmitBusy, TypeOK
<1>5. CASE AdmitGenerate(s, kind, about)
  <2>1. [x EXCEPT !.token = x.gen] \in Session
    BY <1>0, Fields
  <2>2. sess' \in [Sid -> Session]
    BY <1>5, <2>1, OneTyped DEF AdmitGenerate
  <2>3. tasks' \subseteq Task
    BY <1>0, <1>5, CancelledTasks, NewTaskTyped DEF AdmitGenerate, TypeOK
  <2> QED
    BY <1>5, <2>2, <2>3, TypedStep, ClearTyped DEF AdmitGenerate, TypeOK
<1> QED
  BY <1>0, <1>1, <1>2, <1>3, <1>4, <1>5

\* Requests for suggestions and for alternatives.
LEMMA TypedRequests ==
    ASSUME TypeOK,
           \/ \E s \in Sid : RequestSuggestion(s)
           \/ \E s \in Sid, kind \in Alternatives : AskAlternative(s, kind)
           \/ \E s \in Sid, found \in BOOLEAN : PickAlternative(s, found)
           \/ \E p \in plans : AdmitAlternative(p) \/ RejectAlternative(p)
    PROVE  TypeOK'
<1>0. 0 \in NoneOr(Issued)
  BY DEF NoneOr
<1>1. ASSUME NEW s \in Sid, RequestSuggestion(s)
      PROVE  TypeOK'
  BY <1>0, <1>1, AdmitTyped DEF RequestSuggestion, Admit
<1>2. ASSUME NEW s \in Sid, NEW kind \in Alternatives, AskAlternative(s, kind)
      PROVE  TypeOK'
  <2>1. sess[s] \in Session /\ [sess[s] EXCEPT !.list = 0] \in Session
    BY Fields DEF TypeOK
  <2>2. sess' \in [Sid -> Session]
    BY <1>2, <2>1, OneTyped DEF AskAlternative
  <2>3. sess[s].coord \in Coords /\ sess[s].visible \in NoneOr(Issued)
    BY <2>1 DEF Session
  <2>4. plans' \subseteq Plan
    BY <1>2, <2>3, ChoicesAssumption DEF AskAlternative, Plan
  <2> QED
    BY <1>2, <2>2, <2>4, TypedStep DEF AskAlternative, TypeOK
<1>3. ASSUME NEW s \in Sid, NEW found \in BOOLEAN, PickAlternative(s, found)
      PROVE  TypeOK'
  <2>1. sess[s] \in Session /\ [sess[s] EXCEPT !.list = 0] \in Session
    BY Fields DEF TypeOK
  <2>2. sess' \in [Sid -> Session]
    BY <1>3, <2>1, OneTyped DEF PickAlternative
  <2>3. sess[s].coord \in Coords /\ sess[s].list \in NoneOr(Issued)
    BY <2>1 DEF Session
  <2>4. plans' \subseteq Plan
    BY <1>3, <2>3 DEF PickAlternative, Plan
  <2> QED
    BY <1>3, <2>2, <2>4, TypedStep DEF PickAlternative, TypeOK
<1>4. ASSUME NEW p \in plans, AdmitAlternative(p)
      PROVE  TypeOK'
  <2>1. /\ p.sid \in Sid /\ p.about \in NoneOr(Issued)
        /\ p.kind \in {"show", "generate", "list"}
    BY DEF TypeOK, Plan
  <2> QED
    BY <1>4, <2>1, AdmitTyped DEF AdmitAlternative
<1>5. ASSUME NEW p \in plans, RejectAlternative(p)
      PROVE  TypeOK'
  BY <1>5, TypedStep DEF RejectAlternative, TypeOK
<1> QED
  BY <1>1, <1>2, <1>3, <1>4, <1>5

\* A generation task ends.
LEMMA TypedTasks ==
    ASSUME TypeOK, NEW t \in tasks, TaskEnd(t)
    PROVE  TypeOK'
<1> DEFINE s == t.sid
<1>0. /\ s \in Sid /\ sess[s] \in Session /\ t.about \in NoneOr(Issued)
      /\ 0 \in NoneOr(Issued) /\ tasks \ {t} \subseteq Task /\ issued \in Nat
  BY BoundsAssumption DEF TypeOK, Task, NoneOr
<1>1. /\ [sess EXCEPT ![s].token = 0] \in [Sid -> Session]
      /\ [sess EXCEPT ![s].token = 0, ![s].visible = 0] \in [Sid -> Session]
  <2>1. /\ [sess[s] EXCEPT !.token = 0] \in Session
        /\ [[sess[s] EXCEPT !.token = 0] EXCEPT !.visible = 0] \in Session
    BY <1>0, Fields
  <2> QED
    BY <1>0, <2>1 DEF TypeOK
<1>2. CASE EndCancelled(t)
  BY <1>0, <1>2, TypedStep DEF EndCancelled, Ends, Idle, Unshown, TypeOK
<1>3. CASE EndFailed(t)
  <2>1. sess' \in [Sid -> Session]
    BY <1>1, <1>3 DEF EndFailed, TypeOK
  <2>2. link' \in [Conn -> {"up", "ending", "gone"}]
    BY <1>3, SendTyped DEF EndFailed, TypeOK
  <2> QED
    BY <1>0, <1>3, <2>1, <2>2, TypedStep DEF EndFailed, Ends, Idle, Unshown, TypeOK
<1>4. CASE EndStale(t)
  BY <1>0, <1>4, TypedStep DEF EndStale, Ends, Idle, Unshown, TypeOK
<1>5. CASE EndWithheld(t)
  BY <1>0, <1>1, <1>5, SendTyped, TypedStep
     DEF EndWithheld, Ends, Idle, Unshown, TypeOK
<1>6. ASSUME NEW correction \in BOOLEAN, NEW recorded \in BOOLEAN,
             EndShow(t, correction, recorded)
      PROVE  TypeOK'
  <2> DEFINE fund == IF recorded THEN issued + 1 ELSE 0
  <2>1. fund \in NoneOr(1 .. (issued + 1))
    BY <1>0 DEF NoneOr
  <2>2. /\ UNCHANGED <<opened, live, withheld, epoch, full>>
        /\ tasks' \subseteq Task /\ plans' \subseteq plans
    BY <1>0, <1>6 DEF EndShow, Ends, Idle
  <2>3. \/ Show(s, sess[s], 0, fund, correction)
        \/ ShowRefused(s, sess[s])
    BY <1>6 DEF EndShow
  <2> HIDE DEF fund, s
  <2> QED
    BY <1>0, <2>1, <2>2, <2>3, ShowTyped, ShowRefusedTyped
<1>7. ASSUME NEW valid \in BOOLEAN, EndList(t, valid)
      PROVE  TypeOK'
  <2>1. [sess EXCEPT ![s].token = 0, ![s].list = t.about] \in [Sid -> Session]
    <3>1. /\ [sess[s] EXCEPT !.token = 0] \in Session
          /\ [[sess[s] EXCEPT !.token = 0] EXCEPT !.list = t.about] \in Session
      BY <1>0, Fields
    <3> QED
      BY <1>0, <3>1 DEF TypeOK
  <2>2. sess' \in [Sid -> Session]
    BY <1>7, <2>1 DEF EndList, TypeOK
  <2> QED
    BY <1>0, <1>7, <2>2, SendTyped, TypedStep
       DEF EndList, Ends, Idle, Unshown, TypeOK
<1>8. ASSUME NEW timeout \in BOOLEAN, EndFallback(t, timeout)
      PROVE  TypeOK'
  <2>1. /\ UNCHANGED <<opened, live, withheld, epoch, full>>
        /\ tasks' \subseteq Task /\ plans' \subseteq plans
    BY <1>0, <1>8 DEF EndFallback, Ends, Idle
  <2>2. CASE Unshown /\ UNCHANGED <<sess, link>>
    BY <1>8, <2>1, <2>2, TypedStep DEF EndFallback, Idle, Unshown, TypeOK
  <2>3. CASE Show(s, sess[s], 0, 0, FALSE)
    <3>1. 0 \in NoneOr(1 .. (issued + 1))
      BY DEF NoneOr
    <3> QED
      BY <1>0, <2>1, <2>3, <3>1, ShowTyped
  <2>4. CASE ShowRefused(s, sess[s])
    BY <1>0, <2>1, <2>4, ShowRefusedTyped
  <2>5. CASE /\ sess' = [sess EXCEPT ![s].token = 0]
             /\ Send({s}) /\ Unshown
    BY <1>1, <1>8, <2>1, <2>5, SendTyped, TypedStep
       DEF EndFallback, Idle, Unshown, TypeOK
  <2> QED
    BY <1>8, <2>2, <2>3, <2>4, <2>5 DEF EndFallback
<1> QED
  BY <1>2, <1>3, <1>4, <1>5, <1>6, <1>7, <1>8 DEF TaskEnd

\* A step that changes suggestions but issues none.
LEMMA TypedOffers ==
    ASSUME TypeOK, UNCHANGED <<opened, live, plans, issued, withheld, epoch, full>>,
           offers' \in [Issued -> Offer],
           sess' \in [Sid -> Session], tasks' \subseteq Task,
           carry' \in Carry \cup {carry, NoCarry},
           link' \in [Conn -> {"up", "ending", "gone"}],
           screen' \in [Sid -> NoneOr(Issued)]
    PROVE  TypeOK'
  BY SameData DEF TypeOK

LEMMA ChargeTyped ==
    ASSUME TypeOK, NEW i \in Issued
    PROVE  Charge(i) \in [Issued -> Offer]
<1>1. \A o \in Offer : [o EXCEPT !.spent = @ + 1] \in Offer
  BY DEF Offer
<1> QED
  BY <1>1 DEF Charge, TypeOK

LEMMA CarryAfterTyped ==
    ASSUME TypeOK, NEW kept \in BOOLEAN, NEW recorded \in BOOLEAN
    PROVE  CarryAfter(kept, recorded) \in Carry \cup {carry, NoCarry}
<1>1. CASE carry = NoCarry
  BY <1>1 DEF CarryAfter, NoCarry
<1>2. CASE carry \in Carry
  <2>1. 0 \in NoneOr(Issued)
    BY DEF NoneOr
  <2>2. [carry EXCEPT !.fund = 0] \in Carry
    BY <1>2, <2>1 DEF Carry
  <2> QED
    BY <2>2 DEF CarryAfter
<1> QED
  BY <1>1, <1>2 DEF TypeOK

\* Dismissal and acceptance of the suggestion on offer.
LEMMA TypedControls ==
    ASSUME TypeOK, NEW s \in Sid,
           \/ ControlExpired(s) \/ AcceptRefused(s)
           \/ \E recorded \in BOOLEAN : Dismiss(s, recorded)
           \/ \E word \in BOOLEAN, recorded \in BOOLEAN : Accept(s, word, recorded)
    PROVE  TypeOK'
<1> DEFINE id == sess[s].visible
<1>0. /\ sess[s] \in Session /\ id \in NoneOr(Issued)
      /\ [sess[s] EXCEPT !.visible = 0] \in Session
      /\ [sess EXCEPT ![s].visible = 0] \in [Sid -> Session]
  <2>1. sess[s] \in Session /\ [sess[s] EXCEPT !.visible = 0] \in Session
    BY Fields DEF TypeOK
  <2> QED
    BY <2>1 DEF TypeOK, Session
<1>1. Controllable(s) => id \in Issued
  BY <1>0 DEF Controllable, NoneOr
<1>2. CASE ControlExpired(s)
  <2>1. sess' \in [Sid -> Session]
    BY <1>0, <1>2 DEF ControlExpired
  <2> QED
    BY <1>2, <2>1, ClearTyped, TypedStep DEF ControlExpired, TypeOK
<1>3. CASE AcceptRefused(s)
  <2>1. sess' \in [Sid -> Session]
    BY <1>0, <1>3 DEF AcceptRefused
  <2>2. link' \in [Conn -> {"up", "ending", "gone"}]
    BY <1>3, SendTyped DEF AcceptRefused, TypeOK
  <2> QED
    BY <1>3, <2>1, <2>2, TypedStep DEF AcceptRefused, TypeOK
<1>4. ASSUME NEW recorded \in BOOLEAN, Dismiss(s, recorded)
      PROVE  TypeOK'
  <2>1. sess' \in [Sid -> Session]
    <3>1. [[sess[s] EXCEPT !.visible = 0] EXCEPT !.gen = @ + 1] \in Session
      BY <1>0, Fields
    <3>2. sess' = [sess EXCEPT ![s] =
                      [[sess[s] EXCEPT !.visible = 0] EXCEPT !.gen = @ + 1]]
      BY <1>4 DEF Dismiss, TypeOK
    <3> QED
      BY <3>1, <3>2, OneTyped
  <2>2. offers' \in [Issued -> Offer]
    BY <1>1, <1>4, ChargeTyped DEF Dismiss, TypeOK
  <2> QED
    BY <1>4, <2>1, <2>2, ClearTyped, TypedOffers DEF Dismiss, TypeOK
<1>5. ASSUME NEW word \in BOOLEAN, NEW recorded \in BOOLEAN,
             Accept(s, word, recorded)
      PROVE  TypeOK'
  <2> DEFINE charged == IF recorded THEN Charge(id) ELSE offers
  <2>0. id \in Issued
    BY <1>1, <1>5 DEF Accept
  <2>1. sess' \in [Sid -> Session]
    <3> DEFINE y == [ArmLease(sess[s]) EXCEPT !.visible = 0]
    <3>1. y \in Session
      BY <1>0, SessionOps, Fields
    <3>2. [y EXCEPT !.pending = id] \in Session
      BY <1>0, <3>1, Fields
    <3>3. sess' = [sess EXCEPT ![s] =
                     [ArmLease(sess[s]) EXCEPT !.visible = 0, !.pending = id]]
      BY <1>5 DEF Accept, TypeOK
    <3>4. [ArmLease(sess[s]) EXCEPT !.visible = 0, !.pending = id]
            = [y EXCEPT !.pending = id]
      OBVIOUS
    <3> HIDE DEF y
    <3> QED
      BY <3>2, <3>3, <3>4, OneTyped
  <2>2. charged \in [Issued -> Offer]
    BY <2>0, ChargeTyped DEF TypeOK
  <2>3. offers' = [charged EXCEPT ![id].grant = "running"]
    BY <1>5 DEF Accept
  <2>4. \A o \in Offer : [o EXCEPT !.grant = "running"] \in Offer
    BY DEF Offer
  <2>5. offers' \in [Issued -> Offer]
    <3> HIDE DEF charged
    <3>1. \A f \in [Issued -> Offer], j \in Issued :
            [f EXCEPT ![j].grant = "running"] \in [Issued -> Offer]
      BY <2>4
    <3> QED
      BY <2>0, <2>2, <2>3, <3>1
  <2>6. carry' \in Carry \cup {carry, NoCarry}
    BY <1>5, CarryAfterTyped DEF Accept
  <2>7. 0 \in NoneOr(Issued)
    BY DEF NoneOr
  <2>8. screen' \in [Sid -> NoneOr(Issued)]
    BY <1>5, <2>7 DEF Accept, TypeOK
  <2> QED
    BY <1>5, <2>1, <2>5, <2>6, <2>8, TypedOffers DEF Accept, TypeOK
<1> QED
  BY <1>2, <1>3, <1>4, <1>5

\* The adapter's commit result.
LEMMA TypedCommits ==
    ASSUME TypeOK, NEW s \in Sid,
           \/ CommitApplied(s) \/ CommitDispatched(s)
           \/ CommitRefused(s) \/ CommitLate(s)
    PROVE  TypeOK'
<1> DEFINE x == sess[s]
           settled == [x EXCEPT !.pending = 0]
           dropped == [InvalidateLease(x) EXCEPT !.pending = 0]
<1>0. /\ x \in Session /\ settled \in Session /\ Revoke(settled) \in Session
      /\ dropped \in Session /\ [dropped EXCEPT !.ctx = 0] \in Session
  BY Fields, SessionOps DEF TypeOK
<1>1. CASE CommitApplied(s)
  <2> DEFINE a == [dropped EXCEPT !.gen = @ + 1]
             b == [a EXCEPT !.token = 0]
             c == [b EXCEPT !.ctx = 0]
  <2>1. a \in Session /\ b \in Session /\ c \in Session
    BY <1>0, Fields
  <2>2. [c EXCEPT !.visible = 0] \in Session
    BY <2>1, Fields
  <2>3. sess' = [sess EXCEPT ![s] = Committed(x)]
    BY <1>1 DEF CommitApplied
  <2>4. Committed(x) = [c EXCEPT !.visible = 0]
    BY <1>0, SessionOps DEF Session, Committed
  <2>5. sess' \in [Sid -> Session]
    <3> HIDE DEF a, b, c, x
    <3> QED
      BY <2>2, <2>3, <2>4, OneTyped
  <2> QED
    BY <1>1, <2>5, CancelledTasks, TypedStep DEF CommitApplied, TypeOK
<1>2. CASE CommitDispatched(s)
  <2>1. sess' = [sess EXCEPT ![s] = [dropped EXCEPT !.ctx = 0]]
    BY <1>2 DEF CommitDispatched
  <2>2. sess' \in [Sid -> Session]
    BY <1>0, <2>1, OneTyped
  <2> QED
    BY <1>2, <2>2, TypedStep DEF CommitDispatched, TypeOK
<1>3. CASE CommitRefused(s)
  <2>1. sess' = [sess EXCEPT ![s] = Revoke(settled)]
    BY <1>3 DEF CommitRefused
  <2>2. sess' \in [Sid -> Session]
    BY <1>0, <2>1, OneTyped
  <2>3. 0 \in NoneOr(Issued)
    BY DEF NoneOr
  <2>4. screen' \in [Sid -> NoneOr(Issued)]
    BY <1>3, <2>3 DEF CommitRefused, TypeOK
  <2>5. link' \in [Conn -> {"up", "ending", "gone"}]
    BY <1>3, SendTyped DEF CommitRefused
  <2> QED
    BY <1>3, <2>2, <2>4, <2>5, CancelledTasks, TypedStep DEF CommitRefused, TypeOK
<1>4. CASE CommitLate(s)
  <2>1. sess' = [sess EXCEPT ![s] = settled]
    BY <1>4 DEF CommitLate, TypeOK
  <2>2. sess' \in [Sid -> Session]
    BY <1>0, <2>1, OneTyped
  <2> QED
    BY <1>4, <2>2, SendTyped, TypedStep DEF CommitLate, TypeOK
<1> QED
  BY <1>1, <1>2, <1>3, <1>4

\* Deadlines and the timers that act on them.
LEMMA TypedTimers ==
    ASSUME TypeOK, NEW i \in Issued,
           DeadlinePasses(i) \/ ExpireSuggestion(i) \/ GrantLapses(i) \/ ExpireGrant(i)
    PROVE  TypeOK'
<1> DEFINE s == offers[i].sid
<1>0. /\ s \in Sid /\ sess[s] \in Session
      /\ [sess EXCEPT ![s].visible = 0] \in [Sid -> Session]
      /\ [sess EXCEPT ![s].pending = 0] \in [Sid -> Session]
  <2>1. s \in Sid /\ sess[s] \in Session
    BY DEF TypeOK, Offer
  <2>2. /\ [sess[s] EXCEPT !.visible = 0] \in Session
        /\ [sess[s] EXCEPT !.pending = 0] \in Session
    BY <2>1, Fields
  <2> QED
    BY <2>1, <2>2 DEF TypeOK
<1>1. \A o \in Offer : /\ [o EXCEPT !.lapsed = TRUE] \in Offer
                       /\ [o EXCEPT !.timer = "fired"] \in Offer
                       /\ [o EXCEPT !.grant = "overdue"] \in Offer
                       /\ [o EXCEPT !.grant = "fired"] \in Offer
  BY DEF Offer
<1>2. /\ [offers EXCEPT ![i].lapsed = TRUE] \in [Issued -> Offer]
      /\ [offers EXCEPT ![i].timer = "fired"] \in [Issued -> Offer]
      /\ [offers EXCEPT ![i].grant = "overdue"] \in [Issued -> Offer]
      /\ [offers EXCEPT ![i].grant = "fired"] \in [Issued -> Offer]
  BY <1>1 DEF TypeOK
<1> HIDE DEF s
<1>3. CASE DeadlinePasses(i)
  BY <1>2, <1>3, TypedOffers DEF DeadlinePasses, TypeOK
<1>4. CASE ExpireSuggestion(i)
  <2>1. \/ sess' = [sess EXCEPT ![s].visible = 0] /\ Clear({s})
        \/ UNCHANGED <<sess, link, screen>>
    BY <1>4 DEF ExpireSuggestion, s
  <2>2. /\ sess' \in [Sid -> Session]
        /\ link' \in [Conn -> {"up", "ending", "gone"}]
        /\ screen' \in [Sid -> NoneOr(Issued)]
    BY <1>0, <2>1, ClearTyped DEF TypeOK
  <2> QED
    BY <1>2, <1>4, <2>2, TypedOffers DEF ExpireSuggestion, TypeOK
<1>5. CASE GrantLapses(i)
  BY <1>2, <1>5, TypedOffers DEF GrantLapses, TypeOK
<1>6. CASE ExpireGrant(i)
  <2>1. \/ sess' = [sess EXCEPT ![s].pending = 0] /\ Send({s})
        \/ UNCHANGED <<sess, link>>
    BY <1>6 DEF ExpireGrant, s
  <2>2. /\ sess' \in [Sid -> Session]
        /\ link' \in [Conn -> {"up", "ending", "gone"}]
    BY <1>0, <2>1, SendTyped DEF TypeOK
  <2> QED
    BY <1>2, <1>6, <2>2, TypedOffers DEF ExpireGrant, TypeOK
<1> QED
  BY <1>3, <1>4, <1>5, <1>6

\* Authority switches, connections and their event queues.
LEMMA TypedSwitches ==
    ASSUME TypeOK,
           \/ Switches
           \/ \E c \in Conn : CloseOwned(c) \/ Teardown(c) \/ Fill(c) \/ Drain(c)
    PROVE  TypeOK'
<1>1. ASSUME NEW A \in SUBSET App, Withhold(A)
      PROVE  TypeOK'
  <2>1. sess' \in [Sid -> Session]
    BY <1>1, RevokeTyped DEF Withhold
  <2> QED
    BY <1>1, <2>1, WithdrawTyped, TypedStep DEF Withhold, Publish, TypeOK
<1>2. ASSUME NEW A \in SUBSET App, Release(A)
      PROVE  TypeOK'
  BY <1>2, TypedStep DEF Release, Publish, TypeOK
<1>3. ASSUME NEW A \in SUBSET App, CloseAll(A)
      PROVE  TypeOK'
  <2>1. sess' \in [Sid -> Session]
    BY <1>3, RevokeTyped DEF CloseAll, Close
  <2> QED
    BY <1>3, <2>1, WithdrawTyped, TypedStep DEF CloseAll, Close, Publish, TypeOK
<1>4. ASSUME NEW c \in Conn, CloseOwned(c)
      PROVE  TypeOK'
  <2>1. sess' \in [Sid -> Session]
    BY <1>4, RevokeTyped DEF CloseOwned, Close
  <2> QED
    BY <1>4, <2>1, WithdrawTyped, TypedStep DEF CloseOwned, Close, TypeOK
<1>5. ASSUME NEW c \in Conn, Teardown(c)
      PROVE  TypeOK'
  <2>1. sess' \in [Sid -> Session]
    BY <1>5, RevokeTyped DEF Teardown
  <2>2. 0 \in NoneOr(Issued)
    BY DEF NoneOr
  <2>3. /\ screen' \in [Sid -> NoneOr(Issued)]
        /\ link' \in [Conn -> {"up", "ending", "gone"}]
        /\ live' \subseteq opened
    BY <1>5, <2>2 DEF Teardown, TypeOK
  <2> QED
    BY <1>5, <2>1, <2>3, CancelledTasks, TypedStep DEF Teardown, TypeOK
<1>6. ASSUME NEW c \in Conn, Fill(c) \/ Drain(c)
      PROVE  TypeOK'
  BY <1>6, TypedStep DEF Fill, Drain, TypeOK
<1> QED
  BY <1>1, <1>2, <1>3, <1>4, <1>5, <1>6 DEF Switches

LEMMA TypedInit == Init => TypeOK
<1> SUFFICES ASSUME Init PROVE TypeOK
  OBVIOUS
<1>1. Issued = {} /\ issued \in 0 .. MaxOffer
  BY BoundsAssumption DEF Init, Issued
<1>2. offers \in [Issued -> Offer]
  BY <1>1 DEF Init
<1>3. Fresh \in Session
  BY BoundsAssumption DEF Fresh, Session, Coords, NoneOr
<1>4. 0 \in NoneOr(Issued)
  BY DEF NoneOr
<1> QED
  BY <1>1, <1>2, <1>3, <1>4 DEF Init, TypeOK

LEMMA TypedNext == TypeOK /\ [Next]_vars => TypeOK'
<1> SUFFICES ASSUME TypeOK, [Next]_vars PROVE TypeOK'
  OBVIOUS
<1>1. ASSUME NEW s \in Sid, Client(s) \/ LeaseDue(s) \/ LeaseExpire(s) \/ StrayLease(s)
      PROVE  TypeOK'
  BY <1>1, TypedSessions, TypedRequests, TypedControls, TypedCommits DEF Client
<1>2. ASSUME NEW p \in plans, AdmitAlternative(p) \/ RejectAlternative(p)
      PROVE  TypeOK'
  BY <1>2, TypedRequests
<1>3. CASE UNCHANGED vars
  BY <1>3, TypedStep DEF vars, TypeOK
<1> QED
  BY <1>1, <1>2, <1>3, TypedTasks, TypedTimers, TypedSwitches DEF Next

\* Every state the engine reaches has the types of its structs: whatever a
\* session, a timer or the carry refers to was issued before.
THEOREM TypeCorrect == Spec => []TypeOK
<1>1. Init => TypeOK
  BY TypedInit
<1>2. TypeOK /\ [Next]_vars => TypeOK'
  BY TypedNext
<1> QED
  BY <1>1, <1>2, PTL DEF Spec

-----------------------------------------------------------------------------
(* The inductive invariant                                                 *)

\* What a live session s may hold, given the suggestions O and the withheld
\* apps W: one authority, bound to its context, under a lease.
Sound(s, x, O, W) ==
    /\ x.visible # 0 =>
           /\ O[x.visible].sid = s /\ O[x.visible].gen = x.gen
           /\ O[x.visible].coord = x.coord /\ x.ctx = x.coord
           /\ x.pending = 0 /\ x.token = 0
    /\ x.pending # 0 =>
           /\ O[x.pending].sid = s
           /\ O[x.pending].coord = x.coord /\ x.ctx = x.coord
           /\ x.token = 0
    /\ x.token # 0 => x.ctx # 0 /\ x.token = x.gen
    /\ x.ctx # 0 <=> x.lease # "off"
    /\ AppOf[s] \in W => x.ctx = 0

SessionsSound == \A s \in live : Sound(s, sess[s], offers, withheld)

\* Whose generation a task is, and what becomes of it.
Placed(t) ==
    /\ t.sid \in opened /\ t.gen \in 1 .. sess[t.sid].gen
    /\ t.kind # "abstain" /\ ~t.cancelled =>
           t.sid \in live /\ sess[t.sid].token = t.gen
    /\ t.gen = sess[t.sid].gen =>
           sess[t.sid].visible = 0 /\ sess[t.sid].pending = 0

Apart(T) == \A t \in T, u \in T : t.sid = u.sid /\ t.gen = u.gen => t = u

TasksPlaced == (\A t \in tasks : Placed(t)) /\ Apart(tasks)

Bounded == IsFiniteSet(ProviderTasks) /\ Cardinality(ProviderTasks) <= Slots

IInv ==
    /\ TypeOK
    /\ SessionsSound
    /\ TasksPlaced
    /\ Bounded
    /\ CarryAuthority

\* A session that holds nothing is sound whatever is on offer or withheld.
LEMMA SoundEmpty ==
    ASSUME NEW s, NEW x, NEW O, NEW W,
           x.visible = 0, x.pending = 0, x.token = 0, x.ctx = 0, x.lease = "off"
    PROVE  Sound(s, x, O, W)
  BY DEF Sound

\* What the transitions of a session record leave in it.
LEMMA Retired ==
    ASSUME NEW x \in Session
    PROVE  LET y == RetireGeneration(x)
           IN  /\ y.gen = x.gen + 1 /\ y.token = 0 /\ y.visible = 0 /\ y.pending = 0
               /\ y.coord = x.coord /\ y.ctx = x.ctx /\ y.lease = x.lease
  BY DEF RetireGeneration, Session

LEMMA Unleased ==
    ASSUME NEW x \in Session
    PROVE  LET y == InvalidateLease(x)
           IN  /\ y.lease = "off" /\ y.gen = x.gen /\ y.token = x.token
               /\ y.visible = x.visible /\ y.pending = x.pending
               /\ y.coord = x.coord /\ y.ctx = x.ctx
  BY DEF InvalidateLease, Session

LEMMA Armed ==
    ASSUME NEW x \in Session
    PROVE  LET y == ArmLease(x)
           IN  /\ y.lease = "armed" /\ y.gen = x.gen /\ y.token = x.token
               /\ y.visible = x.visible /\ y.pending = x.pending
               /\ y.coord = x.coord /\ y.ctx = x.ctx
<1> DEFINE z == InvalidateLease(x)
<1>1. z \in Session
  BY SessionOps
<1>2. ArmLease(x) = [z EXCEPT !.lease = "armed"]
  BY DEF ArmLease
<1>3. /\ z.gen = x.gen /\ z.token = x.token
      /\ z.visible = x.visible /\ z.pending = x.pending
      /\ z.coord = x.coord /\ z.ctx = x.ctx
  BY Unleased
<1> HIDE DEF z
<1> QED
  BY <1>1, <1>2, <1>3 DEF Session

LEMMA Revoked ==
    ASSUME NEW x \in Session
    PROVE  LET y == Revoke(x)
           IN  /\ y.gen = x.gen + 1 /\ y.token = 0 /\ y.visible = 0
               /\ y.pending = 0 /\ y.ctx = 0 /\ y.lease = "off"
               /\ y.coord = x.coord
<1> DEFINE z == InvalidateLease(x)
           w == RetireGeneration(z)
<1>1. z \in Session /\ w \in Session
  BY SessionOps
<1>2. Revoke(x) = [w EXCEPT !.ctx = 0]
  BY DEF Revoke
<1>3. /\ w.gen = x.gen + 1 /\ w.token = 0 /\ w.visible = 0 /\ w.pending = 0
      /\ w.coord = x.coord /\ w.lease = "off"
  BY <1>1, Unleased, Retired
<1> HIDE DEF z, w
<1> QED
  BY <1>1, <1>2, <1>3 DEF Session

LEMMA Bound ==
    ASSUME NEW x \in Session
    PROVE  LET y == Bind(x)
           IN  /\ y.gen = x.gen + 2 /\ y.token = 0 /\ y.visible = 0
               /\ y.pending = 0 /\ y.ctx = x.ctx /\ y.lease = "armed"
               /\ y.coord = x.coord
<1> DEFINE z == RetireGeneration(x)
           w == [z EXCEPT !.gen = @ + 1]
<1>1. z \in Session /\ w \in Session
  BY SessionOps, Fields
<1>2. Bind(x) = ArmLease(w)
  BY DEF Bind
<1>3. /\ z.gen = x.gen + 1 /\ z.token = 0 /\ z.visible = 0 /\ z.pending = 0
      /\ z.coord = x.coord /\ z.ctx = x.ctx
  BY Retired
<1>4. /\ w.gen = x.gen + 2 /\ w.token = 0 /\ w.visible = 0 /\ w.pending = 0
      /\ w.coord = x.coord /\ w.ctx = x.ctx
  <2> HIDE DEF z
  <2> QED
    BY <1>1, <1>3 DEF Session
<1> HIDE DEF z, w
<1> QED
  BY <1>1, <1>2, <1>4, Armed

\* The sessions that no step of one session touches stay sound.
LEMMA SoundStep ==
    ASSUME TypeOK, SessionsSound,
           \A i \in Issued : /\ i \in Issued'
                             /\ offers'[i].sid = offers[i].sid
                             /\ offers'[i].gen = offers[i].gen
                             /\ offers'[i].coord = offers[i].coord,
           \A r \in live' :
               \/ Sound(r, sess'[r], offers', withheld')
               \/ /\ r \in live /\ sess'[r] = sess[r]
                  /\ AppOf[r] \in withheld' => AppOf[r] \in withheld
    PROVE  SessionsSound'
<1> SUFFICES ASSUME NEW r \in live', r \in live, sess'[r] = sess[r],
                    AppOf[r] \in withheld' => AppOf[r] \in withheld
             PROVE  Sound(r, sess'[r], offers', withheld')
  BY DEF SessionsSound
<1>1. /\ sess[r].visible # 0 => sess[r].visible \in Issued
      /\ sess[r].pending # 0 => sess[r].pending \in Issued
  BY DEF TypeOK, Session, NoneOr
<1>2. Sound(r, sess[r], offers, withheld)
  BY DEF SessionsSound
<1> QED
  BY <1>1, <1>2 DEF Sound

\* The common case: one session changes and suggestions keep their binding.
LEMMA SoundOne ==
    ASSUME TypeOK, SessionsSound, NEW s \in Sid, NEW x,
           sess' = [sess EXCEPT ![s] = x], live' = live, withheld' = withheld,
           \A i \in Issued : /\ i \in Issued'
                             /\ offers'[i].sid = offers[i].sid
                             /\ offers'[i].gen = offers[i].gen
                             /\ offers'[i].coord = offers[i].coord,
           s \in live => Sound(s, x, offers', withheld)
    PROVE  SessionsSound'
<1>1. sess'[s] = x /\ \A r \in Sid \ {s} : sess'[r] = sess[r]
  BY DEF TypeOK
<1>2. live \subseteq Sid
  BY DEF TypeOK
<1>3. ASSUME NEW r \in live'
      PROVE  \/ Sound(r, sess'[r], offers', withheld')
             \/ /\ r \in live /\ sess'[r] = sess[r]
                /\ AppOf[r] \in withheld' => AppOf[r] \in withheld
  <2>1. CASE r = s
    BY <1>1, <2>1
  <2>2. CASE r # s
    BY <1>1, <1>2, <2>2
  <2> QED
    BY <2>1, <2>2
<1> QED
  BY <1>3, SoundStep

\* Task t has its place in session record x.
Fits(t, x) ==
    /\ t.kind # "abstain" /\ ~t.cancelled => x.token = t.gen
    /\ t.gen = x.gen => x.visible = 0 /\ x.pending = 0

\* Fewer tasks, with one session's generation kept or passed by.
LEMMA TasksKept ==
    ASSUME TypeOK, TasksPlaced, Bounded, NEW s \in Sid, NEW x \in Session',
           sess' = [sess EXCEPT ![s] = x], x.gen >= sess[s].gen,
           live' = live, opened' = opened, tasks' \subseteq tasks,
           \A t \in tasks' : t.sid = s => Fits(t, x)
    PROVE  TasksPlaced' /\ Bounded'
<1>1. sess'[s] = x /\ \A r \in Sid \ {s} : sess'[r] = sess[r]
  BY DEF TypeOK
<1>2. \A t \in tasks' : Placed(t)'
  <2> SUFFICES ASSUME NEW t \in tasks' PROVE Placed(t)'
    OBVIOUS
  <2>1. Placed(t) /\ t.sid \in Sid /\ x.gen \in Nat
    <3>1. x.gen \in Nat
      BY DEF Session
    <3>2. t.sid \in Sid
      BY DEF TypeOK, Task
    <3> QED
      BY <3>1, <3>2 DEF TasksPlaced
  <2>2. CASE t.sid # s
    BY <1>1, <2>1, <2>2 DEF Placed
  <2>3. CASE t.sid = s
    <3>1. t.gen \in 1 .. x.gen
      <4>1. sess[s].gen \in Nat
        BY DEF TypeOK, Session
      <4> QED
        BY <2>1, <2>3, <4>1 DEF Placed
    <3> QED
      BY <1>1, <2>1, <2>3, <3>1 DEF Placed, Fits
  <2> QED
    BY <2>2, <2>3
<1>3. Apart(tasks')
  BY DEF TasksPlaced, Apart
<1>4. Bounded'
  <2>1. ProviderTasks' \subseteq ProviderTasks
    BY DEF ProviderTasks
  <2>2. /\ IsFiniteSet(ProviderTasks')
        /\ Cardinality(ProviderTasks') <= Cardinality(ProviderTasks)
    BY <2>1, FS_Subset DEF Bounded
  <2>3. Cardinality(ProviderTasks) \in Nat /\ Cardinality(ProviderTasks') \in Nat
    BY <2>2, FS_CardinalityType DEF Bounded
  <2> QED
    BY <2>2, <2>3, BoundsAssumption DEF Bounded
<1> QED
  BY <1>2, <1>3, <1>4 DEF TasksPlaced

\* Nothing but other parts of the state change.
LEMMA TasksSame ==
    ASSUME TypeOK, TasksPlaced, Bounded, sess' = sess,
           live' = live, opened' = opened, tasks' \subseteq tasks
    PROVE  TasksPlaced' /\ Bounded'
<1>1. \A t \in tasks' : Placed(t)'
  BY DEF TasksPlaced, Placed
<1>2. Apart(tasks')
  BY DEF TasksPlaced, Apart
<1>3. Bounded'
  <2>1. ProviderTasks' \subseteq ProviderTasks
    BY DEF ProviderTasks
  <2>2. /\ IsFiniteSet(ProviderTasks')
        /\ Cardinality(ProviderTasks') <= Cardinality(ProviderTasks)
    BY <2>1, FS_Subset DEF Bounded
  <2>3. Cardinality(ProviderTasks) \in Nat /\ Cardinality(ProviderTasks') \in Nat
    BY <2>2, FS_CardinalityType DEF Bounded
  <2> QED
    BY <2>2, <2>3, BoundsAssumption DEF Bounded
<1> QED
  BY <1>1, <1>2, <1>3 DEF TasksPlaced

\* The tasks of sessions S that cancellation leaves, and how many.
LEMMA CancelledPlaced ==
    ASSUME TypeOK, TasksPlaced, NEW S, opened' = opened, live \ S \subseteq live',
           \A r \in Sid : /\ r \in S => /\ sess'[r].gen \in Nat
                                        /\ sess'[r].gen > sess[r].gen
                          /\ r \notin S => sess'[r] = sess[r]
    PROVE  /\ \A t \in Cancelled(S) : Placed(t)'
           /\ Apart(Cancelled(S))
           /\ \A t \in Cancelled(S) : t.sid \in S => t.gen <= sess[t.sid].gen
<1> DEFINE After(t) == IF t.sid \in S /\ t.kind # "abstain" /\ t.gen = sess[t.sid].token
                       THEN [t EXCEPT !.cancelled = TRUE] ELSE t
<1>1. Cancelled(S) = {After(t) : t \in tasks}
  BY DEF Cancelled
<1>2. ASSUME NEW t \in tasks, NEW u, u = After(t)
      PROVE  /\ u.sid = t.sid /\ u.gen = t.gen /\ u.kind = t.kind
             /\ Placed(u)'
             /\ t.sid \in Sid /\ t.gen \in 1 .. sess[t.sid].gen
             /\ sess[t.sid].gen \in Nat
  <2>1. t \in Task /\ Placed(t) /\ sess[t.sid].gen \in Nat /\ t.sid \in Sid
    BY DEF TypeOK, TasksPlaced, Session, Task
  <2>2. /\ u.sid = t.sid /\ u.gen = t.gen /\ u.kind = t.kind
    BY <1>2, <2>1 DEF Task
  <2>3. CASE t.sid \notin S
    <3>1. u = t /\ sess'[t.sid] = sess[t.sid]
      BY <1>2, <2>1, <2>3
    <3> QED
      BY <2>1, <2>2, <2>3, <3>1 DEF Placed
  <2>4. CASE t.sid \in S
    <3>1. t.kind # "abstain" /\ ~t.cancelled => t.gen = sess[t.sid].token
      BY <2>1 DEF Placed
    <3>2. t.kind = "abstain" \/ u.cancelled
      <4>1. CASE t.gen = sess[t.sid].token /\ t.kind # "abstain"
        <5>1. u = [t EXCEPT !.cancelled = TRUE]
          BY <1>2, <2>4, <4>1
        <5> QED
          BY <2>1, <5>1 DEF Task
      <4>2. CASE ~(t.gen = sess[t.sid].token /\ t.kind # "abstain")
        BY <1>2, <2>1, <3>1, <4>2
      <4> QED
        BY <4>1, <4>2
    <3>3. sess'[t.sid].gen \in Nat /\ sess'[t.sid].gen > sess[t.sid].gen
      BY <2>1, <2>4
    <3>4. /\ t.gen \in 1 .. sess'[t.sid].gen /\ t.gen # sess'[t.sid].gen
          /\ t.sid \in opened'
      BY <2>1, <3>3 DEF Placed
    <3> HIDE DEF After
    <3> QED
      BY <2>1, <2>2, <3>2, <3>4 DEF Placed
  <2> QED
    BY <2>1, <2>2, <2>3, <2>4 DEF Placed
<1> HIDE DEF After
<1>3. Apart(Cancelled(S))
  <2> SUFFICES ASSUME NEW t \in tasks, NEW u \in tasks,
                      After(t).sid = After(u).sid, After(t).gen = After(u).gen
               PROVE  After(t) = After(u)
    BY <1>1 DEF Apart
  <2>1. t = u
    BY <1>2 DEF TasksPlaced, Apart
  <2> QED
    BY <2>1
<1> QED
  BY <1>1, <1>2, <1>3

LEMMA CancelledBounded ==
    ASSUME TypeOK, Bounded, NEW S
    PROVE  LET P == {t \in Cancelled(S) : t.kind # "abstain"}
           IN  /\ IsFiniteSet(P) /\ Cardinality(P) \in Nat
               /\ Cardinality(ProviderTasks) \in Nat
               /\ Cardinality(P) <= Cardinality(ProviderTasks)
<1> DEFINE After(t) == IF t.sid \in S /\ t.kind # "abstain" /\ t.gen = sess[t.sid].token
                       THEN [t EXCEPT !.cancelled = TRUE] ELSE t
           P == {t \in Cancelled(S) : t.kind # "abstain"}
           f == [t \in ProviderTasks |-> After(t)]
<1>1. Cancelled(S) = {After(t) : t \in tasks}
  BY DEF Cancelled
<1>2. \A t \in tasks : After(t).kind = t.kind
  BY DEF TypeOK, Task
<1> HIDE DEF After
<1>3. f \in Surjection(ProviderTasks, P)
  <2>1. f \in [ProviderTasks -> P]
    BY <1>1, <1>2 DEF ProviderTasks
  <2>2. \A u \in P : \E t \in ProviderTasks : f[t] = u
    BY <1>1, <1>2 DEF ProviderTasks
  <2> QED
    BY <2>1, <2>2 DEF Surjection
<1>4. IsFiniteSet(P) /\ Cardinality(P) <= Cardinality(ProviderTasks)
  BY <1>3, FS_Surjection DEF Bounded
<1> QED
  BY <1>4, FS_CardinalityType DEF Bounded

\* Sessions S are revoked or retired and what they waited for is cancelled.
LEMMA TasksCancelled ==
    ASSUME TypeOK, TasksPlaced, Bounded, NEW S, tasks' = Cancelled(S),
           opened' = opened, live \ S \subseteq live',
           \A r \in Sid : /\ r \in S => /\ sess'[r].gen \in Nat
                                        /\ sess'[r].gen > sess[r].gen
                          /\ r \notin S => sess'[r] = sess[r]
    PROVE  TasksPlaced' /\ Bounded'
<1>1. TasksPlaced'
  BY CancelledPlaced DEF TasksPlaced
<1>2. Bounded'
  <2>1. ProviderTasks' = {t \in Cancelled(S) : t.kind # "abstain"}
    BY DEF ProviderTasks
  <2> QED
    BY <2>1, CancelledBounded, BoundsAssumption DEF Bounded
<1> QED
  BY <1>1, <1>2

\* A session admits a request whose task n replaces what it waited for.
LEMMA TaskAdded ==
    ASSUME TypeOK, TasksPlaced, Bounded, NEW s \in live, NEW y \in Session, NEW n,
           tasks' = Cancelled({s}) \cup {n}, sess' = [sess EXCEPT ![s] = y],
           opened' = opened, live' = live, y.gen > sess[s].gen,
           y.visible = 0, y.pending = 0, n.sid = s, n.gen = y.gen,
           n.kind # "abstain" =>
               y.token = y.gen /\ Cardinality(ProviderTasks) < Slots
    PROVE  TasksPlaced' /\ Bounded'
<1>0. /\ s \in Sid /\ s \in opened /\ sess[s].gen \in Nat /\ y.gen \in Nat
      /\ sess'[s] = y /\ \A r \in Sid \ {s} : sess'[r] = sess[r]
  BY DEF TypeOK, Session
<1>1. /\ \A t \in Cancelled({s}) : Placed(t)'
      /\ Apart(Cancelled({s}))
      /\ \A t \in Cancelled({s}) : t.sid = s => t.gen <= sess[s].gen
  BY <1>0, CancelledPlaced
<1>2. \A t \in tasks' : Placed(t)'
  <2>1. Placed(n)'
    BY <1>0 DEF Placed
  <2> QED
    BY <1>1, <2>1
<1>3. Apart(tasks')
  <2>1. \A t \in Cancelled({s}) : ~(t.sid = n.sid /\ t.gen = n.gen)
    <3> SUFFICES ASSUME NEW t \in Cancelled({s}), t.sid = s, t.gen = y.gen
                 PROVE  FALSE
      OBVIOUS
    <3>1. t.gen <= sess[s].gen
      BY <1>1
    <3> QED
      BY <1>0, <3>1
  <2> QED
    BY <1>1, <2>1 DEF Apart
<1>4. Bounded'
  <2> DEFINE P == {t \in Cancelled({s}) : t.kind # "abstain"}
  <2>1. /\ IsFiniteSet(P) /\ Cardinality(P) \in Nat
        /\ Cardinality(ProviderTasks) \in Nat
        /\ Cardinality(P) <= Cardinality(ProviderTasks)
    BY CancelledBounded
  <2>2. CASE n.kind = "abstain"
    <3>1. ProviderTasks' = P
      BY <2>2 DEF ProviderTasks
    <3> QED
      BY <2>1, <3>1, BoundsAssumption DEF Bounded
  <2>3. CASE n.kind # "abstain"
    <3>1. ProviderTasks' = P \cup {n}
      BY <2>3 DEF ProviderTasks
    <3> HIDE DEF P
    <3>2. /\ IsFiniteSet(P \cup {n})
          /\ Cardinality(P \cup {n}) = IF n \in P THEN Cardinality(P)
                                       ELSE Cardinality(P) + 1
      BY <2>1, FS_AddElement
    <3>3. Cardinality(P \cup {n}) <= Slots
      BY <2>1, <2>3, <3>2, BoundsAssumption
    <3> QED
      BY <3>1, <3>2, <3>3 DEF Bounded
  <2> QED
    BY <2>2, <2>3
<1> QED
  BY <1>2, <1>3, <1>4 DEF TasksPlaced

-----------------------------------------------------------------------------
(* The invariant is inductive                                              *)

\* The part of the invariant that sessions and tasks share.
Kept == SessionsSound /\ TasksPlaced /\ Bounded

\* Sessions S are revoked; some of them may be removed.
LEMMA KeptRevoked ==
    ASSUME IInv, NEW S, tasks' = Cancelled(S), UNCHANGED <<opened, offers, issued>>,
           live \ S \subseteq live', live' \subseteq live,
           sess' = [s \in Sid |-> IF s \in S THEN Revoke(sess[s]) ELSE sess[s]],
           \A r \in live' \ S : AppOf[r] \in withheld' => AppOf[r] \in withheld
    PROVE  Kept'
<1>1. ASSUME NEW r \in Sid
      PROVE  /\ r \in S => /\ sess'[r].gen \in Nat
                           /\ sess'[r].gen > sess[r].gen
                           /\ Sound(r, sess'[r], offers', withheld')
             /\ r \notin S => sess'[r] = sess[r]
  <2>1. sess[r] \in Session /\ sess[r].gen \in Nat
    BY DEF IInv, TypeOK, Session
  <2>2. /\ r \in S => sess'[r] = Revoke(sess[r])
        /\ r \notin S => sess'[r] = sess[r]
    OBVIOUS
  <2> QED
    BY <2>1, <2>2, Revoked, SoundEmpty
<1>2. TasksPlaced' /\ Bounded'
  BY <1>1, TasksCancelled DEF IInv
<1>3. SessionsSound'
  <2>1. live \subseteq Sid /\ Issued' = Issued
    BY DEF IInv, TypeOK, Issued
  <2> QED
    BY <1>1, <2>1, SoundStep DEF IInv
<1> QED
  BY <1>2, <1>3 DEF Kept

\* One session passes to a later generation that holds nothing.
LEMMA KeptEmptied ==
    ASSUME IInv, NEW s \in Sid, NEW x, sess' = [sess EXCEPT ![s] = x],
           tasks' = Cancelled({s}),
           UNCHANGED <<opened, live, offers, issued, withheld>>,
           x.gen \in Nat, x.gen > sess[s].gen,
           s \in live => Sound(s, x, offers, withheld)
    PROVE  Kept'
<1>1. sess'[s] = x /\ \A r \in Sid \ {s} : sess'[r] = sess[r]
  BY DEF IInv, TypeOK
<1>2. TasksPlaced' /\ Bounded'
  BY <1>1, TasksCancelled DEF IInv
<1>3. SessionsSound'
  BY SoundOne DEF IInv, Issued
<1> QED
  BY <1>2, <1>3 DEF Kept

\* One session gives up some of what it holds and stays in its generation.
LEMMA KeptLess ==
    ASSUME IInv, NEW s \in Sid, NEW x \in Session',
           sess' = [sess EXCEPT ![s] = x],
           x.gen = sess[s].gen, x.token = sess[s].token,
           x.visible \in {0, sess[s].visible}, x.pending \in {0, sess[s].pending},
           UNCHANGED <<opened, live, tasks, issued, withheld>>,
           \A i \in Issued : /\ offers'[i].sid = offers[i].sid
                             /\ offers'[i].gen = offers[i].gen
                             /\ offers'[i].coord = offers[i].coord,
           s \in live => Sound(s, x, offers', withheld)
    PROVE  Kept'
<1>1. TasksPlaced' /\ Bounded'
  <2>1. x.gen >= sess[s].gen
    BY DEF IInv, TypeOK, Session
  <2>2. ASSUME NEW t \in tasks', t.sid = s
        PROVE  Fits(t, x)
    <3>1. Placed(t)
      BY DEF IInv, TasksPlaced
    <3> QED
      BY <2>2, <3>1 DEF Placed, Fits
  <2> QED
    BY <2>1, <2>2, TasksKept DEF IInv
<1>2. SessionsSound'
  BY SoundOne DEF IInv, Issued
<1> QED
  BY <1>1, <1>2 DEF Kept

LEMMA KeptOpened ==
    ASSUME IInv, NEW s \in Sid, NEW c \in Coords, OpenSession(s, c)
    PROVE  Kept'
<1> DEFINE x == [Fresh EXCEPT !.coord = c]
<1>1. /\ x.visible = 0 /\ x.pending = 0 /\ x.token = 0 /\ x.ctx = 0
      /\ x.lease = "off"
  BY DEF Fresh
<1>2. /\ s \notin opened /\ live' = live \cup {s} /\ opened' = opened \cup {s}
      /\ sess' = [sess EXCEPT ![s] = x]
      /\ UNCHANGED <<tasks, offers, issued, withheld>>
  BY DEF OpenSession
<1>3. \A r \in Sid \ {s} : sess'[r] = sess[r]
  BY <1>2 DEF IInv, TypeOK
<1>4. sess'[s] = x /\ live \subseteq Sid
  BY <1>2 DEF IInv, TypeOK
<1> HIDE DEF x
<1>5. SessionsSound'
  <2>1. \A r \in live' : \/ Sound(r, sess'[r], offers', withheld')
                         \/ /\ r \in live /\ sess'[r] = sess[r]
                            /\ AppOf[r] \in withheld' => AppOf[r] \in withheld
    BY <1>1, <1>2, <1>3, <1>4, SoundEmpty
  <2> QED
    BY <1>2, <2>1, SoundStep DEF IInv, Issued
<1>6. TasksPlaced'
  <2>1. ASSUME NEW t \in tasks
        PROVE  Placed(t)'
    <3>1. Placed(t) /\ t.sid \in Sid /\ t.sid # s
      BY <1>2 DEF IInv, TasksPlaced, Placed, TypeOK, Task
    <3> QED
      BY <1>2, <1>3, <3>1 DEF Placed
  <2> QED
    BY <1>2, <2>1 DEF IInv, TasksPlaced
<1>7. Bounded'
  BY <1>2 DEF IInv, Bounded, ProviderTasks
<1> QED
  BY <1>5, <1>6, <1>7 DEF Kept

\* Sessions, contexts and leases.
LEMMA KeptSessions ==
    ASSUME IInv, NEW s \in Sid,
           \/ \E c \in Coords : OpenSession(s, c)
           \/ CloseSession(s)
           \/ \E c \in Coords, allowed \in BOOLEAN : UpdateContext(s, c, allowed)
           \/ LeaseDue(s) \/ LeaseExpire(s) \/ StrayLease(s)
           \/ CancelSuggestion(s)
    PROVE  Kept'
<1> DEFINE x == sess[s]
<1>0. /\ x \in Session /\ x.gen \in Nat
      /\ s \in live => Sound(s, x, offers, withheld)
      /\ UNCHANGED issued => Session' = Session
  BY SameData DEF IInv, TypeOK, Session, SessionsSound
<1>1. CASE \E c \in Coords : OpenSession(s, c)
  BY <1>1, KeptOpened
<1>2. CASE CloseSession(s)
  BY <1>2, KeptRevoked DEF CloseSession, Close, Withdraw
<1>3. ASSUME NEW c \in Coords, NEW allowed \in BOOLEAN, UpdateContext(s, c, allowed)
      PROVE  Kept'
  <2> DEFINE y == [Revoke(x) EXCEPT !.coord = c, !.seen = TRUE]
             z == [ArmLease(y) EXCEPT !.ctx = c]
             new == IF allowed THEN z ELSE y
  <2>1. /\ y \in Session /\ y.gen = x.gen + 1 /\ y.token = 0 /\ y.visible = 0
        /\ y.pending = 0 /\ y.ctx = 0 /\ y.lease = "off"
    <3>1. Revoke(x) \in Session /\ y \in Session
      BY <1>0, SessionOps, Fields
    <3> QED
      BY <1>0, <3>1, Revoked DEF Session
  <2> HIDE DEF y
  <2>2. /\ z.gen = x.gen + 1 /\ z.token = 0 /\ z.visible = 0
        /\ z.pending = 0 /\ z.ctx = c /\ z.lease = "armed"
    <3>1. ArmLease(y) \in Session
      BY <2>1, SessionOps
    <3> QED
      BY <2>1, <3>1, Armed DEF Session
  <2>3. AppOf[s] \notin withheld /\ c # 0
    <3>1. DataAccess(s)
      BY <1>3 DEF UpdateContext
    <3>2. c # 0
      BY BoundsAssumption DEF Coords
    <3> QED
      BY <3>1, <3>2 DEF DataAccess
  <2> HIDE DEF z
  <2>4. Sound(s, new, offers, withheld) /\ new.gen = x.gen + 1
    BY <2>1, <2>2, <2>3 DEF Sound
  <2>5. sess' = [sess EXCEPT ![s] = new]
    BY <1>3 DEF UpdateContext, y, z
  <2>6. new.gen \in Nat /\ new.gen > sess[s].gen
    BY <1>0, <2>4
  <2>7. /\ UNCHANGED <<opened, live, offers, issued, withheld>>
        /\ tasks' = Cancelled({s})
    BY <1>3 DEF UpdateContext, Withdraw
  <2> HIDE DEF new
  <2> QED
    BY <2>4, <2>5, <2>6, <2>7, KeptEmptied
<1>4. CASE LeaseDue(s)
  <2> DEFINE y == [x EXCEPT !.lease = "due"]
  <2>0. y \in Session
    BY <1>0, Fields
  <2>1. /\ y.gen = x.gen /\ y.token = x.token /\ y.ctx = x.ctx
        /\ y.visible = x.visible /\ y.pending = x.pending
        /\ y.coord = x.coord /\ y.lease = "due"
    BY <1>0 DEF Session
  <2>2. sess' = [sess EXCEPT ![s] = y]
    BY <1>4 DEF LeaseDue
  <2>3. Sound(s, y, offers, withheld)
    BY <1>0, <1>4, <2>1 DEF Sound, LeaseDue
  <2> HIDE DEF y
  <2> QED
    BY <1>0, <1>4, <2>0, <2>1, <2>2, <2>3, KeptLess DEF LeaseDue
<1>5. CASE LeaseExpire(s)
  <2> DEFINE y == [Revoke(x) EXCEPT !.stray = x.stray]
  <2>1. /\ y.gen = x.gen + 1 /\ y.token = 0 /\ y.visible = 0
        /\ y.pending = 0 /\ y.ctx = 0 /\ y.lease = "off"
    <3>1. Revoke(x) \in Session
      BY <1>0, SessionOps
    <3> QED
      BY <1>0, <3>1, Revoked DEF Session
  <2>2. sess' = [sess EXCEPT ![s] = y]
    BY <1>5 DEF LeaseExpire
  <2> HIDE DEF y
  <2>3. Sound(s, y, offers, withheld)
    BY <2>1, SoundEmpty
  <2>4. y.gen \in Nat /\ y.gen > sess[s].gen
    BY <1>0, <2>1
  <2>5. /\ UNCHANGED <<opened, live, offers, issued, withheld>>
        /\ tasks' = Cancelled({s})
    BY <1>5 DEF LeaseExpire, Withdraw
  <2> QED
    BY <2>2, <2>3, <2>4, <2>5, KeptEmptied
<1>6. CASE StrayLease(s)
  <2> DEFINE y == [x EXCEPT !.stray = FALSE]
  <2>0. y \in Session
    BY <1>0, Fields
  <2>1. /\ y.gen = x.gen /\ y.token = x.token /\ y.ctx = x.ctx
        /\ y.visible = x.visible /\ y.pending = x.pending
        /\ y.coord = x.coord /\ y.lease = x.lease
    BY <1>0 DEF Session
  <2>2. sess' = [sess EXCEPT ![s] = y]
    BY <1>6 DEF StrayLease
  <2>3. Sound(s, y, offers, withheld)
    BY <1>0, <1>6, <2>1 DEF Sound, StrayLease
  <2> HIDE DEF y
  <2> QED
    BY <1>0, <1>6, <2>0, <2>1, <2>2, <2>3, KeptLess DEF StrayLease
<1>7. CASE CancelSuggestion(s)
  <2> DEFINE y == RetireGeneration(x)
  <2>1. sess' = [sess EXCEPT ![s] = y]
    BY <1>7 DEF CancelSuggestion
  <2>2. /\ y.gen = x.gen + 1 /\ y.token = 0 /\ y.visible = 0 /\ y.pending = 0
        /\ y.coord = x.coord /\ y.ctx = x.ctx /\ y.lease = x.lease
    BY <1>0, Retired
  <2> HIDE DEF y
  <2>3. Sound(s, y, offers, withheld)
    BY <1>0, <1>7, <2>2 DEF Sound, CancelSuggestion
  <2>4. y.gen \in Nat /\ y.gen > sess[s].gen
    BY <1>0, <2>2
  <2>5. /\ UNCHANGED <<opened, live, offers, issued, withheld>>
        /\ tasks' = Cancelled({s})
    BY <1>7 DEF CancelSuggestion, Withdraw
  <2> QED
    BY <2>1, <2>3, <2>4, <2>5, KeptEmptied
<1> QED
  BY <1>1, <1>2, <1>3, <1>4, <1>5, <1>6, <1>7

\* What showing leaves of the session record x it is given.
LEMMA Shown ==
    ASSUME TypeOK, issued' = issued + 1, NEW x \in Session
    PROVE  LET y == [x EXCEPT !.token = 0, !.list = 0, !.visible = issued + 1]
           IN  /\ y \in Session' /\ y.gen = x.gen /\ y.token = 0
               /\ y.visible = issued + 1 /\ y.pending = x.pending
               /\ y.coord = x.coord /\ y.ctx = x.ctx /\ y.lease = x.lease
  BY ShownTyped DEF Session

\* A session shows a suggestion: it is sound, and so are the others.
LEMMA SoundShown ==
    ASSUME IInv, NEW s \in live, NEW x \in Session, NEW root, NEW fund,
           NEW correction, Show(s, x, root, fund, correction),
           x.ctx = x.coord, x.lease # "off", x.pending = 0,
           AppOf[s] \notin withheld, live' = live, withheld' = withheld
    PROVE  SessionsSound'
<1> DEFINE y == [x EXCEPT !.token = 0, !.list = 0, !.visible = issued + 1]
<1>1. /\ issued' = issued + 1 /\ issued \in Nat /\ s \in Sid /\ TypeOK
      /\ sess' = [sess EXCEPT ![s] = y]
  BY BoundsAssumption DEF Show, IInv, TypeOK
<1>2. /\ y.gen = x.gen /\ y.token = 0 /\ y.visible = issued + 1
      /\ y.pending = 0 /\ y.coord = x.coord /\ y.ctx = x.coord
      /\ y.lease # "off" /\ x.coord # 0
  <2>1. x.coord # 0
    BY BoundsAssumption DEF Session, Coords
  <2> QED
    BY <1>1, <2>1, Shown
<1>3. /\ offers'[issued + 1].sid = s /\ offers'[issued + 1].gen = x.gen
      /\ offers'[issued + 1].coord = x.coord
  BY <1>1 DEF Show
<1>4. \A i \in Issued : i \in Issued' /\ offers'[i] = offers[i]
  BY <1>1 DEF Show, Issued
<1> HIDE DEF y
<1>5. Sound(s, y, offers', withheld)
  BY <1>1, <1>2, <1>3 DEF Sound
<1> QED
  BY <1>1, <1>4, <1>5, SoundOne DEF IInv

\* Whatever admission does with an admissible request.
LEMMA KeptAdmit ==
    ASSUME IInv, NEW s \in Sid, Admissible(s),
           NEW kind \in {"plain", "generate", "list"}, NEW about,
           \/ AdmitAbstain(s) \/ AdmitCarried(s) \/ AdmitBusy(s)
           \/ AdmitGenerate(s, kind, about) \/ AdmitShow(s, 0, 0),
           UNCHANGED <<opened, live, withheld>>
    PROVE  Kept'
<1> DEFINE x == Bind(sess[s])
<1>0. /\ TypeOK /\ s \in live /\ AppOf[s] \notin withheld
      /\ sess[s].ctx = sess[s].coord /\ sess[s].ctx # 0
      /\ sess[s] \in Session /\ x \in Session /\ sess[s].gen \in Nat
  <2>1. /\ TypeOK /\ s \in live /\ AppOf[s] \notin withheld
        /\ sess[s].ctx = sess[s].coord /\ sess[s].ctx # 0
    BY DEF IInv, Admissible, DataAccess
  <2>2. sess[s] \in Session
    BY DEF IInv, TypeOK
  <2> QED
    BY <2>1, <2>2, SessionOps DEF Session
<1>1. /\ x.gen = sess[s].gen + 2 /\ x.token = 0 /\ x.visible = 0
      /\ x.pending = 0 /\ x.ctx = x.coord /\ x.lease = "armed" /\ x.ctx # 0
      /\ x.gen \in Nat /\ x.gen > sess[s].gen
  BY <1>0, Bound
<1>2. CASE AdmitAbstain(s)
  <2> DEFINE n == NewTask(s, x, "abstain", 0)
  <2>1. /\ sess' = [sess EXCEPT ![s] = x] /\ tasks' = Cancelled({s}) \cup {n}
        /\ UNCHANGED <<offers, issued>>
    BY <1>2 DEF AdmitAbstain
  <2>2. n.sid = s /\ n.gen = x.gen /\ n.kind = "abstain"
    BY DEF NewTask
  <2> HIDE DEF n, x
  <2>3. Sound(s, x, offers, withheld)
    BY <1>0, <1>1 DEF Sound
  <2>4. TasksPlaced' /\ Bounded'
    BY <1>0, <1>1, <2>1, <2>2, TaskAdded DEF IInv
  <2>5. SessionsSound'
    BY <1>0, <2>1, <2>3, SoundOne DEF IInv, Issued
  <2> QED
    BY <2>4, <2>5 DEF Kept
<1>3. ASSUME NEW root, NEW fund, AdmitShow(s, root, fund)
      PROVE  Kept'
  <2>1. tasks' = Cancelled({s}) /\ (Show(s, x, root, fund, FALSE) \/ ShowRefused(s, x))
    BY <1>3 DEF AdmitShow
  <2> HIDE DEF x
  <2>2. CASE Show(s, x, root, fund, FALSE)
    <3> DEFINE y == [x EXCEPT !.token = 0, !.list = 0, !.visible = issued + 1]
    <3>1. SessionsSound'
      BY <1>0, <1>1, <2>2, SoundShown
    <3>2. issued' = issued + 1 /\ sess' = [sess EXCEPT ![s] = y]
      BY <2>2 DEF Show
    <3>3. y.gen = x.gen
      BY <1>0, <3>2, Shown
    <3> HIDE DEF y
    <3>4. sess'[s].gen = x.gen /\ \A r \in Sid \ {s} : sess'[r] = sess[r]
      BY <1>0, <3>2, <3>3 DEF TypeOK
    <3>5. TasksPlaced' /\ Bounded'
      BY <1>0, <1>1, <2>1, <3>4, TasksCancelled DEF IInv
    <3> QED
      BY <3>1, <3>5 DEF Kept
  <2>3. CASE ShowRefused(s, x)
    <3> DEFINE y == [x EXCEPT !.token = 0]
    <3>1. /\ y.gen = x.gen /\ y.token = 0 /\ y.visible = 0 /\ y.pending = 0
          /\ y.coord = x.coord /\ y.ctx = x.ctx /\ y.lease = "armed"
      BY <1>0, <1>1 DEF Session
    <3>2. sess' = [sess EXCEPT ![s] = y] /\ UNCHANGED <<offers, issued>>
      BY <2>3 DEF ShowRefused
    <3> HIDE DEF y
    <3>3. Sound(s, y, offers, withheld)
      BY <1>0, <1>1, <3>1 DEF Sound
    <3> QED
      BY <1>0, <1>1, <2>1, <3>1, <3>2, <3>3, KeptEmptied
  <2> QED
    BY <2>1, <2>2, <2>3
<1>4. CASE AdmitCarried(s)
  BY <1>3, <1>4 DEF AdmitCarried
<1>5. CASE AdmitBusy(s)
  <2> DEFINE y == RetireGeneration(sess[s])
  <2>1. /\ sess' = [sess EXCEPT ![s] = y] /\ tasks' = Cancelled({s})
        /\ UNCHANGED <<offers, issued>>
    BY <1>5 DEF AdmitBusy, Withdraw
  <2>2. /\ y.gen = sess[s].gen + 1 /\ y.token = 0 /\ y.visible = 0
        /\ y.pending = 0 /\ y.ctx = sess[s].ctx /\ y.lease = sess[s].lease
    BY <1>0, Retired
  <2>3. y.gen \in Nat /\ y.gen > sess[s].gen
    BY <1>0, <2>2
  <2> HIDE DEF y, x
  <2>4. Sound(s, y, offers, withheld)
    <3>1. Sound(s, sess[s], offers, withheld)
      BY <1>0 DEF IInv, SessionsSound
    <3> QED
      BY <1>0, <2>2, <3>1 DEF Sound
  <2> QED
    BY <2>1, <2>3, <2>4, KeptEmptied
<1>6. CASE AdmitGenerate(s, kind, about)
  <2> DEFINE n == NewTask(s, x, kind, about)
             y == [x EXCEPT !.token = x.gen]
  <2>1. /\ sess' = [sess EXCEPT ![s] = y] /\ tasks' = Cancelled({s}) \cup {n}
        /\ UNCHANGED <<offers, issued>> /\ Cardinality(ProviderTasks) < Slots
    BY <1>6 DEF AdmitGenerate
  <2>2. n.sid = s /\ n.gen = x.gen
    BY DEF NewTask
  <2>3. /\ y \in Session /\ y.gen = x.gen /\ y.token = x.gen /\ y.visible = 0
        /\ y.pending = 0 /\ y.coord = x.coord /\ y.ctx = x.ctx /\ y.lease = "armed"
    <3>1. y \in Session
      BY <1>0, <1>1, Fields
    <3> HIDE DEF x
    <3> QED
      BY <1>0, <1>1, <3>1 DEF Session
  <2> HIDE DEF n, x, y
  <2>4. Sound(s, y, offers, withheld)
    BY <1>0, <1>1, <2>3 DEF Sound
  <2>5. TasksPlaced' /\ Bounded'
    BY <1>0, <1>1, <2>1, <2>2, <2>3, TaskAdded DEF IInv
  <2>6. SessionsSound'
    BY <1>0, <2>1, <2>4, SoundOne DEF IInv, Issued
  <2> QED
    BY <2>5, <2>6 DEF Kept
<1> QED
  BY <1>2, <1>3, <1>4, <1>5, <1>6

\* Requests for suggestions and for alternatives.
LEMMA KeptRequests ==
    ASSUME IInv,
           \/ \E s \in Sid : RequestSuggestion(s)
           \/ \E s \in Sid, kind \in Alternatives : AskAlternative(s, kind)
           \/ \E s \in Sid, found \in BOOLEAN : PickAlternative(s, found)
           \/ \E p \in plans : AdmitAlternative(p) \/ RejectAlternative(p)
    PROVE  Kept'
<1>1. ASSUME NEW s \in Sid, RequestSuggestion(s)
      PROVE  Kept'
  BY <1>1, KeptAdmit DEF RequestSuggestion, Admit
<1>2. ASSUME NEW s \in Sid,
             \/ \E kind \in Alternatives : AskAlternative(s, kind)
             \/ \E found \in BOOLEAN : PickAlternative(s, found)
      PROVE  Kept'
  <2> DEFINE x == sess[s]
             y == [x EXCEPT !.list = 0]
  <2>1. /\ sess' = [sess EXCEPT ![s] = y]
        /\ UNCHANGED <<opened, live, tasks, offers, issued, withheld>>
    BY <1>2 DEF AskAlternative, PickAlternative
  <2>2. x \in Session /\ y \in Session /\ Session' = Session
    BY <2>1, Fields, SameData DEF IInv, TypeOK
  <2>3. /\ y.gen = x.gen /\ y.token = x.token /\ y.ctx = x.ctx
        /\ y.visible = x.visible /\ y.pending = x.pending
        /\ y.coord = x.coord /\ y.lease = x.lease
    BY <2>2 DEF Session
  <2>4. s \in live => Sound(s, x, offers, withheld)
    BY DEF IInv, SessionsSound
  <2> HIDE DEF y
  <2>5. s \in live => Sound(s, y, offers, withheld)
    BY <2>3, <2>4 DEF Sound
  <2> QED
    BY <2>1, <2>2, <2>3, <2>5, KeptLess
<1>3. ASSUME NEW p \in plans, AdmitAlternative(p)
      PROVE  Kept'
  <2>1. p.sid \in Sid /\ p.kind \in {"show", "generate", "list"}
    BY DEF IInv, TypeOK, Plan
  <2> QED
    BY <1>3, <2>1, KeptAdmit DEF AdmitAlternative
<1>4. ASSUME NEW p \in plans, RejectAlternative(p)
      PROVE  Kept'
  <2>1. UNCHANGED <<sess, live, opened, tasks, offers, issued, withheld>>
    BY <1>4 DEF RejectAlternative
  <2>2. TasksPlaced' /\ Bounded'
    BY <2>1, TasksSame DEF IInv
  <2>3. SessionsSound'
    BY <2>1 DEF IInv, SessionsSound
  <2> QED
    BY <2>2, <2>3 DEF Kept
<1> QED
  BY <1>1, <1>2, <1>3, <1>4

\* The task of a session's current generation ends: no other task is left
\* that the session's record speaks of.
LEMMA TaskFinished ==
    ASSUME IInv, NEW t \in tasks, t.sid \in live, sess[t.sid].gen = t.gen,
           NEW y \in Session', y.gen = sess[t.sid].gen,
           sess' = [sess EXCEPT ![t.sid] = y], tasks' = tasks \ {t},
           live' = live, opened' = opened
    PROVE  TasksPlaced' /\ Bounded'
<1>1. /\ t.sid \in Sid /\ y.gen >= sess[t.sid].gen /\ TypeOK
      /\ sess[t.sid].gen \in Nat /\ Sound(t.sid, sess[t.sid], offers, withheld)
  <2>1. t.sid \in Sid /\ sess[t.sid].gen \in Nat
    BY DEF IInv, TypeOK, Task, Session
  <2> QED
    BY <2>1 DEF IInv, SessionsSound
<1>2. ASSUME NEW u \in tasks', u.sid = t.sid
      PROVE  Fits(u, y)
  <2>1. Placed(u) /\ u.gen # t.gen
    BY <1>2 DEF IInv, TasksPlaced, Apart
  <2>2. u.kind # "abstain" /\ ~u.cancelled => sess[t.sid].token = u.gen /\ u.gen # 0
    BY <1>1, <1>2, <2>1 DEF Placed
  <2> QED
    BY <1>1, <1>2, <2>1, <2>2 DEF Sound, Fits
<1>3. tasks' \subseteq tasks /\ TasksPlaced /\ Bounded
  BY DEF IInv
<1>4. ASSUME NEW s \in Sid, s = t.sid
      PROVE  TasksPlaced' /\ Bounded'
  <2>1. sess' = [sess EXCEPT ![s] = y] /\ y.gen >= sess[s].gen
    BY <1>1, <1>4
  <2>2. \A u \in tasks' : u.sid = s => Fits(u, y)
    BY <1>2, <1>4
  <2> QED
    BY <1>1, <1>3, <2>1, <2>2, TasksKept
<1> QED
  BY <1>1, <1>4

\* A generation task ends.
LEMMA KeptTasks ==
    ASSUME IInv, NEW t \in tasks, TaskEnd(t)
    PROVE  Kept'
<1> DEFINE s == t.sid
           x == sess[s]
<1>0. /\ TypeOK /\ s \in Sid /\ x \in Session /\ Placed(t)
      /\ s \in live => Sound(s, x, offers, withheld)
  <2>1. s \in Sid /\ Placed(t)
    BY DEF IInv, TypeOK, Task, TasksPlaced
  <2> QED
    BY <2>1 DEF IInv, TypeOK, SessionsSound
<1>1. ASSUME UNCHANGED <<sess, live, opened, offers, issued, withheld>>,
             tasks' = tasks \ {t}
      PROVE  Kept'
  <2>1. TasksPlaced' /\ Bounded'
    BY <1>1, TasksSame DEF IInv
  <2>2. SessionsSound'
    BY <1>1 DEF IInv, SessionsSound
  <2> QED
    BY <2>1, <2>2 DEF Kept
<1>2. ASSUME NEW y \in Session, s \in live, x.gen = t.gen, y.gen = x.gen,
             sess' = [sess EXCEPT ![s] = y], tasks' = tasks \ {t},
             UNCHANGED <<live, opened, offers, issued, withheld>>,
             Sound(s, y, offers, withheld)
      PROVE  Kept'
  <2>1. Session' = Session
    BY <1>2, SameData
  <2>2. TasksPlaced' /\ Bounded'
    BY <1>2, <2>1, TaskFinished
  <2>3. SessionsSound'
    BY <1>0, <1>2, SoundOne DEF IInv, Issued
  <2> QED
    BY <2>2, <2>3 DEF Kept
<1>3. Awaiting(t) => /\ s \in live /\ x.gen = t.gen /\ x.ctx = x.coord
                     /\ AppOf[s] \notin withheld /\ x.lease # "off"
                     /\ x.pending = 0 /\ x.visible = 0
  <2> SUFFICES ASSUME Awaiting(t)
               PROVE  /\ s \in live /\ x.gen = t.gen /\ x.ctx = x.coord
                      /\ AppOf[s] \notin withheld /\ x.lease # "off"
                      /\ x.pending = 0 /\ x.visible = 0
    OBVIOUS
  <2>1. /\ s \in live /\ x.gen = t.gen /\ x.ctx = x.coord
        /\ AppOf[s] \notin withheld
    BY DEF Awaiting, DataAccess
  <2>2. x.coord # 0
    BY <1>0, BoundsAssumption DEF Session, Coords
  <2> QED
    BY <1>0, <2>1, <2>2 DEF Sound, Placed
<1>4. ASSUME Awaiting(t), sess' = [sess EXCEPT ![s].token = 0],
             tasks' = tasks \ {t},
             UNCHANGED <<live, opened, offers, issued, withheld>>
      PROVE  Kept'
  <2> DEFINE y == [x EXCEPT !.token = 0]
  <2>0. y \in Session
    BY <1>0, Fields
  <2>1. /\ y.gen = x.gen /\ y.token = 0 /\ y.visible = x.visible
        /\ y.pending = x.pending /\ y.coord = x.coord /\ y.ctx = x.ctx
        /\ y.lease = x.lease
    BY <1>0 DEF Session
  <2>2. sess' = [sess EXCEPT ![s] = y]
    BY <1>4
  <2> HIDE DEF y
  <2>3. Sound(s, y, offers, withheld)
    BY <1>0, <1>3, <1>4, <2>1 DEF Sound
  <2> QED
    BY <1>2, <1>3, <1>4, <2>0, <2>1, <2>2, <2>3
<1>5. ASSUME NEW fund, NEW correction, Awaiting(t),
             Show(s, x, 0, fund, correction), tasks' = tasks \ {t},
             UNCHANGED <<live, opened, withheld>>
      PROVE  Kept'
  <2> DEFINE y == [x EXCEPT !.token = 0, !.list = 0, !.visible = issued + 1]
  <2>1. issued' = issued + 1 /\ sess' = [sess EXCEPT ![s] = y]
    BY <1>5 DEF Show
  <2>2. y \in Session' /\ y.gen = x.gen
    BY <1>0, <2>1, Shown
  <2>3. SessionsSound'
    BY <1>0, <1>3, <1>5, SoundShown
  <2> HIDE DEF y
  <2>4. TasksPlaced' /\ Bounded'
    BY <1>3, <1>5, <2>1, <2>2, TaskFinished
  <2> QED
    BY <2>3, <2>4 DEF Kept
<1>6. CASE EndCancelled(t)
  BY <1>1, <1>6 DEF EndCancelled, Ends, Idle, Unshown
<1>7. CASE EndFailed(t)
  <2> DEFINE y == [x EXCEPT !.token = 0, !.visible = 0]
  <2>1. /\ tasks' = tasks \ {t}
        /\ UNCHANGED <<live, opened, offers, issued, withheld>>
    BY <1>7 DEF EndFailed, Ends, Idle, Unshown
  <2>2. CASE UNCHANGED sess
    BY <1>1, <2>1, <2>2
  <2>3. CASE s \in live /\ x.gen = t.gen /\ sess' = [sess EXCEPT ![s] = y]
    <3>1. y \in Session
      <4>1. [[x EXCEPT !.token = 0] EXCEPT !.visible = 0] \in Session
        BY <1>0, Fields
      <4> QED
        BY <4>1
    <3>2. /\ y.gen = x.gen /\ y.token = 0 /\ y.visible = 0
          /\ y.pending = x.pending /\ y.coord = x.coord /\ y.ctx = x.ctx
          /\ y.lease = x.lease
      BY <1>0 DEF Session
    <3> HIDE DEF y
    <3>3. Sound(s, y, offers, withheld)
      BY <1>0, <2>3, <3>2 DEF Sound
    <3> QED
      BY <1>2, <2>1, <2>3, <3>1, <3>2, <3>3
  <2>4. \/ UNCHANGED sess
        \/ s \in live /\ x.gen = t.gen /\ sess' = [sess EXCEPT ![s] = y]
    <3>1. [sess EXCEPT ![s].token = 0, ![s].visible = 0] = [sess EXCEPT ![s] = y]
      BY <1>0 DEF TypeOK
    <3> QED
      BY <1>7, <3>1 DEF EndFailed
  <2> QED
    BY <2>2, <2>3, <2>4
<1>8. CASE EndStale(t)
  BY <1>1, <1>8 DEF EndStale, Ends, Idle, Unshown
<1>9. CASE EndWithheld(t)
  BY <1>4, <1>9 DEF EndWithheld, Ends, Idle, Unshown
<1>10. ASSUME ShowRefused(s, x), Awaiting(t), tasks' = tasks \ {t},
              UNCHANGED <<live, opened, withheld>>
       PROVE  Kept'
  BY <1>4, <1>10 DEF ShowRefused
<1>11. ASSUME NEW correction \in BOOLEAN, NEW recorded \in BOOLEAN,
              EndShow(t, correction, recorded)
       PROVE  Kept'
  BY <1>5, <1>10, <1>11 DEF EndShow, Ends, Idle
<1>12. ASSUME NEW valid \in BOOLEAN, EndList(t, valid)
       PROVE  Kept'
  <2> DEFINE y == [x EXCEPT !.token = 0, !.list = t.about]
  <2>1. /\ tasks' = tasks \ {t} /\ Awaiting(t)
        /\ UNCHANGED <<live, opened, offers, issued, withheld>>
    BY <1>12 DEF EndList, Ends, Idle, Unshown
  <2>2. CASE UNCHANGED sess
    BY <1>1, <2>1, <2>2
  <2>3. CASE sess' = [sess EXCEPT ![s] = y]
    <3>1. y \in Session
      <4>1. t.about \in NoneOr(Issued)
        BY <1>0 DEF TypeOK, Task
      <4>2. [[x EXCEPT !.token = 0] EXCEPT !.list = t.about] \in Session
        BY <1>0, <4>1, Fields
      <4> QED
        BY <4>2
    <3>2. /\ y.gen = x.gen /\ y.token = 0 /\ y.visible = x.visible
          /\ y.pending = x.pending /\ y.coord = x.coord /\ y.ctx = x.ctx
          /\ y.lease = x.lease
      BY <1>0 DEF Session
    <3> HIDE DEF y
    <3>3. Sound(s, y, offers, withheld)
      BY <1>0, <1>3, <2>1, <3>2 DEF Sound
    <3> QED
      BY <1>2, <1>3, <2>1, <2>3, <3>1, <3>2, <3>3
  <2>4. [sess EXCEPT ![s].token = 0, ![s].list = t.about] = [sess EXCEPT ![s] = y]
    BY <1>0 DEF TypeOK
  <2> QED
    BY <1>12, <2>2, <2>3, <2>4 DEF EndList
<1>13. ASSUME NEW timeout \in BOOLEAN, EndFallback(t, timeout)
       PROVE  Kept'
  <2>1. tasks' = tasks \ {t} /\ UNCHANGED <<live, opened, withheld>>
    BY <1>13 DEF EndFallback, Ends, Idle
  <2>2. \/ UNCHANGED <<sess, offers, issued>>
        \/ Awaiting(t) /\ Show(s, x, 0, 0, FALSE)
        \/ Awaiting(t) /\ ShowRefused(s, x)
        \/ /\ Awaiting(t) /\ sess' = [sess EXCEPT ![s].token = 0]
           /\ UNCHANGED <<offers, issued>>
    BY <1>13 DEF EndFallback, Unshown
  <2> QED
    BY <1>1, <1>4, <1>5, <1>10, <2>1, <2>2
<1> QED
  BY <1>6, <1>7, <1>8, <1>9, <1>11, <1>12, <1>13 DEF TaskEnd

\* Dismissal and acceptance of the suggestion on offer.
LEMMA KeptControls ==
    ASSUME IInv, NEW s \in Sid,
           \/ ControlExpired(s) \/ AcceptRefused(s)
           \/ \E recorded \in BOOLEAN : Dismiss(s, recorded)
           \/ \E word \in BOOLEAN, recorded \in BOOLEAN : Accept(s, word, recorded)
    PROVE  Kept'
<1> DEFINE x == sess[s]
           id == x.visible
           y == [x EXCEPT !.visible = 0]
<1>0. /\ TypeOK /\ x \in Session /\ x.gen \in Nat /\ y \in Session
      /\ s \in live /\ id # 0 /\ Sound(s, x, offers, withheld) /\ id \in Issued
  <2>1. x \in Session /\ TypeOK
    BY DEF IInv, TypeOK
  <2>2. s \in live /\ id # 0
    BY DEF ControlExpired, AcceptRefused, Dismiss, Accept, Controllable, DataAccess
  <2>3. Sound(s, x, offers, withheld)
    BY <2>2 DEF IInv, SessionsSound
  <2>4. x.gen \in Nat /\ id \in Issued
    BY <2>1, <2>2 DEF Session, NoneOr
  <2> QED
    BY <2>1, <2>2, <2>3, <2>4, Fields
<1>1. /\ y.gen = x.gen /\ y.token = 0 /\ x.token = 0 /\ y.visible = 0
      /\ y.pending = 0 /\ x.pending = 0 /\ y.coord = x.coord /\ y.ctx = x.ctx
      /\ x.ctx = x.coord /\ y.lease = x.lease
  BY <1>0 DEF Session, Sound
<1>2. \A O : Sound(s, y, O, withheld)
  BY <1>0, <1>1 DEF Sound
<1>3. CASE ControlExpired(s) \/ AcceptRefused(s)
  <2>1. /\ sess' = [sess EXCEPT ![s] = y]
        /\ UNCHANGED <<opened, live, tasks, offers, issued, withheld>>
    BY <1>3 DEF ControlExpired, AcceptRefused
  <2>2. Session' = Session
    BY <2>1, SameData
  <2> HIDE DEF y
  <2> QED
    BY <1>0, <1>1, <1>2, <2>1, <2>2, KeptLess
<1>4. \A i \in Issued : /\ Charge(id)[i].sid = offers[i].sid
                        /\ Charge(id)[i].gen = offers[i].gen
                        /\ Charge(id)[i].coord = offers[i].coord
  BY <1>0 DEF Charge, TypeOK, Offer
<1>5. ASSUME NEW recorded \in BOOLEAN, Dismiss(s, recorded)
      PROVE  Kept'
  <2> DEFINE z == [y EXCEPT !.gen = @ + 1]
  <2>1. /\ UNCHANGED <<opened, live, tasks, issued, withheld>>
        /\ offers' = IF recorded THEN Charge(id) ELSE offers
    BY <1>5 DEF Dismiss
  <2>2. sess' = [sess EXCEPT ![s] = z]
    BY <1>0, <1>5 DEF Dismiss, TypeOK
  <2>3. /\ z \in Session /\ z.gen = x.gen + 1 /\ z.token = 0 /\ z.visible = 0
        /\ z.pending = 0 /\ z.coord = x.coord /\ z.ctx = x.ctx /\ z.lease = x.lease
    <3>1. z \in Session
      BY <1>0, Fields
    <3> HIDE DEF y
    <3> QED
      BY <1>0, <1>1, <3>1 DEF Session
  <2> HIDE DEF z
  <2>4. Sound(s, z, offers', withheld)
    BY <1>0, <2>3 DEF Sound
  <2>5. \A i \in Issued : /\ offers'[i].sid = offers[i].sid
                          /\ offers'[i].gen = offers[i].gen
                          /\ offers'[i].coord = offers[i].coord
    BY <1>4, <2>1
  <2>6. SessionsSound'
    BY <1>0, <2>1, <2>2, <2>4, <2>5, SoundOne DEF IInv, Issued
  <2>7. ASSUME NEW t \in tasks', t.sid = s
        PROVE  Fits(t, z)
    <3>1. Placed(t) /\ t.gen # z.gen
      BY <1>0, <2>1, <2>3, <2>7 DEF IInv, TasksPlaced, Placed
    <3>2. t.gen # 0
      BY <1>0, <2>7, <3>1 DEF Placed
    <3> QED
      BY <1>1, <2>7, <3>1, <3>2 DEF Placed, Fits
  <2>8. z.gen >= x.gen /\ z \in Session'
    BY <1>0, <2>1, <2>3, SameData
  <2>9. TasksPlaced' /\ Bounded'
    BY <1>0, <2>1, <2>2, <2>7, <2>8, TasksKept DEF IInv
  <2> QED
    BY <2>6, <2>9 DEF Kept
<1>6. ASSUME NEW word \in BOOLEAN, NEW recorded \in BOOLEAN,
             Accept(s, word, recorded)
      PROVE  Kept'
  <2> DEFINE a == ArmLease(x)
             b == [a EXCEPT !.visible = 0]
             z == [b EXCEPT !.pending = id]
             charged == IF recorded THEN Charge(id) ELSE offers
  <2>1. /\ UNCHANGED <<opened, live, tasks, issued, withheld>>
        /\ offers' = [charged EXCEPT ![id].grant = "running"]
    BY <1>6 DEF Accept
  <2>2. /\ a \in Session /\ a.gen = x.gen /\ a.token = 0 /\ a.coord = x.coord
        /\ a.ctx = x.ctx /\ a.lease = "armed"
    BY <1>0, <1>1, SessionOps, Armed
  <2>3. b \in Session /\ z \in Session
    BY <1>0, <2>2, Fields DEF NoneOr
  <2>4. sess' = [sess EXCEPT ![s] = [a EXCEPT !.visible = 0, !.pending = id]]
    BY <1>6 DEF Accept
  <2> HIDE DEF a
  <2>5. /\ z.gen = x.gen /\ z.token = 0 /\ z.visible = 0 /\ z.pending = id
        /\ z.coord = x.coord /\ z.ctx = x.ctx /\ z.lease = "armed"
        /\ [a EXCEPT !.visible = 0, !.pending = id] = z
    BY <2>2 DEF Session
  <2>6. charged \in [Issued -> Offer]
    BY <1>0, ChargeTyped DEF TypeOK
  <2>7. \A i \in Issued : /\ charged[i].sid = offers[i].sid
                          /\ charged[i].gen = offers[i].gen
                          /\ charged[i].coord = offers[i].coord
    BY <1>4
  <2> HIDE DEF charged, z
  <2>8. \A i \in Issued : /\ offers'[i].sid = offers[i].sid
                          /\ offers'[i].gen = offers[i].gen
                          /\ offers'[i].coord = offers[i].coord
    BY <1>0, <2>1, <2>6, <2>7 DEF Offer
  <2>9. Sound(s, z, offers', withheld)
    <3>1. x.coord # 0
      BY <1>0, BoundsAssumption DEF Session, Coords
    <3>2. offers'[id].sid = s /\ offers'[id].coord = x.coord
      BY <1>0, <2>8 DEF Sound
    <3> QED
      BY <1>0, <1>1, <2>5, <3>1, <3>2 DEF Sound
  <2>10. SessionsSound'
    BY <1>0, <2>1, <2>4, <2>5, <2>8, <2>9, SoundOne DEF IInv, Issued
  <2>11. ASSUME NEW t \in tasks', t.sid = s
         PROVE  Fits(t, z)
    <3>1. Placed(t)
      BY <2>1 DEF IInv, TasksPlaced
    <3>2. t.gen # 0 /\ t.gen # x.gen
      BY <1>0, <2>11, <3>1 DEF Placed
    <3> QED
      BY <1>1, <2>5, <2>11, <3>1, <3>2 DEF Placed, Fits
  <2>12. z.gen >= x.gen /\ z \in Session'
    BY <1>0, <2>1, <2>3, <2>5, SameData
  <2>13. TasksPlaced' /\ Bounded'
    BY <1>0, <2>1, <2>4, <2>5, <2>11, <2>12, TasksKept DEF IInv
  <2> QED
    BY <2>10, <2>13 DEF Kept
<1> QED
  BY <1>3, <1>5, <1>6

\* The adapter's commit result.
LEMMA KeptCommits ==
    ASSUME IInv, NEW s \in Sid,
           \/ CommitApplied(s) \/ CommitDispatched(s)
           \/ CommitRefused(s) \/ CommitLate(s)
    PROVE  Kept'
<1> DEFINE x == sess[s]
           settled == [x EXCEPT !.pending = 0]
<1>0. /\ TypeOK /\ x \in Session /\ x.gen \in Nat /\ s \in live
      /\ x.pending # 0 /\ x.visible = 0 /\ x.token = 0
      /\ Sound(s, x, offers, withheld) /\ settled \in Session
  <2>1. x \in Session /\ TypeOK
    BY DEF IInv, TypeOK
  <2>2. s \in live /\ x.pending # 0
    BY DEF CommitApplied, CommitDispatched, CommitRefused, CommitLate
  <2>3. Sound(s, x, offers, withheld)
    BY <2>2 DEF IInv, SessionsSound
  <2> QED
    BY <2>1, <2>2, <2>3, Fields DEF Session, Sound
<1>1. /\ settled.gen = x.gen /\ settled.token = 0 /\ settled.visible = 0
      /\ settled.pending = 0 /\ settled.coord = x.coord
      /\ settled.ctx = x.ctx /\ settled.lease = x.lease
  BY <1>0 DEF Session
<1>2. CASE CommitApplied(s)
  <2> DEFINE z == Committed(x)
  <2>1. /\ sess' = [sess EXCEPT ![s] = z] /\ tasks' = Cancelled({s})
        /\ UNCHANGED <<opened, live, offers, issued, withheld>>
    BY <1>2 DEF CommitApplied
  <2>2. /\ z.gen = x.gen + 1 /\ z.token = 0 /\ z.visible = 0 /\ z.pending = 0
        /\ z.ctx = 0 /\ z.lease = "off"
    <3> DEFINE w == InvalidateLease(x)
    <3>1. w \in Session /\ w.lease = "off" /\ w.gen = x.gen
      BY <1>0, SessionOps, Unleased
    <3>2. z = [w EXCEPT !.pending = 0, !.gen = @ + 1, !.token = 0,
                        !.ctx = 0, !.visible = 0]
      BY DEF Committed
    <3> HIDE DEF w, z
    <3> QED
      BY <3>1, <3>2 DEF Session
  <2> HIDE DEF z
  <2>3. z.gen \in Nat /\ z.gen > x.gen
    BY <1>0, <2>2
  <2>4. Sound(s, z, offers, withheld)
    BY <2>2, SoundEmpty
  <2> QED
    BY <2>1, <2>3, <2>4, KeptEmptied
<1>3. CASE CommitDispatched(s)
  <2> DEFINE w == InvalidateLease(x)
             z == [w EXCEPT !.pending = 0, !.ctx = 0]
  <2>1. /\ sess' = [sess EXCEPT ![s] = z]
        /\ UNCHANGED <<opened, live, tasks, offers, issued, withheld>>
    BY <1>3 DEF CommitDispatched
  <2>2. /\ w \in Session /\ w.gen = x.gen /\ w.token = 0 /\ w.visible = 0
        /\ w.lease = "off"
    BY <1>0, SessionOps, Unleased
  <2>3. z \in Session
    <3>1. [[w EXCEPT !.pending = 0] EXCEPT !.ctx = 0] \in Session
      BY <2>2, Fields
    <3> QED
      BY <3>1
  <2> HIDE DEF w
  <2>4. /\ z.gen = x.gen /\ z.token = 0 /\ z.visible = 0 /\ z.pending = 0
        /\ z.ctx = 0 /\ z.lease = "off"
    BY <2>2 DEF Session
  <2> HIDE DEF z
  <2>5. Sound(s, z, offers, withheld)
    BY <2>4, SoundEmpty
  <2>6. Session' = Session
    BY <2>1, SameData
  <2> QED
    BY <1>0, <2>1, <2>3, <2>4, <2>5, <2>6, KeptLess
<1>4. CASE CommitRefused(s)
  <2> DEFINE z == Revoke(settled)
  <2>1. /\ sess' = [sess EXCEPT ![s] = z] /\ tasks' = Cancelled({s})
        /\ UNCHANGED <<opened, live, offers, issued, withheld>>
    BY <1>4 DEF CommitRefused
  <2> HIDE DEF settled
  <2>2. /\ z.gen = x.gen + 1 /\ z.token = 0 /\ z.visible = 0 /\ z.pending = 0
        /\ z.ctx = 0 /\ z.lease = "off"
    BY <1>0, <1>1, Revoked
  <2> HIDE DEF z
  <2>3. z.gen \in Nat /\ z.gen > x.gen
    BY <1>0, <2>2
  <2>4. Sound(s, z, offers, withheld)
    BY <2>2, SoundEmpty
  <2> QED
    BY <2>1, <2>3, <2>4, KeptEmptied
<1>5. CASE CommitLate(s)
  <2>1. /\ sess' = [sess EXCEPT ![s] = settled]
        /\ UNCHANGED <<opened, live, tasks, offers, issued, withheld>>
    BY <1>5 DEF CommitLate
  <2>2. Session' = Session
    BY <2>1, SameData
  <2> HIDE DEF settled
  <2>3. Sound(s, settled, offers, withheld)
    BY <1>0, <1>1 DEF Sound
  <2> QED
    BY <1>0, <1>1, <2>1, <2>2, <2>3, KeptLess
<1> QED
  BY <1>2, <1>3, <1>4, <1>5

\* Deadlines and the timers that act on them.
LEMMA KeptTimers ==
    ASSUME IInv, NEW i \in Issued,
           DeadlinePasses(i) \/ ExpireSuggestion(i) \/ GrantLapses(i) \/ ExpireGrant(i)
    PROVE  Kept'
<1> DEFINE s == offers[i].sid
           x == sess[s]
<1>0. /\ TypeOK /\ s \in Sid /\ x \in Session
      /\ s \in live => Sound(s, x, offers, withheld)
      /\ UNCHANGED <<opened, live, tasks, issued, withheld>>
  <2>1. s \in Sid /\ TypeOK
    BY DEF IInv, TypeOK, Offer
  <2>2. UNCHANGED <<opened, live, tasks, issued, withheld>>
    BY DEF DeadlinePasses, ExpireSuggestion, GrantLapses, ExpireGrant
  <2> QED
    BY <2>1, <2>2 DEF IInv, TypeOK, SessionsSound
<1>1. \A j \in Issued : /\ offers'[j].sid = offers[j].sid
                        /\ offers'[j].gen = offers[j].gen
                        /\ offers'[j].coord = offers[j].coord
  <2>1. \A o \in Offer : \A g \in {[o EXCEPT !.lapsed = TRUE],
                                  [o EXCEPT !.timer = "fired"],
                                  [o EXCEPT !.grant = "overdue"],
                                  [o EXCEPT !.grant = "fired"]} :
          g.sid = o.sid /\ g.gen = o.gen /\ g.coord = o.coord
    BY DEF Offer
  <2>2. \/ offers' = [offers EXCEPT ![i] = [offers[i] EXCEPT !.lapsed = TRUE]]
        \/ offers' = [offers EXCEPT ![i] = [offers[i] EXCEPT !.timer = "fired"]]
        \/ offers' = [offers EXCEPT ![i] = [offers[i] EXCEPT !.grant = "overdue"]]
        \/ offers' = [offers EXCEPT ![i] = [offers[i] EXCEPT !.grant = "fired"]]
    <3>1. CASE DeadlinePasses(i)
      BY <3>1 DEF DeadlinePasses
    <3>2. CASE ExpireSuggestion(i)
      BY <3>2 DEF ExpireSuggestion
    <3>3. CASE GrantLapses(i)
      BY <3>3 DEF GrantLapses
    <3>4. CASE ExpireGrant(i)
      BY <3>4 DEF ExpireGrant
    <3> QED
      BY <3>1, <3>2, <3>3, <3>4
  <2>3. PICK g : /\ offers' = [offers EXCEPT ![i] = g]
                 /\ g.sid = offers[i].sid /\ g.gen = offers[i].gen
                 /\ g.coord = offers[i].coord
    <3>1. offers[i] \in Offer
      BY <1>0 DEF TypeOK
    <3>2. \E g \in {[offers[i] EXCEPT !.lapsed = TRUE],
                   [offers[i] EXCEPT !.timer = "fired"],
                   [offers[i] EXCEPT !.grant = "overdue"],
                   [offers[i] EXCEPT !.grant = "fired"]} :
            offers' = [offers EXCEPT ![i] = g]
      BY <2>2, Zenon
    <3> QED
      BY <2>1, <3>1, <3>2, Zenon
  <2> QED
    BY <1>0, <2>3 DEF TypeOK
<1> HIDE DEF s
<1>2. ASSUME NEW y \in Session, sess' = [sess EXCEPT ![s] = y],
             y.gen = x.gen, y.token = x.token, y.coord = x.coord,
             y.ctx = x.ctx, y.lease = x.lease, y.pending \in {0, x.pending},
             y.visible \in {0, x.visible}
      PROVE  Kept'
  <2>1. s \in live => Sound(s, y, offers', withheld)
    <3>1. /\ x.visible # 0 => x.visible \in Issued
          /\ x.pending # 0 => x.pending \in Issued
      BY <1>0 DEF Session, NoneOr
    <3> QED
      BY <1>0, <1>1, <1>2, <3>1 DEF Sound
  <2>2. Session' = Session
    BY <1>0, SameData
  <2> QED
    BY <1>0, <1>1, <1>2, <2>1, <2>2, KeptLess
<1>3. CASE UNCHANGED sess
  <2>1. sess' = [sess EXCEPT ![s] = x]
    BY <1>0, <1>3 DEF TypeOK
  <2> QED
    BY <1>0, <1>2, <2>1
<1>4. CASE sess' = [sess EXCEPT ![s] = [x EXCEPT !.visible = 0]]
  <2> DEFINE y == [x EXCEPT !.visible = 0]
  <2>1. /\ y.gen = x.gen /\ y.token = x.token /\ y.coord = x.coord
        /\ y.ctx = x.ctx /\ y.lease = x.lease /\ y.pending = x.pending
        /\ y.visible = 0
    BY <1>0 DEF Session
  <2>2. y \in Session
    BY <1>0, Fields
  <2> HIDE DEF y
  <2>3. sess' = [sess EXCEPT ![s] = y]
    BY <1>4 DEF y
  <2> QED
    BY <1>2, <2>1, <2>2, <2>3
<1>5. CASE sess' = [sess EXCEPT ![s] = [x EXCEPT !.pending = 0]]
  <2> DEFINE y == [x EXCEPT !.pending = 0]
  <2>1. /\ y.gen = x.gen /\ y.token = x.token /\ y.coord = x.coord
        /\ y.ctx = x.ctx /\ y.lease = x.lease /\ y.pending = 0
        /\ y.visible = x.visible
    BY <1>0 DEF Session
  <2>2. y \in Session
    BY <1>0, Fields
  <2> HIDE DEF y
  <2>3. sess' = [sess EXCEPT ![s] = y]
    BY <1>5 DEF y
  <2> QED
    BY <1>2, <2>1, <2>2, <2>3
<1>6. \/ UNCHANGED sess
      \/ sess' = [sess EXCEPT ![s] = [x EXCEPT !.visible = 0]]
      \/ sess' = [sess EXCEPT ![s] = [x EXCEPT !.pending = 0]]
  BY DEF DeadlinePasses, ExpireSuggestion, GrantLapses, ExpireGrant, s
<1> QED
  BY <1>3, <1>4, <1>5, <1>6

\* Authority switches, connections and their event queues.
LEMMA KeptSwitches ==
    ASSUME IInv,
           \/ Switches
           \/ \E c \in Conn : CloseOwned(c) \/ Teardown(c) \/ Fill(c) \/ Drain(c)
    PROVE  Kept'
<1>1. ASSUME NEW A \in SUBSET App, Withhold(A)
      PROVE  Kept'
  <2> DEFINE S == {s \in live : AppOf[s] \in A}
  <2>1. /\ tasks' = Cancelled(S) /\ UNCHANGED <<opened, live, offers, issued>>
        /\ sess' = [s \in Sid |-> IF s \in S THEN Revoke(sess[s]) ELSE sess[s]]
        /\ withheld' = withheld \cup A
    BY <1>1 DEF Withhold, Withdraw
  <2>2. \A r \in live' \ S : AppOf[r] \in withheld' => AppOf[r] \in withheld
    BY <2>1
  <2> HIDE DEF S
  <2> QED
    BY <2>1, <2>2, KeptRevoked
<1>2. ASSUME NEW A \in SUBSET App, Release(A)
      PROVE  Kept'
  <2>1. /\ UNCHANGED <<sess, live, opened, tasks, offers, issued>>
        /\ withheld' = withheld \ A
    BY <1>2 DEF Release
  <2>2. TasksPlaced' /\ Bounded'
    BY <2>1, TasksSame DEF IInv
  <2>3. SessionsSound'
    BY <2>1, SoundStep DEF IInv, Issued
  <2> QED
    BY <2>2, <2>3 DEF Kept
<1>3. ASSUME NEW A \in SUBSET App, CloseAll(A)
      PROVE  Kept'
  BY <1>3, KeptRevoked DEF CloseAll, Close, Withdraw
<1>4. ASSUME NEW c \in Conn, CloseOwned(c)
      PROVE  Kept'
  BY <1>4, KeptRevoked DEF CloseOwned, Close, Withdraw
<1>5. ASSUME NEW c \in Conn, Teardown(c)
      PROVE  Kept'
  BY <1>5, KeptRevoked DEF Teardown
<1>6. ASSUME NEW c \in Conn, Fill(c) \/ Drain(c)
      PROVE  Kept'
  <2>1. UNCHANGED <<sess, live, opened, tasks, offers, issued, withheld>>
    BY <1>6 DEF Fill, Drain
  <2>2. TasksPlaced' /\ Bounded'
    BY <2>1, TasksSame DEF IInv
  <2>3. SessionsSound'
    BY <2>1 DEF IInv, SessionsSound
  <2> QED
    BY <2>2, <2>3 DEF Kept
<1> QED
  BY <1>1, <1>2, <1>3, <1>4, <1>5, <1>6 DEF Switches

\* The carry is of the current epoch after every step.
LEMMA CarryCurrent ==
    ASSUME IInv, [Next]_vars
    PROVE  CarryAuthority'
<1>1. ASSUME UNCHANGED <<carry, epoch>>
      PROVE  CarryAuthority'
  BY <1>1 DEF IInv, CarryAuthority
<1>2. ASSUME carry' = NoCarry
      PROVE  CarryAuthority'
  BY <1>2 DEF CarryAuthority, NoCarry
<1>3. ASSUME NEW s, NEW x, NEW root, NEW fund, NEW correction,
             Show(s, x, root, fund, correction), UNCHANGED epoch
      PROVE  CarryAuthority'
  <2>1. carry' = NoCarry \/ carry'.epoch = epoch
    BY <1>3 DEF Show
  <2> QED
    BY <1>2, <1>3, <2>1 DEF CarryAuthority
<1>4. ASSUME NEW s, NEW x, ShowRefused(s, x), UNCHANGED epoch
      PROVE  CarryAuthority'
  BY <1>1, <1>4 DEF ShowRefused
<1>5. ASSUME NEW s, NEW root, NEW fund, AdmitShow(s, root, fund), UNCHANGED epoch
      PROVE  CarryAuthority'
  BY <1>3, <1>4, <1>5 DEF AdmitShow
<1>6. ASSUME NEW s, NEW kind, NEW about, UNCHANGED epoch,
             \/ AdmitAbstain(s) \/ AdmitCarried(s) \/ AdmitBusy(s)
             \/ AdmitGenerate(s, kind, about)
      PROVE  CarryAuthority'
  BY <1>1, <1>5, <1>6 DEF AdmitAbstain, AdmitCarried, AdmitBusy, AdmitGenerate
<1>7. ASSUME NEW s \in Sid, Client(s)
      PROVE  CarryAuthority'
  <2>1. CASE RequestSuggestion(s)
    BY <1>6, <2>1 DEF RequestSuggestion, Admit
  <2>2. ASSUME NEW recorded \in BOOLEAN, Dismiss(s, recorded)
        PROVE  CarryAuthority'
    BY <1>2, <2>2 DEF Dismiss
  <2>3. ASSUME NEW word \in BOOLEAN, NEW recorded \in BOOLEAN,
               Accept(s, word, recorded)
        PROVE  CarryAuthority'
    <3>1. carry' = CarryAfter(word, recorded) /\ epoch' = epoch
      BY <2>3 DEF Accept
    <3>2. CASE carry \in Carry
      <4>1. [carry EXCEPT !.fund = 0].epoch = carry.epoch /\ carry.on
        BY <3>2 DEF Carry
      <4>2. carry.epoch = epoch
        BY <4>1 DEF IInv, CarryAuthority
      <4>3. \/ carry' = NoCarry \/ carry' = carry
            \/ carry' = [carry EXCEPT !.fund = 0]
        BY <3>1 DEF CarryAfter
      <4>4. carry' = NoCarry \/ carry'.epoch = epoch
        BY <4>1, <4>2, <4>3
      <4> QED
        BY <1>2, <3>1, <4>4 DEF CarryAuthority
    <3>3. CASE carry = NoCarry
      BY <1>2, <3>1, <3>3 DEF CarryAfter, NoCarry
    <3> QED
      BY <3>2, <3>3 DEF IInv, TypeOK
  <2>4. CASE \/ \E c \in Coords : OpenSession(s, c)
             \/ CloseSession(s)
             \/ \E c \in Coords, allowed \in BOOLEAN : UpdateContext(s, c, allowed)
             \/ CancelSuggestion(s)
    BY <1>1, <2>4 DEF OpenSession, CloseSession, UpdateContext, CancelSuggestion
  <2>5. CASE \/ \E kind \in Alternatives : AskAlternative(s, kind)
             \/ \E found \in BOOLEAN : PickAlternative(s, found)
             \/ ControlExpired(s) \/ AcceptRefused(s)
    BY <1>1, <2>5 DEF AskAlternative, PickAlternative, ControlExpired, AcceptRefused
  <2>6. CASE \/ CommitApplied(s) \/ CommitDispatched(s)
             \/ CommitRefused(s) \/ CommitLate(s)
    BY <1>1, <2>6 DEF CommitApplied, CommitDispatched, CommitRefused, CommitLate
  <2> QED
    BY <1>7, <2>1, <2>2, <2>3, <2>4, <2>5, <2>6 DEF Client
<1>8. ASSUME NEW s \in Sid, LeaseDue(s) \/ LeaseExpire(s) \/ StrayLease(s)
      PROVE  CarryAuthority'
  BY <1>1, <1>8 DEF LeaseDue, LeaseExpire, StrayLease
<1>9. ASSUME NEW p \in plans, AdmitAlternative(p) \/ RejectAlternative(p)
      PROVE  CarryAuthority'
  <2>1. CASE RejectAlternative(p)
    BY <1>1, <2>1 DEF RejectAlternative
  <2>2. CASE AdmitAlternative(p)
    BY <1>5, <1>6, <2>2 DEF AdmitAlternative
  <2> QED
    BY <1>9, <2>1, <2>2
<1>10. ASSUME NEW t \in tasks, TaskEnd(t)
       PROVE  CarryAuthority'
  <2>1. CASE EndCancelled(t) \/ EndFailed(t) \/ EndStale(t) \/ EndWithheld(t)
    BY <1>1, <2>1 DEF EndCancelled, EndFailed, EndStale, EndWithheld, Idle, Unshown
  <2>2. ASSUME NEW correction \in BOOLEAN, NEW recorded \in BOOLEAN,
               EndShow(t, correction, recorded)
        PROVE  CarryAuthority'
    BY <1>3, <1>4, <2>2 DEF EndShow, Idle
  <2>3. ASSUME NEW valid \in BOOLEAN, EndList(t, valid)
        PROVE  CarryAuthority'
    BY <1>1, <2>3 DEF EndList, Idle, Unshown
  <2>4. ASSUME NEW timeout \in BOOLEAN, EndFallback(t, timeout)
        PROVE  CarryAuthority'
    BY <1>1, <1>3, <1>4, <2>4 DEF EndFallback, Idle, Unshown
  <2> QED
    BY <1>10, <2>1, <2>2, <2>3, <2>4 DEF TaskEnd
<1>11. ASSUME NEW i \in Issued,
              \/ DeadlinePasses(i) \/ ExpireSuggestion(i)
              \/ GrantLapses(i) \/ ExpireGrant(i)
       PROVE  CarryAuthority'
  BY <1>1, <1>11 DEF DeadlinePasses, ExpireSuggestion, GrantLapses, ExpireGrant
<1>12. ASSUME NEW c \in Conn,
              CloseOwned(c) \/ Teardown(c) \/ Fill(c) \/ Drain(c)
       PROVE  CarryAuthority'
  BY <1>1, <1>12 DEF CloseOwned, Teardown, Fill, Drain
<1>13. CASE Switches
  BY <1>2, <1>13 DEF Switches, Withhold, Release, CloseAll, Publish
<1>14. CASE UNCHANGED vars
  BY <1>1, <1>14 DEF vars
<1> QED
  BY <1>7, <1>8, <1>9, <1>10, <1>11, <1>12, <1>13, <1>14 DEF Next

LEMMA KeptNext ==
    ASSUME IInv, [Next]_vars
    PROVE  Kept'
<1>1. ASSUME NEW s \in Sid, Client(s) \/ LeaseDue(s) \/ LeaseExpire(s) \/ StrayLease(s)
      PROVE  Kept'
  BY <1>1, KeptSessions, KeptRequests, KeptControls, KeptCommits DEF Client
<1>2. ASSUME NEW p \in plans, AdmitAlternative(p) \/ RejectAlternative(p)
      PROVE  Kept'
  BY <1>2, KeptRequests
<1>3. CASE UNCHANGED vars
  <2>1. UNCHANGED <<sess, live, opened, tasks, offers, issued, withheld>>
    BY <1>3 DEF vars
  <2>2. TasksPlaced' /\ Bounded'
    BY <2>1, TasksSame DEF IInv
  <2>3. SessionsSound'
    BY <2>1 DEF IInv, SessionsSound
  <2> QED
    BY <2>2, <2>3 DEF Kept
<1> QED
  BY <1>1, <1>2, <1>3, KeptTasks, KeptTimers, KeptSwitches DEF Next

LEMMA IInvInit == Init => IInv
<1> SUFFICES ASSUME Init PROVE IInv
  OBVIOUS
<1>1. TypeOK
  BY TypedInit
<1>2. SessionsSound /\ TasksPlaced
  BY DEF Init, SessionsSound, TasksPlaced, Apart
<1>3. Bounded
  <2>1. ProviderTasks = {}
    BY DEF Init, ProviderTasks
  <2> QED
    BY <2>1, FS_EmptySet, BoundsAssumption DEF Bounded
<1>4. CarryAuthority
  BY DEF Init, NoCarry, CarryAuthority
<1> QED
  BY <1>1, <1>2, <1>3, <1>4 DEF IInv

\* The inductive invariant the safety theorems rest on: sessions hold one
\* authority bound to a leased context, and each provider task that still
\* runs uncancelled is the one its session awaits.
THEOREM Inductive == Spec => []IInv
<1>1. Init => IInv
  BY IInvInit
<1>2. IInv /\ [Next]_vars => IInv'
  BY TypedNext, KeptNext, CarryCurrent DEF IInv, Kept
<1> QED
  BY <1>1, <1>2, PTL DEF Spec

-----------------------------------------------------------------------------
(* The safety properties                                                   *)

\* No offer or grant ever outlives the session, coordinate and context it
\* was made for.
THEOREM OffersBound == Spec => []BoundOffers
<1>1. IInv => BoundOffers
  BY DEF IInv, SessionsSound, Sound, BoundOffers
<1> QED
  BY <1>1, Inductive, PTL

\* At most one authority at a time, whatever the interleaving of requests,
\* alternatives, timers and provider answers.
THEOREM AuthorityUnique == Spec => []OneAuthority
<1>1. IInv => OneAuthority
  <2> SUFFICES ASSUME IInv, NEW s \in live
               PROVE  /\ sess[s].visible # 0 =>
                             sess[s].pending = 0 /\ sess[s].token = 0
                      /\ sess[s].pending # 0 => sess[s].token = 0
                      /\ sess[s].token # 0 =>
                             sess[s].ctx # 0 /\ sess[s].token = sess[s].gen
    BY DEF OneAuthority
  <2> QED
    BY DEF IInv, SessionsSound, Sound
<1> QED
  BY <1>1, Inductive, PTL

\* A retained context always has a lease running out.
THEOREM ContextLeased == Spec => []LeasedContext
<1>1. IInv => LeasedContext
  BY DEF IInv, SessionsSound, Sound, LeasedContext
<1> QED
  BY <1>1, Inductive, PTL

\* Pause, hold, snooze, editor focus and new settings all leave the sessions
\* they cover empty, and nothing refills them before the release.
THEOREM WithheldIsSilent == Spec => []WithheldSilent
<1>1. IInv => WithheldSilent
  <2> SUFFICES ASSUME IInv, NEW s \in live, AppOf[s] \in withheld
               PROVE  /\ sess[s].ctx = 0 /\ sess[s].token = 0
                      /\ sess[s].visible = 0 /\ sess[s].pending = 0
    BY DEF WithheldSilent
  <2>1. Sound(s, sess[s], offers, withheld)
    BY DEF IInv, SessionsSound
  <2>2. sess[s].coord # 0
    BY BoundsAssumption DEF IInv, TypeOK, Session, Coords
  <2> QED
    BY <2>1, <2>2 DEF Sound
<1> QED
  BY <1>1, Inductive, PTL

\* Superseded provider work is always cancelled and permits bound the rest.
THEOREM WorkOwned == Spec => []OwnedWork
<1>1. IInv => OwnedWork
  BY DEF IInv, TasksPlaced, Placed, Bounded, OwnedWork, ProviderTasks
<1> QED
  BY <1>1, Inductive, PTL

\* The carry never crosses an authority epoch.
THEOREM CarryIsCurrent == Spec => []CarryAuthority
<1>1. IInv => CarryAuthority
  BY DEF IInv
<1> QED
  BY <1>1, Inductive, PTL

-----------------------------------------------------------------------------
(* Causes                                                                  *)


\* What the broker would let the adapter of session r accept.
Offered(r) == IF r \in live THEN sess[r].visible ELSE 0

\* Why the context of session s may go as its record turns from x to y.
CtxMove(s, x, y) ==
    \/ y.ctx = x.ctx /\ y.coord = x.coord /\ y.seen = x.seen
    \/ /\ y.ctx = 0 /\ y.coord = x.coord /\ y.seen = x.seen
       /\ x.lease = "due" \/ x.pending # 0 \/ AppOf[s] \in withheld'
    \/ y.seen /\ y.ctx \in {0, y.coord} /\ (y.coord # x.coord \/ ~x.seen)

\* A slot is emptied, filled with a suggestion not shown before, or its
\* suggestion is granted before its deadline.
SlotMove(x, y) ==
    \/ y.visible \in {0, x.visible} /\ y.pending \in {0, x.pending}
    \/ /\ y.visible = issued + 1 /\ y.pending = 0
       /\ offers'[issued + 1].grant = "none"
    \/ y.visible = 0 /\ y.pending = x.visible /\ x.visible # 0 /\ Live(x.visible)

\* The adapter hears of what changes, or its connection ends.
ScreenMove(r) ==
    link'[ConnOf[r]] = "up" /\ ConnOf[r] \in Granters =>
        /\ link[ConnOf[r]] = "up"
        /\ \/ screen'[r] = Offered(r)'
           \/ screen'[r] = screen[r] /\ Offered(r)' = Offered(r)

Moves ==
    /\ \A r \in live : SlotMove(sess[r], sess'[r])
    /\ \A r \in live \cap live' : CtxMove(r, sess[r], sess'[r])
    /\ \A r \in live' \ live :
        sess'[r].ctx = 0 /\ sess'[r].visible = 0 /\ sess'[r].pending = 0
    /\ \A r \in Sid : ScreenMove(r)

\* A suggestion is granted while it is visible, and no longer is then.
GrantMove == \A i \in Issued :
    \/ offers'[i].grant = "none" \/ offers[i].grant # "none"
    \/ \E s \in live : sess[s].visible = i /\ sess'[s].visible = 0

NewMove == \A i \in (1 .. issued') \ (1 .. issued) :
    offers'[i].root # i => ~offers[offers'[i].root].lapsed

Caused == Moves /\ GrantMove /\ NewMove

\* A session's first context makes it seen, and a context is of the place the
\* session stands at; what is visible was not granted.
Marked ==
    \A s \in live :
        /\ sess[s].ctx # 0 => sess[s].seen /\ sess[s].ctx = sess[s].coord
        /\ sess[s].visible # 0 => offers[sess[s].visible].grant = "none"

Screened == \A r \in Sid :
    link[ConnOf[r]] = "up" /\ ConnOf[r] \in Granters => screen[r] = Offered(r)

CInv == IInv /\ Marked /\ Screened

-----------------------------------------------------------------------------
(* What the causes preserve                                                *)

LEMMA CausesKeep ==
    ASSUME CInv, IInv', Caused
    PROVE  Marked' /\ Screened'
<1>1. Screened'
  BY DEF CInv, Screened, Caused, Moves, ScreenMove
<1>2. ASSUME NEW s \in live' PROVE sess'[s].ctx # 0 => sess'[s].seen /\ sess'[s].ctx = sess'[s].coord
  BY DEF CInv, Marked, Caused, Moves, CtxMove
<1>3. ASSUME NEW s \in live', sess'[s].visible # 0
      PROVE  offers'[sess'[s].visible].grant = "none"
  <2>1. s \in live /\ SlotMove(sess[s], sess'[s])
    BY <1>3 DEF Caused, Moves
  <2>2. CASE sess'[s].visible = issued + 1
    <3>1. issued \in Nat /\ sess[s].visible \in NoneOr(Issued)
      BY <2>1, BoundsAssumption DEF CInv, IInv, TypeOK, Session
    <3>2. sess[s].visible # issued + 1 /\ sess'[s].visible # 0
      BY <2>2, <3>1 DEF NoneOr, Issued
    <3> QED
      BY <2>1, <2>2, <3>2 DEF SlotMove
  <2>3. CASE sess'[s].visible = sess[s].visible
    <3> DEFINE i == sess[s].visible
    <3>1. i # 0 /\ i \in Issued /\ offers[i].grant = "none" /\ offers[i].sid = s
      BY <1>3, <2>1, <2>3 DEF CInv, IInv, Marked, SessionsSound, Sound, TypeOK, Session, NoneOr
    <3>2. ASSUME NEW r \in live, sess[r].visible = i, sess'[r].visible = 0 PROVE FALSE
      <4>1. offers[i].sid = r
        BY <3>1, <3>2 DEF CInv, IInv, SessionsSound, Sound
      <4> QED
        BY <1>3, <3>1, <3>2, <4>1
    <3> QED
      BY <2>3, <3>1, <3>2 DEF Caused, GrantMove
  <2> QED
    BY <1>3, <2>1, <2>2, <2>3 DEF SlotMove
<1> QED
  BY <1>1, <1>2, <1>3 DEF Marked

\* What the transitions leave of whether a session was seen.
LEMMA SeenKept ==
    ASSUME NEW x \in Session
    PROVE  /\ InvalidateLease(x).seen = x.seen /\ ArmLease(x).seen = x.seen
           /\ RetireGeneration(x).seen = x.seen /\ Revoke(x).seen = x.seen
           /\ Bind(x).seen = x.seen
<1>1. \A y \in Session : InvalidateLease(y).seen = y.seen
  BY DEF InvalidateLease, Session
<1>2. \A y \in Session : RetireGeneration(y).seen = y.seen
  BY DEF RetireGeneration, Session
<1>3. \A y \in Session : ArmLease(y).seen = y.seen
  <2>1. \A y \in Session : [y EXCEPT !.lease = "armed"].seen = y.seen
    BY DEF Session
  <2> QED
    BY <1>1, <2>1, SessionOps DEF ArmLease
<1>4. \A y \in Session : [y EXCEPT !.ctx = 0].seen = y.seen /\ [y EXCEPT !.gen = @ + 1].seen = y.seen
  BY DEF Session
<1>5. Revoke(x).seen = x.seen
  BY <1>1, <1>2, <1>4, SessionOps DEF Revoke
<1>6. Bind(x).seen = x.seen
  <2>1. [RetireGeneration(x) EXCEPT !.gen = @ + 1] \in Session
    BY SessionOps, Fields
  <2> QED
    BY <1>2, <1>3, <1>4, <2>1, SessionOps DEF Bind
<1> QED
  BY <1>1, <1>2, <1>3, <1>5, <1>6

\* An event only ever ends a connection.
LEMMA SendEnds ==
    ASSUME IInv, NEW S, Send(S) \/ UNCHANGED link, NEW c \in Conn, link'[c] = "up"
    PROVE  link[c] = "up" /\ (Send(S) => ~(c \in full /\ \E s \in S : ConnOf[s] = c))
  BY DEF Send, IInv, TypeOK

LEMMA ScreenSame ==
    ASSUME IInv, NEW S, Send(S) \/ UNCHANGED link, UNCHANGED screen, NEW r \in Sid,
           Offered(r)' = Offered(r)
    PROVE  ScreenMove(r)
  BY SendEnds, TargetAssumption DEF ScreenMove

LEMMA ScreenCleared ==
    ASSUME IInv, NEW S \in SUBSET live, Clear(S), NEW r \in Sid,
           Offered(r)' = IF r \in S THEN 0 ELSE Offered(r)
    PROVE  ScreenMove(r)
<1> DEFINE T == {s \in S : Displayed(s)}
<1> SUFFICES ASSUME link'[ConnOf[r]] = "up"
             PROVE  /\ link[ConnOf[r]] = "up"
                    /\ \/ screen'[r] = Offered(r)'
                       \/ screen'[r] = screen[r] /\ Offered(r)' = Offered(r)
  BY DEF ScreenMove
<1>1. Send(T) /\ ConnOf[r] \in Conn
  BY TargetAssumption DEF Clear
<1>2. link[ConnOf[r]] = "up" /\ ~(ConnOf[r] \in full /\ \E s \in T : ConnOf[s] = ConnOf[r])
  BY <1>1, SendEnds
<1>3. screen'[r] = IF r \in S /\ sess[r].visible # 0 /\ Reached(r) THEN 0 ELSE screen[r]
  BY DEF Clear
<1> QED
  BY <1>2, <1>3 DEF Offered, Reached, Displayed

\* One session changes.
LEMMA OneMoves ==
    ASSUME IInv, NEW s \in Sid, NEW y, sess' = [sess EXCEPT ![s] = y], live' = live,
           s \in live => CtxMove(s, sess[s], y) /\ SlotMove(sess[s], y),
           \A r \in Sid : ScreenMove(r)
    PROVE  Moves
<1>1. sess'[s] = y /\ \A r \in Sid \ {s} : sess'[r] = sess[r]
  BY DEF IInv, TypeOK
<1>2. \A x : CtxMove(s, x, x) /\ SlotMove(x, x)
  BY DEF CtxMove, SlotMove
<1>3. live \subseteq Sid
  BY DEF IInv, TypeOK
<1>4. \A r : \A x : CtxMove(r, x, x)
  BY DEF CtxMove
<1> QED
  BY <1>1, <1>2, <1>3, <1>4 DEF Moves

LEMMA OfferedOne ==
    ASSUME IInv, NEW s \in Sid, NEW y, sess' = [sess EXCEPT ![s] = y], live' = live
    PROVE  \A r \in Sid : Offered(r)' = IF r = s /\ s \in live THEN y.visible ELSE Offered(r)
  BY DEF IInv, TypeOK, Offered

\* One session changes, and its adapter's display with it.
LEMMA OneCleared ==
    ASSUME IInv, NEW s \in live, NEW y, sess' = [sess EXCEPT ![s] = y], live' = live,
           CtxMove(s, sess[s], y), y.visible = 0, y.pending \in {0, sess[s].pending}, Clear({s})
    PROVE  Moves
<1>1. s \in Sid
  BY DEF IInv, TypeOK
<1>2. ASSUME NEW r \in Sid PROVE ScreenMove(r)
  <2>1. Offered(r)' = IF r \in {s} THEN 0 ELSE Offered(r)
    BY <1>1, OfferedOne
  <2>2. {s} \in SUBSET live
    OBVIOUS
  <2> QED
    BY <2>1, <2>2, ScreenCleared
<1>3. SlotMove(sess[s], y)
  BY DEF SlotMove
<1> QED
  BY <1>1, <1>2, <1>3, OneMoves

\* One session changes and what it shows does not.
LEMMA OneSilent ==
    ASSUME IInv, NEW s \in Sid, NEW y, sess' = [sess EXCEPT ![s] = y], live' = live,
           s \in live => /\ CtxMove(s, sess[s], y) /\ y.visible = sess[s].visible
                         /\ y.pending \in {0, sess[s].pending},
           NEW S, Send(S) \/ UNCHANGED link, UNCHANGED screen
    PROVE  Moves
<1>1. \A r \in Sid : ScreenMove(r)
  BY OfferedOne, ScreenSame DEF Offered
<1>2. s \in live => SlotMove(sess[s], y)
  BY DEF SlotMove
<1> QED
  BY <1>1, <1>2, OneMoves

\* No session changes.
LEMMA NoneMoves ==
    ASSUME IInv, UNCHANGED <<sess, live, screen>>, NEW S, Send(S) \/ UNCHANGED link
    PROVE  Moves
<1>1. \A r \in Sid : ScreenMove(r)
  BY ScreenSame DEF Offered
<1>2. \A r, x : CtxMove(r, x, x) /\ SlotMove(x, x)
  BY DEF CtxMove, SlotMove
<1> QED
  BY <1>1, <1>2 DEF Moves

\* What touches no suggestion grants and issues none.
LEMMA OffersSame ==
    ASSUME UNCHANGED <<offers, issued>>
    PROVE  GrantMove /\ NewMove
  BY DEF GrantMove, NewMove

\* Sessions are closed or revoked, and their displays cleared.
LEMMA RevokedMoves ==
    ASSUME IInv, NEW S \in SUBSET live, live' \subseteq live, live \ S \subseteq live',
           sess' = [s \in Sid |-> IF s \in S THEN Revoke(sess[s]) ELSE sess[s]],
           Clear(S), \A s \in S \cap live' : AppOf[s] \in withheld'
    PROVE  Moves
<1>1. live \subseteq Sid
  BY DEF IInv, TypeOK
<1>2. \A r \in Sid : /\ sess[r] \in Session
                     /\ sess'[r] = IF r \in S THEN Revoke(sess[r]) ELSE sess[r]
  BY DEF IInv, TypeOK
<1>3. ASSUME NEW r \in Sid PROVE ScreenMove(r)
  <2>1. Offered(r)' = IF r \in S THEN 0 ELSE Offered(r)
    <3>1. CASE r \in S
      BY <1>2, <3>1, Revoked DEF Offered
    <3>2. CASE r \notin S
      BY <1>2, <3>2 DEF Offered
    <3> QED
      BY <3>1, <3>2
  <2> QED
    BY <2>1, ScreenCleared
<1>4. ASSUME NEW r \in live
      PROVE  SlotMove(sess[r], sess'[r]) /\ (r \in live' => CtxMove(r, sess[r], sess'[r]))
  <2>1. CASE r \in S
    <3>1. /\ sess'[r].ctx = 0 /\ sess'[r].coord = sess[r].coord /\ sess'[r].seen = sess[r].seen
          /\ sess'[r].visible = 0 /\ sess'[r].pending = 0
      BY <1>1, <1>2, <2>1, Revoked, SeenKept
    <3> QED
      BY <2>1, <3>1 DEF CtxMove, SlotMove
  <2>2. CASE r \notin S
    BY <1>1, <1>2, <2>2 DEF CtxMove, SlotMove
  <2> QED
    BY <2>1, <2>2
<1> QED
  BY <1>3, <1>4 DEF Moves

-----------------------------------------------------------------------------
(* Every step has its cause                                                *)

LEMMA CausedSessions ==
    ASSUME CInv, NEW s \in Sid,
           \/ \E c \in Coords : OpenSession(s, c)
           \/ CloseSession(s)
           \/ \E c \in Coords, allowed \in BOOLEAN : UpdateContext(s, c, allowed)
           \/ LeaseDue(s) \/ LeaseExpire(s) \/ StrayLease(s)
           \/ CancelSuggestion(s)
    PROVE  Caused
<1> DEFINE x == sess[s]
<1>0. x \in Session /\ IInv /\ live \subseteq Sid /\ live \subseteq opened
  BY DEF CInv, IInv, TypeOK
<1> SUFFICES Moves
  <2>1. UNCHANGED <<offers, issued>>
    BY DEF OpenSession, CloseSession, UpdateContext, LeaseDue, LeaseExpire, StrayLease,
           CancelSuggestion
  <2> QED
    BY <2>1, OffersSame DEF Caused
<1>1. ASSUME NEW c \in Coords, OpenSession(s, c)
      PROVE  Moves
  <2> DEFINE y == [Fresh EXCEPT !.coord = c]
  <2>1. y.ctx = 0 /\ y.visible = 0 /\ y.pending = 0
    BY DEF Fresh
  <2>2. /\ sess' = [sess EXCEPT ![s] = y] /\ live' = live \cup {s} /\ s \notin live
        /\ UNCHANGED <<link, screen>>
    BY <1>0, <1>1 DEF OpenSession
  <2> HIDE DEF y
  <2>3. sess'[s] = y /\ \A r \in Sid \ {s} : sess'[r] = sess[r]
    BY <1>0, <2>2 DEF IInv, TypeOK
  <2>4. \A r \in Sid : Offered(r)' = Offered(r)
    BY <2>1, <2>2, <2>3 DEF Offered
  <2>5. \A r \in Sid : ScreenMove(r)
    BY <1>0, <2>2, <2>4, ScreenSame
  <2>6. \A r, z : CtxMove(r, z, z) /\ SlotMove(z, z)
    BY DEF CtxMove, SlotMove
  <2>7. \A r \in live : sess'[r] = sess[r]
    BY <1>0, <2>2, <2>3
  <2> QED
    BY <2>1, <2>2, <2>3, <2>5, <2>6, <2>7 DEF Moves
<1>2. CASE CloseSession(s)
  <2>1. {s} \in SUBSET live /\ Close({s})
    BY <1>2 DEF CloseSession
  <2> QED
    BY <1>0, <2>1, RevokedMoves DEF Close, Withdraw
<1>3. ASSUME NEW c \in Coords, NEW allowed \in BOOLEAN, UpdateContext(s, c, allowed)
      PROVE  Moves
  <2> DEFINE r == Revoke(x)
             y == [r EXCEPT !.coord = c, !.seen = TRUE]
             z == [ArmLease(y) EXCEPT !.ctx = c]
             new == IF allowed THEN z ELSE y
  <2>1. r \in Session /\ r.visible = 0 /\ r.pending = 0 /\ r.ctx = 0
    BY <1>0, SessionOps, Revoked
  <2>2. /\ sess' = [sess EXCEPT ![s] = new] /\ UNCHANGED live /\ Clear({s})
        /\ s \in live /\ Newer(s, c)
    BY <1>3 DEF UpdateContext, Withdraw, DataAccess
  <2> HIDE DEF r
  <2>3. /\ y \in Session /\ y.visible = 0 /\ y.pending = 0 /\ y.ctx = 0
        /\ y.coord = c /\ y.seen
    <3>1. y \in Session
      BY <2>1, Fields
    <3> QED
      BY <2>1, <3>1 DEF Session
  <2> HIDE DEF y
  <2>4. z.visible = 0 /\ z.pending = 0 /\ z.ctx = c /\ z.coord = c /\ z.seen
    <3>1. ArmLease(y) \in Session
      BY <2>3, SessionOps
    <3> QED
      BY <2>3, <3>1, Armed, SeenKept DEF Session
  <2> HIDE DEF z
  <2>5. new.visible = 0 /\ new.pending = 0 /\ new.ctx \in {0, c} /\ new.coord = c /\ new.seen
    BY <2>3, <2>4
  <2>6. c # x.coord \/ ~x.seen
    BY <1>0, <2>2 DEF Newer, Session, Coords
  <2> HIDE DEF new
  <2>7. CtxMove(s, x, new)
    BY <2>5, <2>6 DEF CtxMove
  <2> QED
    BY <1>0, <2>2, <2>5, <2>7, OneCleared
<1>4. CASE LeaseDue(s) \/ StrayLease(s)
  <2>1. PICK y : /\ sess' = [sess EXCEPT ![s] = y]
                 /\ y.visible = x.visible /\ y.pending = x.pending /\ y.ctx = x.ctx
                 /\ y.coord = x.coord /\ y.seen = x.seen
    <3>1. PICK y : /\ sess' = [sess EXCEPT ![s] = y]
                   /\ y = [x EXCEPT !.lease = "due"] \/ y = [x EXCEPT !.stray = FALSE]
      BY <1>4 DEF LeaseDue, StrayLease
    <3>2. x \in Session
      BY <1>0
    <3>3. /\ y.visible = x.visible /\ y.pending = x.pending /\ y.ctx = x.ctx
          /\ y.coord = x.coord /\ y.seen = x.seen
      <4>1. CASE y = [x EXCEPT !.lease = "due"]
        BY <3>2, <4>1 DEF Session
      <4>2. CASE y = [x EXCEPT !.stray = FALSE]
        BY <3>2, <4>2 DEF Session
      <4> QED
        BY <3>1, <4>1, <4>2
    <3> QED
      BY <3>1, <3>3
  <2>2. UNCHANGED <<live, link, screen>>
    BY <1>4 DEF LeaseDue, StrayLease
  <2>3. CtxMove(s, x, y)
    BY <2>1 DEF CtxMove
  <2> QED
    BY <1>0, <2>1, <2>2, <2>3, OneSilent
<1>5. CASE LeaseExpire(s)
  <2> DEFINE r == Revoke(x)
             y == [r EXCEPT !.stray = x.stray]
  <2>1. /\ r \in Session /\ r.visible = 0 /\ r.pending = 0 /\ r.ctx = 0
        /\ r.coord = x.coord /\ r.seen = x.seen
    BY <1>0, SessionOps, Revoked, SeenKept
  <2>2. /\ sess' = [sess EXCEPT ![s] = y] /\ UNCHANGED live /\ Clear({s})
        /\ s \in live /\ x.lease = "due"
    BY <1>5 DEF LeaseExpire, Withdraw
  <2> HIDE DEF r
  <2>3. y.visible = 0 /\ y.pending = 0 /\ y.ctx = 0 /\ y.coord = x.coord /\ y.seen = x.seen
    BY <2>1 DEF Session
  <2> HIDE DEF y
  <2>4. CtxMove(s, x, y)
    BY <2>2, <2>3 DEF CtxMove
  <2> QED
    BY <1>0, <2>2, <2>3, <2>4, OneCleared
<1>6. CASE CancelSuggestion(s)
  <2> DEFINE y == RetireGeneration(x)
  <2>1. /\ sess' = [sess EXCEPT ![s] = y] /\ UNCHANGED live /\ Clear({s}) /\ s \in live
    BY <1>6 DEF CancelSuggestion, Withdraw
  <2>2. y.visible = 0 /\ y.pending = 0 /\ y.ctx = x.ctx /\ y.coord = x.coord /\ y.seen = x.seen
    BY <1>0, Retired, SeenKept
  <2> HIDE DEF y
  <2>3. CtxMove(s, x, y)
    BY <2>2 DEF CtxMove
  <2> QED
    BY <1>0, <2>1, <2>2, <2>3, OneCleared
<1> QED
  BY <1>1, <1>2, <1>3, <1>4, <1>5, <1>6

\* Showing a suggestion, or finding no room for it.
LEMMA ShowCaused ==
    ASSUME CInv, NEW s \in live, NEW x \in Session, NEW root, NEW fund, NEW correction,
           Show(s, x, root, fund, correction), live' = live,
           root # 0 => root \in Issued /\ ~offers[root].lapsed,
           x.pending = 0, x.ctx = sess[s].ctx, x.coord = sess[s].coord, x.seen = sess[s].seen
    PROVE  Caused
<1> DEFINE id == issued + 1
           y == [x EXCEPT !.token = 0, !.list = 0, !.visible = id]
<1>1. /\ sess' = [sess EXCEPT ![s] = y] /\ issued' = id /\ issued \in Nat /\ UNCHANGED link
      /\ screen' = [screen EXCEPT ![s] = id] /\ s \in Sid /\ IInv
  BY BoundsAssumption DEF Show, CInv, IInv, TypeOK
<1>2. /\ \A i \in Issued : offers'[i] = offers[i]
      /\ offers'[id].grant = "none" /\ offers'[id].root = (IF root = 0 THEN id ELSE root)
  BY <1>1 DEF Show, Issued
<1>3. /\ y.visible = id /\ y.pending = 0 /\ y.ctx = sess[s].ctx /\ y.coord = sess[s].coord
      /\ y.seen = sess[s].seen
  BY Shown DEF Session
<1> HIDE DEF y
<1>4. CtxMove(s, sess[s], y) /\ SlotMove(sess[s], y)
  BY <1>2, <1>3 DEF CtxMove, SlotMove
<1>5. ASSUME NEW r \in Sid PROVE ScreenMove(r)
  <2>1. Offered(r)' = IF r = s THEN id ELSE Offered(r)
    BY <1>1, <1>3, OfferedOne
  <2>2. screen'[r] = IF r = s THEN id ELSE screen[r]
    BY <1>1 DEF IInv, TypeOK
  <2> QED
    BY <1>1, <2>1, <2>2 DEF ScreenMove
<1>6. Moves
  BY <1>1, <1>4, <1>5, OneMoves
<1>7. GrantMove
  BY <1>2 DEF GrantMove
<1>8. NewMove
  <2>1. (1 .. issued') \ (1 .. issued) = {id}
    BY <1>1
  <2> QED
    BY <1>2, <2>1 DEF NewMove
<1> QED
  BY <1>6, <1>7, <1>8 DEF Caused

\* A session changes whose connection has no room for the event.
LEMMA RefusedCaused ==
    ASSUME CInv, NEW s \in live, NEW y, sess' = [sess EXCEPT ![s] = y], live' = live,
           ~Reached(s), Send({s}), UNCHANGED <<offers, issued, screen>>,
           CtxMove(s, sess[s], y), y.visible \in {0, sess[s].visible},
           y.pending \in {0, sess[s].pending}
    PROVE  Caused
<1>1. IInv /\ s \in Sid /\ \A r \in Sid : ConnOf[r] \in Conn
  BY TargetAssumption DEF CInv, IInv, TypeOK
<1>2. ASSUME NEW r \in Sid PROVE ScreenMove(r)
  <2>1. CASE ConnOf[r] = ConnOf[s]
    <3>1. link'[ConnOf[r]] # "up"
      BY <1>1, <2>1, SendEnds DEF Reached
    <3> QED
      BY <3>1 DEF ScreenMove
  <2>2. CASE ConnOf[r] # ConnOf[s]
    <3>1. Offered(r)' = Offered(r)
      BY <1>1, <2>2, OfferedOne
    <3> QED
      BY <1>1, <3>1, ScreenSame
  <2> QED
    BY <2>1, <2>2
<1>3. SlotMove(sess[s], y)
  BY DEF SlotMove
<1>4. Moves
  BY <1>1, <1>2, <1>3, OneMoves
<1> QED
  BY <1>4, OffersSame DEF Caused

\* Whatever admission does with an admissible request.
LEMMA CausedAdmit ==
    ASSUME CInv, NEW s \in Sid, Admissible(s), NEW kind, NEW about,
           \/ AdmitAbstain(s) \/ AdmitCarried(s) \/ AdmitBusy(s)
           \/ AdmitGenerate(s, kind, about) \/ AdmitShow(s, 0, 0),
           live' = live
    PROVE  Caused
<1> DEFINE x == Bind(sess[s])
<1>0. /\ sess[s] \in Session /\ x \in Session /\ s \in live /\ IInv
      /\ x.visible = 0 /\ x.pending = 0
      /\ x.ctx = sess[s].ctx /\ x.coord = sess[s].coord /\ x.seen = sess[s].seen
  <2>1. sess[s] \in Session /\ s \in live /\ IInv
    BY DEF CInv, IInv, TypeOK, Admissible, DataAccess
  <2> QED
    BY <2>1, SessionOps, Bound, SeenKept
<1>1. ASSUME NEW y, y.visible = 0, y.pending = 0, y.ctx = sess[s].ctx,
             y.coord = sess[s].coord, y.seen = sess[s].seen,
             sess' = [sess EXCEPT ![s] = y], Clear({s}), UNCHANGED <<offers, issued>>
      PROVE  Caused
  <2>1. CtxMove(s, sess[s], y)
    BY <1>1 DEF CtxMove
  <2>2. Moves
    BY <1>0, <1>1, <2>1, OneCleared
  <2> QED
    BY <1>1, <2>2, OffersSame DEF Caused
<1>2. CASE AdmitAbstain(s)
  BY <1>0, <1>1, <1>2 DEF AdmitAbstain
<1>3. ASSUME NEW root, NEW fund, AdmitShow(s, root, fund),
             root # 0 => root \in Issued /\ ~offers[root].lapsed
      PROVE  Caused
  <2>1. Show(s, x, root, fund, FALSE) \/ ShowRefused(s, x)
    BY <1>3 DEF AdmitShow
  <2> HIDE DEF x
  <2>2. CASE Show(s, x, root, fund, FALSE)
    BY <1>0, <1>3, <2>2, ShowCaused
  <2>3. CASE ShowRefused(s, x)
    <3> DEFINE y == [x EXCEPT !.token = 0]
    <3>1. /\ y.visible = 0 /\ y.pending = 0 /\ y.ctx = sess[s].ctx /\ y.coord = sess[s].coord
          /\ y.seen = sess[s].seen
      BY <1>0 DEF Session
    <3>2. /\ sess' = [sess EXCEPT ![s] = y] /\ ~Reached(s) /\ Send({s})
          /\ UNCHANGED <<offers, issued, screen>>
      BY <2>3 DEF ShowRefused
    <3> HIDE DEF y
    <3>3. CtxMove(s, sess[s], y)
      BY <3>1 DEF CtxMove
    <3> QED
      BY <1>0, <3>1, <3>2, <3>3, RefusedCaused
  <2> QED
    BY <2>1, <2>2, <2>3
<1>4. CASE AdmitCarried(s)
  <2>1. AdmitShow(s, carry.root, carry.fund) /\ ~offers[carry.root].lapsed /\ carry.on
    BY <1>4 DEF AdmitCarried
  <2>2. carry.root \in Issued
    <3>1. carry = NoCarry => carry.on = FALSE
      BY DEF NoCarry
    <3>2. carry \in Carry => carry.root \in Issued
      BY DEF Carry
    <3> QED
      BY <1>0, <2>1, <3>1, <3>2 DEF IInv, TypeOK
  <2> HIDE DEF x
  <2> QED
    BY <1>3, <2>1, <2>2
<1>5. CASE AdmitBusy(s)
  <2> DEFINE y == RetireGeneration(sess[s])
  <2>1. /\ y.visible = 0 /\ y.pending = 0 /\ y.ctx = sess[s].ctx /\ y.coord = sess[s].coord
        /\ y.seen = sess[s].seen
    BY <1>0, Retired, SeenKept
  <2>2. /\ sess' = [sess EXCEPT ![s] = y] /\ Clear({s}) /\ UNCHANGED <<offers, issued>>
    BY <1>5 DEF AdmitBusy, Withdraw
  <2> HIDE DEF x, y
  <2> QED
    BY <1>1, <2>1, <2>2
<1>6. CASE AdmitGenerate(s, kind, about)
  <2> DEFINE y == [x EXCEPT !.token = x.gen]
  <2>2. /\ sess' = [sess EXCEPT ![s] = y] /\ Clear({s}) /\ UNCHANGED <<offers, issued>>
    BY <1>6 DEF AdmitGenerate
  <2> HIDE DEF x
  <2>1. /\ y.visible = 0 /\ y.pending = 0 /\ y.ctx = sess[s].ctx /\ y.coord = sess[s].coord
        /\ y.seen = sess[s].seen
    BY <1>0 DEF Session
  <2> HIDE DEF y
  <2> QED
    BY <1>1, <2>1, <2>2
<1>7. CASE AdmitShow(s, 0, 0)
  <2> HIDE DEF x
  <2> QED
    BY <1>3, <1>7
<1> QED
  BY <1>2, <1>4, <1>5, <1>6, <1>7

\* Requests for suggestions and for alternatives.
LEMMA CausedRequests ==
    ASSUME CInv,
           \/ \E s \in Sid : RequestSuggestion(s)
           \/ \E s \in Sid, kind \in Alternatives : AskAlternative(s, kind)
           \/ \E s \in Sid, found \in BOOLEAN : PickAlternative(s, found)
           \/ \E p \in plans : AdmitAlternative(p) \/ RejectAlternative(p)
    PROVE  Caused
<1>0. IInv
  BY DEF CInv
<1>1. ASSUME NEW s \in Sid, RequestSuggestion(s)
      PROVE  Caused
  BY <1>1, CausedAdmit DEF RequestSuggestion, Admit
<1>2. ASSUME NEW s \in Sid,
             \/ \E kind \in Alternatives : AskAlternative(s, kind)
             \/ \E found \in BOOLEAN : PickAlternative(s, found)
      PROVE  Caused
  <2> DEFINE x == sess[s]
             y == [x EXCEPT !.list = 0]
  <2>1. sess' = [sess EXCEPT ![s] = y] /\ UNCHANGED <<live, issued, offers, link, screen>>
    BY <1>2 DEF AskAlternative, PickAlternative
  <2>2. /\ y.visible = x.visible /\ y.pending = x.pending /\ y.ctx = x.ctx
        /\ y.coord = x.coord /\ y.seen = x.seen
    BY <1>0 DEF IInv, TypeOK, Session
  <2> HIDE DEF y
  <2>3. CtxMove(s, x, y)
    BY <2>2 DEF CtxMove
  <2>4. Moves
    BY <1>0, <2>1, <2>2, <2>3, OneSilent
  <2> QED
    BY <2>1, <2>4, OffersSame DEF Caused
<1>3. ASSUME NEW p \in plans, AdmitAlternative(p)
      PROVE  Caused
  <2>1. p.sid \in Sid
    BY <1>0 DEF IInv, TypeOK, Plan
  <2> QED
    BY <1>3, <2>1, CausedAdmit DEF AdmitAlternative
<1>4. ASSUME NEW p \in plans, RejectAlternative(p)
      PROVE  Caused
  <2>1. UNCHANGED <<sess, live, issued, offers, link, screen>>
    BY <1>4 DEF RejectAlternative
  <2> QED
    BY <1>0, <2>1, NoneMoves, OffersSame DEF Caused
<1> QED
  BY <1>1, <1>2, <1>3, <1>4

\* A generation task ends.
LEMMA CausedTasks ==
    ASSUME CInv, NEW t \in tasks, TaskEnd(t)
    PROVE  Caused
<1> DEFINE s == t.sid
           x == sess[s]
<1>0. s \in Sid /\ x \in Session /\ Placed(t) /\ IInv
  <2>1. s \in Sid /\ Placed(t) /\ IInv
    BY DEF CInv, IInv, TypeOK, Task, TasksPlaced
  <2> QED
    BY <2>1 DEF IInv, TypeOK
<1>1. ASSUME UNCHANGED <<sess, live, issued, offers, screen>>, NEW S, Send(S) \/ UNCHANGED link
      PROVE  Caused
  BY <1>0, <1>1, NoneMoves, OffersSame DEF Caused
<1>2. ASSUME NEW y, sess' = [sess EXCEPT ![s] = y], UNCHANGED <<live, issued, offers, screen>>,
             y.visible = x.visible, y.pending = x.pending, y.ctx = x.ctx,
             y.coord = x.coord, y.seen = x.seen, NEW S, Send(S) \/ UNCHANGED link
      PROVE  Caused
  <2>1. CtxMove(s, x, y)
    BY <1>2 DEF CtxMove
  <2>2. Moves
    BY <1>0, <1>2, <2>1, OneSilent
  <2> QED
    BY <1>2, <2>2, OffersSame DEF Caused
<1> DEFINE z == [x EXCEPT !.token = 0]
<1>3. /\ z.visible = x.visible /\ z.pending = x.pending /\ z.ctx = x.ctx
      /\ z.coord = x.coord /\ z.seen = x.seen
  BY <1>0 DEF Session
<1>4. ASSUME sess' = [sess EXCEPT ![s].token = 0], Send({s}), UNCHANGED <<live, issued, offers, screen>>
      PROVE  Caused
  <2>1. sess' = [sess EXCEPT ![s] = z]
    BY <1>4
  <2> HIDE DEF z
  <2> QED
    BY <1>2, <1>3, <1>4, <2>1
<1>5. ASSUME NEW fund, NEW correction, Awaiting(t),
             Show(s, x, 0, fund, correction), live' = live
      PROVE  Caused
  <2>1. s \in live /\ x.pending = 0
    BY <1>0, <1>5 DEF Awaiting, DataAccess, Placed
  <2> QED
    BY <1>0, <1>5, <2>1, ShowCaused
<1>6. ASSUME Awaiting(t), ShowRefused(s, x), live' = live
      PROVE  Caused
  <2>1. sess' = [sess EXCEPT ![s] = z] /\ Send({s}) /\ UNCHANGED <<issued, offers, screen>>
    BY <1>6 DEF ShowRefused
  <2> HIDE DEF z
  <2> QED
    BY <1>2, <1>3, <1>6, <2>1
<1>7. CASE EndCancelled(t) \/ EndStale(t)
  BY <1>1, <1>7 DEF EndCancelled, EndStale, Idle, Unshown
<1>8. CASE EndFailed(t)
  <2> DEFINE y == [x EXCEPT !.token = 0, !.visible = 0]
  <2>1. UNCHANGED <<live, issued, offers, screen>>
    BY <1>8 DEF EndFailed, Idle, Unshown
  <2>2. CASE UNCHANGED sess /\ UNCHANGED link
    BY <1>1, <2>1, <2>2
  <2>3. CASE s \in live /\ x.gen = t.gen /\ sess' = [sess EXCEPT ![s] = y] /\ Send({s})
    <3>1. x.pending = 0 /\ x.visible = 0
      BY <1>0, <2>3 DEF Placed
    <3>2. /\ y.visible = 0 /\ y.pending = 0 /\ y.ctx = x.ctx
          /\ y.coord = x.coord /\ y.seen = x.seen
      BY <1>0, <3>1 DEF Session
    <3> HIDE DEF y
    <3> QED
      BY <1>2, <2>1, <2>3, <3>1, <3>2
  <2>4. [sess EXCEPT ![s].token = 0, ![s].visible = 0] = [sess EXCEPT ![s] = y]
    BY <1>0 DEF IInv, TypeOK
  <2> QED
    BY <1>8, <2>2, <2>3, <2>4 DEF EndFailed
<1>9. CASE EndWithheld(t)
  BY <1>4, <1>9 DEF EndWithheld, Idle, Unshown
<1>10. ASSUME NEW correction \in BOOLEAN, NEW recorded \in BOOLEAN,
             EndShow(t, correction, recorded)
      PROVE  Caused
  <2> HIDE DEF z
  <2> QED
    BY <1>5, <1>6, <1>10 DEF EndShow, Idle
<1>11. ASSUME NEW valid \in BOOLEAN, EndList(t, valid)
      PROVE  Caused
  <2> DEFINE y == [x EXCEPT !.token = 0, !.list = t.about]
  <2>1. UNCHANGED <<live, issued, offers, screen>> /\ Send({s})
    BY <1>11 DEF EndList, Idle, Unshown
  <2>2. /\ y.visible = x.visible /\ y.pending = x.pending /\ y.ctx = x.ctx
        /\ y.coord = x.coord /\ y.seen = x.seen
    BY <1>0 DEF Session
  <2>3. [sess EXCEPT ![s].token = 0, ![s].list = t.about] = [sess EXCEPT ![s] = y]
    BY <1>0 DEF IInv, TypeOK
  <2>4. sess' = sess \/ sess' = [sess EXCEPT ![s] = y]
    BY <1>11, <2>3 DEF EndList
  <2> HIDE DEF y
  <2> QED
    BY <1>1, <1>2, <2>1, <2>2, <2>4
<1>12. ASSUME NEW timeout \in BOOLEAN, EndFallback(t, timeout)
       PROVE  Caused
  <2>1. live' = live
    BY <1>12 DEF EndFallback, Idle
  <2>2. \/ UNCHANGED <<sess, issued, offers, screen, link>>
        \/ Awaiting(t) /\ Show(s, x, 0, 0, FALSE)
        \/ Awaiting(t) /\ ShowRefused(s, x)
        \/ sess' = [sess EXCEPT ![s].token = 0] /\ Send({s}) /\ UNCHANGED <<issued, offers, screen>>
    BY <1>12 DEF EndFallback, Unshown
  <2> HIDE DEF z
  <2> QED
    BY <1>1, <1>4, <1>5, <1>6, <2>1, <2>2
<1> QED
  BY <1>7, <1>8, <1>9, <1>10, <1>11, <1>12 DEF TaskEnd

\* Controls and commit results.
LEMMA CausedControls ==
    ASSUME CInv, NEW s \in Sid,
           \/ ControlExpired(s) \/ AcceptRefused(s)
           \/ \E recorded \in BOOLEAN : Dismiss(s, recorded)
           \/ \E word \in BOOLEAN, recorded \in BOOLEAN : Accept(s, word, recorded)
           \/ CommitApplied(s) \/ CommitDispatched(s)
           \/ CommitRefused(s) \/ CommitLate(s)
    PROVE  Caused
<1> DEFINE x == sess[s]
<1>0. /\ x \in Session /\ (s \in live => Sound(s, x, offers, withheld)) /\ IInv
      /\ offers \in [Issued -> Offer] /\ live \subseteq Sid
  BY DEF CInv, IInv, TypeOK, SessionsSound
<1>1. CASE ControlExpired(s) \/ \E recorded \in BOOLEAN : Dismiss(s, recorded)
  <2> DEFINE v == [x EXCEPT !.visible = 0]
             z == [v EXCEPT !.gen = @ + 1]
  <2>1. PICK y : /\ sess' = [sess EXCEPT ![s] = y] /\ UNCHANGED live /\ s \in live /\ Clear({s})
                 /\ y = v \/ y = z
    <3>1. [sess EXCEPT ![s].visible = 0, ![s].gen = @ + 1] = [sess EXCEPT ![s] = z]
      BY <1>0 DEF IInv, TypeOK
    <3> HIDE DEF z
    <3> QED
      BY <1>1, <3>1 DEF ControlExpired, Dismiss, Controllable, DataAccess
  <2>2. v \in Session
    BY <1>0, Fields
  <2>3. /\ y.visible = 0 /\ y.pending = x.pending /\ y.ctx = x.ctx /\ y.coord = x.coord
        /\ y.seen = x.seen
    <3>1. /\ v.visible = 0 /\ v.pending = x.pending /\ v.ctx = x.ctx /\ v.coord = x.coord
          /\ v.seen = x.seen
      BY <1>0 DEF Session
    <3> HIDE DEF v
    <3> QED
      BY <2>1, <2>2, <3>1 DEF Session
  <2>4. CtxMove(s, x, y)
    BY <2>3 DEF CtxMove
  <2>5. Moves
    BY <1>0, <2>1, <2>3, <2>4, OneCleared
  <2>6. issued' = issued /\ \A i \in Issued : offers'[i].grant = offers[i].grant
    <3>1. \A i, j \in Issued : offers[i].grant = [offers EXCEPT ![j].spent = @ + 1][i].grant
      BY <1>0 DEF Offer
    <3>2. ASSUME NEW recorded \in BOOLEAN, Dismiss(s, recorded), recorded
          PROVE  /\ offers' = [offers EXCEPT ![offers[x.visible].fund].spent = @ + 1]
                 /\ offers[x.visible].fund # 0 /\ x.visible \in Issued
      BY <1>0, <3>2 DEF Dismiss, Charge, Funded, Controllable, Session, NoneOr
    <3>3. \A i \in Issued : offers[i].fund \in Issued \cup {0}
      BY <1>0 DEF Offer, NoneOr
    <3>4. issued' = issued
      BY <1>1 DEF ControlExpired, Dismiss
    <3>5. CASE UNCHANGED offers
      BY <3>4, <3>5
    <3>6. CASE \E recorded \in BOOLEAN : Dismiss(s, recorded) /\ recorded
      <4>1. PICK recorded \in BOOLEAN : Dismiss(s, recorded) /\ recorded
        BY <3>6
      <4>2. PICK j : j = offers[x.visible].fund
        OBVIOUS
      <4>3. j \in Issued /\ offers' = [offers EXCEPT ![j].spent = @ + 1]
        BY <3>2, <3>3, <4>1, <4>2
      <4> QED
        BY <3>1, <3>4, <4>3
    <3> QED
      BY <1>1, <3>5, <3>6 DEF ControlExpired, Dismiss
  <2> QED
    BY <2>5, <2>6 DEF Caused, GrantMove, NewMove
<1>2. CASE AcceptRefused(s)
  <2> DEFINE y == [x EXCEPT !.visible = 0]
  <2>1. /\ sess' = [sess EXCEPT ![s] = y] /\ UNCHANGED <<live, screen, issued, offers>> /\ s \in live
        /\ \/ ConnOf[s] \notin Granters /\ UNCHANGED link
           \/ ~Reached(s) /\ Send({s})
    BY <1>2 DEF AcceptRefused, Controllable, DataAccess
  <2>2. /\ y.visible = 0 /\ y.pending = x.pending /\ y.ctx = x.ctx /\ y.coord = x.coord
        /\ y.seen = x.seen
    BY <1>0 DEF Session
  <2> HIDE DEF y
  <2>3. CtxMove(s, x, y) /\ SlotMove(x, y)
    BY <2>2 DEF CtxMove, SlotMove
  <2>4. CASE ConnOf[s] \notin Granters /\ UNCHANGED link
    <3>1. ASSUME NEW r \in Sid PROVE ScreenMove(r)
      <4>1. CASE r = s
        BY <2>4, <4>1 DEF ScreenMove
      <4>2. CASE r # s
        <5>1. Offered(r)' = Offered(r)
          BY <1>0, <2>1, <4>2, OfferedOne
        <5> QED
          BY <1>0, <2>1, <2>4, <5>1, ScreenSame
      <4> QED
        BY <4>1, <4>2
    <3>2. Moves
      BY <1>0, <2>1, <2>3, <3>1, OneMoves
    <3> QED
      BY <2>1, <3>2, OffersSame DEF Caused
  <2>5. CASE ~Reached(s) /\ Send({s})
    BY <2>1, <2>2, <2>3, <2>5, RefusedCaused
  <2> QED
    BY <2>1, <2>4, <2>5
<1>3. ASSUME NEW word \in BOOLEAN, NEW recorded \in BOOLEAN, Accept(s, word, recorded)
      PROVE  Caused
  <2> DEFINE id == x.visible
             w == ArmLease(x)
             y == [w EXCEPT !.visible = 0, !.pending = id]
             charged == IF recorded THEN Charge(id) ELSE offers
  <2>1. /\ sess' = [sess EXCEPT ![s] = y] /\ UNCHANGED <<live, issued, link>>
        /\ screen' = [screen EXCEPT ![s] = 0]
        /\ s \in live /\ id # 0 /\ Live(id)
        /\ offers' = [charged EXCEPT ![id].grant = "running"]
    BY <1>3 DEF Accept, Controllable, DataAccess
  <2>2. /\ w \in Session /\ w.ctx = x.ctx /\ w.coord = x.coord /\ w.seen = x.seen
    BY <1>0, SessionOps, Armed, SeenKept
  <2> HIDE DEF w
  <2>3. y.visible = 0 /\ y.pending = id /\ y.ctx = x.ctx /\ y.coord = x.coord /\ y.seen = x.seen
    BY <2>2 DEF Session
  <2> HIDE DEF y
  <2>4. CtxMove(s, x, y) /\ SlotMove(x, y)
    BY <2>1, <2>3 DEF CtxMove, SlotMove
  <2>5. ASSUME NEW r \in Sid PROVE ScreenMove(r)
    <3>1. Offered(r)' = IF r = s THEN 0 ELSE Offered(r)
      BY <1>0, <2>1, <2>3, OfferedOne
    <3>2. screen'[r] = IF r = s THEN 0 ELSE screen[r]
      BY <1>0, <2>1 DEF IInv, TypeOK
    <3> QED
      BY <2>1, <3>1, <3>2 DEF ScreenMove
  <2>6. Moves
    BY <1>0, <2>1, <2>4, <2>5, OneMoves
  <2>7. GrantMove
    <3>1. \A i \in Issued : i \in DOMAIN charged /\ charged[i].grant = offers[i].grant
      BY <1>0 DEF Charge, Offer
    <3>2. \A i \in Issued : i # id => offers'[i] = charged[i]
      BY <2>1, <3>1
    <3>3. sess[s].visible = id /\ sess'[s].visible = 0
      BY <1>0, <2>1, <2>3 DEF IInv, TypeOK
    <3> QED
      BY <2>1, <3>1, <3>2, <3>3 DEF GrantMove
  <2> QED
    BY <2>1, <2>6, <2>7 DEF Caused, NewMove
<1>4. ASSUME NEW y, sess' = [sess EXCEPT ![s] = y], UNCHANGED <<live, issued, offers, screen>>,
             s \in live, x.pending # 0, y.visible = 0, y.pending = 0, y.ctx \in {0, x.ctx},
             y.coord = x.coord, y.seen = x.seen, NEW S, Send(S) \/ UNCHANGED link
      PROVE  Caused
  <2>1. x.visible = 0
    BY <1>0, <1>4 DEF Sound
  <2>2. CtxMove(s, x, y)
    BY <1>4 DEF CtxMove
  <2>3. Moves
    BY <1>0, <1>4, <2>1, <2>2, OneSilent
  <2> QED
    BY <1>4, <2>3, OffersSame DEF Caused
<1>5. CASE CommitApplied(s)
  <2> DEFINE w == InvalidateLease(x)
             y == Committed(x)
  <2>1. w \in Session /\ w.coord = x.coord /\ w.seen = x.seen
    BY <1>0, SessionOps, Unleased, SeenKept
  <2>2. y = [w EXCEPT !.pending = 0, !.gen = @ + 1, !.token = 0,
                      !.ctx = 0, !.visible = 0]
    BY DEF Committed
  <2> HIDE DEF w
  <2>3. y.visible = 0 /\ y.pending = 0 /\ y.ctx = 0 /\ y.coord = x.coord /\ y.seen = x.seen
    BY <2>1, <2>2 DEF Session
  <2>4. /\ sess' = [sess EXCEPT ![s] = y] /\ UNCHANGED <<live, issued, offers, screen, link>>
        /\ s \in live /\ x.pending # 0
    BY <1>5 DEF CommitApplied
  <2> HIDE DEF y
  <2> QED
    BY <1>4, <2>3, <2>4
<1>6. CASE CommitDispatched(s)
  <2> DEFINE w == InvalidateLease(x)
             y == [w EXCEPT !.pending = 0, !.ctx = 0]
  <2>1. /\ sess' = [sess EXCEPT ![s] = y] /\ UNCHANGED <<live, issued, offers, screen, link>>
        /\ s \in live /\ x.pending # 0
    BY <1>6 DEF CommitDispatched
  <2>2. w \in Session /\ w.visible = 0 /\ w.coord = x.coord /\ w.seen = x.seen
    BY <1>0, <2>1, SessionOps, Unleased, SeenKept DEF Sound
  <2> HIDE DEF w
  <2>3. y.visible = 0 /\ y.pending = 0 /\ y.ctx = 0 /\ y.coord = x.coord /\ y.seen = x.seen
    BY <2>2 DEF Session
  <2> HIDE DEF y
  <2> QED
    BY <1>4, <2>1, <2>3
<1>7. CASE CommitRefused(s)
  <2> DEFINE w == [x EXCEPT !.pending = 0]
             y == Revoke(w)
  <2>1. /\ sess' = [sess EXCEPT ![s] = y] /\ UNCHANGED <<live, issued, offers>>
        /\ s \in live /\ x.pending # 0
    BY <1>7 DEF CommitRefused
  <2>2. x.visible = 0
    BY <1>0, <2>1 DEF Sound
  <2>3. UNCHANGED screen /\ Send({r \in {s} : sess[r].visible # 0})
    BY <1>0, <1>7, <2>2 DEF CommitRefused, IInv, TypeOK
  <2>4. w \in Session /\ w.coord = x.coord /\ w.seen = x.seen
    BY <1>0, Fields DEF Session
  <2> HIDE DEF w
  <2>5. y.visible = 0 /\ y.pending = 0 /\ y.ctx = 0 /\ y.coord = x.coord /\ y.seen = x.seen
    BY <2>4, Revoked, SeenKept
  <2> HIDE DEF y
  <2> QED
    BY <1>4, <2>1, <2>3, <2>5
<1>8. CASE CommitLate(s)
  <2> DEFINE y == [x EXCEPT !.pending = 0]
  <2>1. /\ sess' = [sess EXCEPT ![s] = y] /\ UNCHANGED <<live, issued, offers, screen>>
        /\ s \in live /\ x.pending # 0 /\ Send({s})
    BY <1>8 DEF CommitLate
  <2>2. x.visible = 0
    BY <1>0, <2>1 DEF Sound
  <2>3. y.visible = 0 /\ y.pending = 0 /\ y.ctx = x.ctx /\ y.coord = x.coord /\ y.seen = x.seen
    BY <1>0, <2>2 DEF Session
  <2> HIDE DEF y
  <2> QED
    BY <1>4, <2>1, <2>3
<1> QED
  BY <1>1, <1>2, <1>3, <1>5, <1>6, <1>7, <1>8

\* Timers.
LEMMA CausedTimers ==
    ASSUME CInv, NEW i \in Issued,
           DeadlinePasses(i) \/ ExpireSuggestion(i) \/ GrantLapses(i) \/ ExpireGrant(i)
    PROVE  Caused
<1> DEFINE s == offers[i].sid
           x == sess[s]
           v == [x EXCEPT !.visible = 0]
           p == [x EXCEPT !.pending = 0]
<1>0. /\ IInv /\ s \in Sid /\ x \in Session /\ offers \in [Issued -> Offer]
      /\ offers[i] \in Offer
  <2>1. IInv /\ s \in Sid /\ offers[i] \in Offer
    BY DEF CInv, IInv, TypeOK, Offer
  <2> QED
    BY <2>1 DEF IInv, TypeOK
<1>1. UNCHANGED <<live, issued>>
  BY DEF DeadlinePasses, ExpireSuggestion, GrantLapses, ExpireGrant
<1>2. GrantMove /\ NewMove
  <2>1. \A j \in Issued : j # i => offers'[j] = offers[j]
    BY <1>0 DEF DeadlinePasses, ExpireSuggestion, GrantLapses, ExpireGrant
  <2>2. offers'[i].grant = offers[i].grant \/ offers[i].grant # "none"
    <3>1. CASE DeadlinePasses(i) \/ ExpireSuggestion(i)
      BY <1>0, <3>1 DEF DeadlinePasses, ExpireSuggestion, Offer
    <3>2. CASE GrantLapses(i) \/ ExpireGrant(i)
      BY <3>2 DEF GrantLapses, ExpireGrant
    <3> QED
      BY <3>1, <3>2
  <2> QED
    BY <1>1, <2>1, <2>2 DEF GrantMove, NewMove
<1>3. CASE UNCHANGED <<sess, screen, link>>
  BY <1>0, <1>1, <1>2, <1>3, NoneMoves DEF Caused
<1>4. CASE s \in live /\ sess' = [sess EXCEPT ![s] = v] /\ Clear({s})
  <2>1. /\ v.visible = 0 /\ v.pending = x.pending /\ v.ctx = x.ctx /\ v.coord = x.coord
        /\ v.seen = x.seen
    BY <1>0 DEF Session
  <2> HIDE DEF v
  <2>2. CtxMove(s, x, v)
    BY <2>1 DEF CtxMove
  <2>3. Moves
    BY <1>0, <1>1, <1>4, <2>1, <2>2, OneCleared
  <2> QED
    BY <1>2, <2>3 DEF Caused
<1>5. CASE s \in live /\ sess' = [sess EXCEPT ![s] = p] /\ Send({s}) /\ UNCHANGED screen
  <2>1. /\ p.visible = x.visible /\ p.pending = 0 /\ p.ctx = x.ctx /\ p.coord = x.coord
        /\ p.seen = x.seen
    BY <1>0 DEF Session
  <2> HIDE DEF p
  <2>2. CtxMove(s, x, p)
    BY <2>1 DEF CtxMove
  <2>3. Moves
    BY <1>0, <1>1, <1>5, <2>1, <2>2, OneSilent
  <2> QED
    BY <1>2, <2>3 DEF Caused
<1>6. CASE DeadlinePasses(i) \/ GrantLapses(i)
  BY <1>3, <1>6 DEF DeadlinePasses, GrantLapses
<1>7. CASE ExpireSuggestion(i)
  BY <1>3, <1>4, <1>7 DEF ExpireSuggestion
<1>8. CASE ExpireGrant(i)
  BY <1>3, <1>5, <1>8 DEF ExpireGrant
<1> QED
  BY <1>6, <1>7, <1>8

\* Connections and the switches of authority.
LEMMA CausedSwitches ==
    ASSUME CInv,
           \/ \E c \in Conn : CloseOwned(c) \/ Teardown(c) \/ Fill(c) \/ Drain(c)
           \/ Switches
    PROVE  Caused
<1>0. IInv /\ live \subseteq Sid /\ \A r \in Sid : ConnOf[r] \in Conn
  BY TargetAssumption DEF CInv, IInv, TypeOK
<1>1. GrantMove /\ NewMove
  <2>1. UNCHANGED <<offers, issued>>
    BY DEF CloseOwned, Teardown, Fill, Drain, Switches, Withhold, Release, CloseAll
  <2> QED
    BY <2>1, OffersSame
<1>2. ASSUME NEW S \in SUBSET live, Close(S)
      PROVE  Moves
  BY <1>0, <1>2, RevokedMoves DEF Close, Withdraw
<1>3. ASSUME NEW c \in Conn, CloseOwned(c)
      PROVE  Moves
  <2>1. Owned(c) \in SUBSET live
    BY DEF Owned
  <2> QED
    BY <1>2, <1>3, <2>1 DEF CloseOwned
<1>4. ASSUME NEW c \in Conn, Teardown(c)
      PROVE  Moves
  <2>1. /\ live' = live \ Owned(c) /\ link' = [link EXCEPT ![c] = "gone"]
        /\ \A r \in Sid : sess'[r] = IF r \in Owned(c) THEN Revoke(sess[r]) ELSE sess[r]
        /\ \A r \in Sid : screen'[r] = IF ConnOf[r] = c THEN 0 ELSE screen[r]
    BY <1>4 DEF Teardown
  <2>2. ASSUME NEW r \in Sid PROVE ScreenMove(r)
    <3>1. CASE ConnOf[r] = c
      <4>1. link'[ConnOf[r]] = "gone"
        BY <1>0, <2>1, <3>1 DEF IInv, TypeOK
      <4> QED
        BY <4>1 DEF ScreenMove
    <3>2. CASE ConnOf[r] # c
      <4>1. link'[ConnOf[r]] = link[ConnOf[r]] /\ screen'[r] = screen[r] /\ r \notin Owned(c)
        BY <1>0, <2>1, <3>2 DEF IInv, TypeOK, Owned
      <4>2. Offered(r)' = Offered(r)
        BY <2>1, <4>1 DEF Offered
      <4> QED
        BY <4>1, <4>2 DEF ScreenMove
    <3> QED
      BY <3>1, <3>2
  <2>3. \A r \in live \cap live' : sess'[r] = sess[r]
    BY <1>0, <2>1
  <2>4. \A r, x : CtxMove(r, x, x) /\ SlotMove(x, x)
    BY DEF CtxMove, SlotMove
  <2>5. ASSUME NEW r \in live PROVE SlotMove(sess[r], sess'[r])
    <3>1. sess[r] \in Session /\ r \in Sid
      BY <1>0 DEF IInv, TypeOK
    <3>2. r \in Owned(c) => sess'[r].visible = 0 /\ sess'[r].pending = 0
      BY <2>1, <3>1, Revoked
    <3> QED
      BY <2>1, <2>4, <3>1, <3>2 DEF SlotMove
  <2> QED
    BY <2>1, <2>2, <2>3, <2>4, <2>5 DEF Moves
<1>5. ASSUME NEW c \in Conn, Fill(c) \/ Drain(c)
      PROVE  Moves
  <2>1. UNCHANGED <<sess, live, screen, link>>
    BY <1>5 DEF Fill, Drain
  <2> QED
    BY <1>0, <2>1, NoneMoves
<1>6. ASSUME NEW A \in SUBSET App, Withhold(A)
      PROVE  Moves
  <2> DEFINE S == {s \in live : AppOf[s] \in A}
  <2>1. /\ S \in SUBSET live /\ live' = live /\ Clear(S) /\ withheld' = withheld \cup A
        /\ sess' = [s \in Sid |-> IF s \in S THEN Revoke(sess[s]) ELSE sess[s]]
    BY <1>6 DEF Withhold, Withdraw
  <2>2. \A s \in S : AppOf[s] \in withheld'
    BY <2>1
  <2> HIDE DEF S
  <2> QED
    BY <1>0, <2>1, <2>2, RevokedMoves
<1>7. ASSUME NEW A \in SUBSET App, Release(A)
      PROVE  Moves
  <2>1. UNCHANGED <<sess, live, screen, link>>
    BY <1>7 DEF Release
  <2> QED
    BY <1>0, <2>1, NoneMoves
<1>8. ASSUME NEW A \in SUBSET App, CloseAll(A)
      PROVE  Moves
  BY <1>2, <1>8 DEF CloseAll
<1> QED
  BY <1>1, <1>3, <1>4, <1>5, <1>6, <1>7, <1>8 DEF Caused, Switches

LEMMA CausedNext ==
    ASSUME CInv, [Next]_vars
    PROVE  Caused
<1>1. ASSUME NEW s \in Sid, Client(s) \/ LeaseDue(s) \/ LeaseExpire(s) \/ StrayLease(s)
      PROVE  Caused
  BY <1>1, CausedSessions, CausedRequests, CausedControls DEF Client
<1>2. CASE UNCHANGED vars
  BY <1>2, NoneMoves, OffersSame DEF vars, Caused, CInv
<1> QED
  BY <1>1, <1>2, CausedRequests, CausedTasks, CausedTimers, CausedSwitches DEF Next

\* The engine's invariant, and what the adapters and the timers rely on.
THEOREM CausesHold == Spec => []CInv
<1>1. Init => CInv
  BY IInvInit DEF CInv, Init, Marked, Screened, Offered
<1>2. CInv /\ [Next]_vars => CInv'
  <2> SUFFICES ASSUME CInv, [Next]_vars PROVE CInv'
    OBVIOUS
  <2>1. IInv'
    BY TypedNext, KeptNext, CarryCurrent DEF CInv, IInv, Kept
  <2> QED
    BY <2>1, CausedNext, CausesKeep DEF CInv
<1> QED
  BY <1>1, <1>2, PTL DEF Spec

\* A suggestion is granted once, before its deadline, and a context goes only
\* with its lease, a commit or a switch (acceptance.rs, session.rs).
THEOREM StepsAreCaused == Spec => StepsHaveCause
<1>1. CInv /\ [Next]_vars =>
        /\ \A s \in live : sess'[s].pending \notin {0, sess[s].pending} =>
              LET o == offers[sess'[s].pending]
              IN  o.grant = "none" /\ ~offers[o.root].lapsed
        /\ \A i \in (1 .. issued') \ (1 .. issued) :
              offers'[i].root # i => ~offers[offers'[i].root].lapsed
  <2> SUFFICES ASSUME CInv, [Next]_vars, NEW s \in live,
                      sess'[s].pending \notin {0, sess[s].pending}
               PROVE  /\ offers[sess'[s].pending].grant = "none"
                      /\ ~offers[offers[sess'[s].pending].root].lapsed
    BY CausedNext DEF Caused, NewMove
  <2>1. SlotMove(sess[s], sess'[s])
    BY CausedNext DEF Caused, Moves
  <2>2. /\ sess'[s].pending = sess[s].visible /\ sess[s].visible # 0
        /\ Live(sess[s].visible)
    BY <2>1 DEF SlotMove
  <2> QED
    BY <2>2 DEF Live, CInv, Marked
<1>2. CInv /\ [Next]_vars =>
        \A s \in live \cap live' :
            sess[s].ctx # 0 /\ sess'[s].ctx = 0 /\ sess'[s].coord = sess[s].coord =>
                \/ sess[s].lease = "due"
                \/ sess[s].pending # 0
                \/ AppOf[s] \in withheld'
  BY CausedNext DEF Caused, Moves, CtxMove, CInv, Marked
<1> QED
  BY <1>1, <1>2, CausesHold, PTL DEF Spec, StepsHaveCause, NoRevival, LossHasCause

\* What the adapter was last told to display is what the broker would let it
\* accept (session.rs, acceptance.rs), on a connection that works.
THEOREM ScreensAgree == Spec => []ScreenAgrees
<1>1. CInv => ScreenAgrees
  BY DEF CInv, IInv, TypeOK, Screened, ScreenAgrees, Offered
<1> QED
  BY <1>1, CausesHold, PTL

-----------------------------------------------------------------------------
(* A call that is awaited runs, where no alternatives are asked for        *)

\* A task that could still end a session's wait was spawned where the session
\* stands, and is a plain one.
Plain(t) ==
    /\ t.kind \in {"plain", "abstain"}
    /\ t.gen = sess[t.sid].gen => t.coord = sess[t.sid].coord

Awaits(s, t) == t.kind # "abstain" /\ t.sid = s /\ ~t.cancelled

AInv ==
    /\ plans = {} /\ \A s \in Sid : sess[s].list = 0
    /\ \A t \in tasks : Plain(t)
    /\ \A s \in live : sess[s].token # 0 => \E t \in tasks : Awaits(s, t) /\ t.gen = sess[s].token

\* The generation and place of a session go on together.
Onward(x, y) == y.gen >= x.gen /\ (y.gen = x.gen => y.coord = x.coord)

\* The transitions list nothing.
LEMMA ListKept ==
    ASSUME NEW x \in Session
    PROVE  /\ InvalidateLease(x).list = x.list /\ ArmLease(x).list = x.list
           /\ RetireGeneration(x).list = x.list /\ Revoke(x).list = x.list
           /\ Bind(x).list = x.list
<1>1. \A y \in Session : InvalidateLease(y).list = y.list
  BY DEF InvalidateLease, Session
<1>2. \A y \in Session : RetireGeneration(y).list = y.list
  BY DEF RetireGeneration, Session
<1>3. \A y \in Session : ArmLease(y).list = y.list
  <2>1. \A y \in Session : [y EXCEPT !.lease = "armed"].list = y.list
    BY DEF Session
  <2> QED
    BY <1>1, <2>1, SessionOps DEF ArmLease
<1>4. \A y \in Session : [y EXCEPT !.ctx = 0].list = y.list /\ [y EXCEPT !.gen = @ + 1].list = y.list
  BY DEF Session
<1>5. Revoke(x).list = x.list
  BY <1>1, <1>2, <1>4, SessionOps DEF Revoke
<1>6. Bind(x).list = x.list
  <2>1. [RetireGeneration(x) EXCEPT !.gen = @ + 1] \in Session
    BY SessionOps, Fields
  <2> QED
    BY <1>2, <1>3, <1>4, <2>1, SessionOps DEF Bind
<1> QED
  BY <1>1, <1>2, <1>3, <1>5, <1>6

\* Work stays in place when sessions go onward, tasks are only ended or
\* spawned where their session stands, and no wait loses its task.
LEMMA WorkStep ==
    ASSUME CInv, AInv, plans' = {},
           \A r \in opened : Onward(sess[r], sess'[r]),
           \A r \in Sid : sess'[r].list = 0,
           \A u \in tasks' :
               \/ \E t \in tasks : u.sid = t.sid /\ u.gen = t.gen /\ u.coord = t.coord /\ u.kind = t.kind
               \/ /\ u.sid \in Sid /\ u.gen = sess'[u.sid].gen /\ u.coord = sess'[u.sid].coord
                  /\ u.kind \in {"plain", "abstain"},
           \A r \in live' : sess'[r].token # 0 =>
               \/ \E u \in tasks' : Awaits(r, u) /\ u.gen = sess'[r].token
               \/ /\ r \in live /\ sess'[r].token = sess[r].token
                  /\ \A t \in tasks : Awaits(r, t) /\ t.gen = sess[r].token => t \in tasks'
    PROVE  AInv'
<1>2. ASSUME NEW u \in tasks' PROVE Plain(u)'
  <2>1. CASE u.sid \in Sid /\ u.gen = sess'[u.sid].gen /\ u.coord = sess'[u.sid].coord
             /\ u.kind \in {"plain", "abstain"}
    BY <2>1 DEF Plain
  <2>2. ASSUME NEW t \in tasks, u.sid = t.sid, u.gen = t.gen, u.coord = t.coord, u.kind = t.kind
        PROVE  Plain(u)'
    <3>1. /\ Plain(t) /\ t.sid \in opened /\ t.gen \in Nat /\ t.gen <= sess[t.sid].gen
          /\ sess[t.sid].gen \in Nat /\ sess'[t.sid].gen >= sess[t.sid].gen
          /\ sess'[t.sid].gen = sess[t.sid].gen => sess'[t.sid].coord = sess[t.sid].coord
      <4>1. t.sid \in opened /\ t.sid \in Sid /\ t.gen \in Nat /\ Placed(t) /\ Plain(t)
        BY DEF Placed, CInv, IInv, TypeOK, Task, TasksPlaced, AInv
      <4>2. sess[t.sid].gen \in Nat
        BY <4>1 DEF CInv, IInv, TypeOK, Session
      <4> QED
        BY <4>1, <4>2 DEF Placed, Onward
    <3>2. t.gen = sess'[t.sid].gen => sess'[t.sid].gen = sess[t.sid].gen
      <4> DEFINE g == sess'[t.sid].gen
      <4>1. t.gen = g => g \in Nat /\ g <= sess[t.sid].gen /\ g >= sess[t.sid].gen
        BY <3>1
      <4> HIDE DEF g
      <4>2. t.gen = g => g = sess[t.sid].gen
        BY <3>1, <4>1
      <4> QED
        BY <4>2 DEF g
    <3> QED
      BY <2>2, <3>1, <3>2 DEF Plain
  <2> QED
    BY <2>1, <2>2
<1>3. ASSUME NEW r \in live', sess'[r].token # 0
      PROVE  \E u \in tasks' : Awaits(r, u) /\ u.gen = sess'[r].token
  BY <1>3 DEF AInv
<1> QED
  BY <1>2, <1>3 DEF AInv, Awaits

\* After the step, a task is one that was, or one the session spawned as y; and
\* what the session awaits runs.
Spawned(s, y) == \A u \in tasks' :
    \/ \E t \in tasks : u.sid = t.sid /\ u.gen = t.gen /\ u.coord = t.coord /\ u.kind = t.kind
    \/ u.sid = s /\ u.gen = y.gen /\ u.coord = y.coord /\ u.kind \in {"plain", "abstain"}
StillAwaits(s, y) == s \in live /\ y.token # 0 =>
    \/ \E u \in tasks' : Awaits(s, u) /\ u.gen = y.token
    \/ /\ y.token = sess[s].token
       /\ \A t \in tasks : Awaits(s, t) /\ t.gen = sess[s].token => t \in tasks'

\* One session goes on, the others keep their work.
LEMMA WorkOne ==
    ASSUME CInv, AInv, plans' = {}, NEW s \in Sid, NEW y, sess' = [sess EXCEPT ![s] = y],
           live' = live, Onward(sess[s], y), y.list = 0,
           \A t \in tasks : t.sid # s => t \in tasks',
           Spawned(s, y), StillAwaits(s, y)
    PROVE  AInv'
<1>1. sess'[s] = y /\ \A r \in Sid \ {s} : sess'[r] = sess[r]
  BY DEF CInv, IInv, TypeOK
<1>2. live \subseteq Sid /\ opened \subseteq Sid /\ \A r \in Sid : sess[r] \in Session
  BY DEF CInv, IInv, TypeOK
<1>3. \A r \in opened : Onward(sess[r], sess'[r])
  <2>1. \A r \in Sid : sess[r].gen \in Nat
    BY <1>2 DEF Session
  <2>2. \A r \in opened : r # s => Onward(sess[r], sess'[r])
    BY <1>1, <1>2, <2>1 DEF Onward
  <2> QED
    BY <1>1, <2>2
<1>4. \A r \in Sid : sess'[r].list = 0
  BY <1>1 DEF AInv
<1>5. ASSUME NEW r \in live', sess'[r].token # 0
      PROVE  \/ \E u \in tasks' : Awaits(r, u) /\ u.gen = sess'[r].token
             \/ /\ r \in live /\ sess'[r].token = sess[r].token
                /\ \A t \in tasks : Awaits(r, t) /\ t.gen = sess[r].token => t \in tasks'
  <2>1. CASE r = s
    BY <1>1, <1>5, <2>1 DEF StillAwaits
  <2>2. CASE r # s
    BY <1>1, <1>2, <2>2 DEF Awaits
  <2> QED
    BY <2>1, <2>2
<1>6. ASSUME NEW u \in tasks'
      PROVE  \/ \E t \in tasks : u.sid = t.sid /\ u.gen = t.gen /\ u.coord = t.coord /\ u.kind = t.kind
             \/ /\ u.sid \in Sid /\ u.gen = sess'[u.sid].gen /\ u.coord = sess'[u.sid].coord
                /\ u.kind \in {"plain", "abstain"}
  BY <1>1 DEF Spawned
<1> QED
  BY <1>3, <1>4, <1>5, <1>6, WorkStep

\* The tasks of other sessions are not cancelled.
LEMMA CancelledOthers ==
    ASSUME CInv, NEW S
    PROVE  /\ \A t \in tasks : t.sid \notin S => t \in Cancelled(S)
           /\ \A u \in Cancelled(S) :
                \E t \in tasks : u.sid = t.sid /\ u.gen = t.gen /\ u.coord = t.coord /\ u.kind = t.kind
<1>1. tasks \subseteq Task
  BY DEF CInv, IInv, TypeOK
<1>2. \A t \in Task : LET u == [t EXCEPT !.cancelled = TRUE] IN
        u.sid = t.sid /\ u.gen = t.gen /\ u.coord = t.coord /\ u.kind = t.kind
  BY DEF Task
<1> QED
  BY <1>1, <1>2 DEF Cancelled

\* Sessions are revoked with their work.
LEMMA WorkRevoked ==
    ASSUME CInv, AInv, NEW S, live' \subseteq live, plans' = plans, tasks' = Cancelled(S),
           sess' = [s \in Sid |-> IF s \in S THEN Revoke(sess[s]) ELSE sess[s]]
    PROVE  AInv'
<1>1. /\ live \subseteq Sid /\ opened \subseteq Sid /\ plans' = {}
      /\ \A r \in Sid : sess[r] \in Session /\ sess[r].gen \in Nat /\ sess[r].list = 0
  BY DEF CInv, IInv, TypeOK, AInv, Session
<1>2. \A r \in Sid : /\ r \in S => sess'[r] = Revoke(sess[r])
                     /\ r \notin S => sess'[r] = sess[r]
  OBVIOUS
<1>3. ASSUME NEW r \in Sid PROVE Onward(sess[r], sess'[r]) /\ sess'[r].list = 0
                                 /\ (r \in S => sess'[r].token = 0)
  <2>1. CASE r \in S
    <3>1. /\ sess'[r].gen = sess[r].gen + 1 /\ sess'[r].token = 0 /\ sess'[r].list = 0
      BY <1>1, <1>2, <2>1, Revoked, ListKept
    <3> QED
      BY <1>1, <3>1 DEF Onward
  <2>2. CASE r \notin S
    BY <1>1, <1>2, <2>2 DEF Onward
  <2> QED
    BY <2>1, <2>2
<1>4. ASSUME NEW r \in live', sess'[r].token # 0
      PROVE  /\ r \in live /\ sess'[r].token = sess[r].token
             /\ \A t \in tasks : Awaits(r, t) /\ t.gen = sess[r].token => t \in tasks'
  BY <1>1, <1>2, <1>3, <1>4, CancelledOthers DEF Awaits
<1> QED
  BY <1>1, <1>3, <1>4, CancelledOthers, WorkStep

\* One session changes and no task does.
LEMMA WorkSame ==
    ASSUME CInv, AInv, plans' = {}, NEW s \in Sid, NEW y, sess' = [sess EXCEPT ![s] = y],
           UNCHANGED <<live, tasks>>, Onward(sess[s], y), y.list = 0,
           s \in live => y.token \in {0, sess[s].token}
    PROVE  AInv'
<1>1. Spawned(s, y) /\ StillAwaits(s, y)
  BY DEF Spawned, StillAwaits
<1> QED
  BY <1>1, WorkOne

\* One session gives up what it awaited.
LEMMA WorkEnded ==
    ASSUME CInv, AInv, plans' = {}, NEW s \in Sid, NEW y, sess' = [sess EXCEPT ![s] = y],
           live' = live, tasks' = Cancelled({s}), Onward(sess[s], y), y.list = 0, y.token = 0
    PROVE  AInv'
<1>1. \A t \in tasks : t.sid # s => t \in tasks'
  BY CancelledOthers
<1>2. Spawned(s, y) /\ StillAwaits(s, y)
  BY CancelledOthers DEF Spawned, StillAwaits
<1> QED
  BY <1>1, <1>2, WorkOne

LEMMA WorkSessions ==
    ASSUME CInv, AInv, NEW s \in Sid,
           \/ \E c \in Coords : OpenSession(s, c)
           \/ CloseSession(s)
           \/ \E c \in Coords, allowed \in BOOLEAN : UpdateContext(s, c, allowed)
           \/ LeaseDue(s) \/ LeaseExpire(s) \/ StrayLease(s)
           \/ CancelSuggestion(s)
    PROVE  AInv'
<1> DEFINE x == sess[s]
<1>0. /\ x \in Session /\ IInv /\ x.gen \in Nat /\ x.list = 0 /\ plans = {}
      /\ live \subseteq opened /\ opened \subseteq Sid
  BY DEF CInv, IInv, TypeOK, Session, AInv
<1>1. ASSUME NEW c \in Coords, OpenSession(s, c)
      PROVE  AInv'
  <2> DEFINE y == [Fresh EXCEPT !.coord = c]
  <2>1. y.list = 0 /\ y.token = 0
    BY DEF Fresh
  <2>2. /\ sess' = [sess EXCEPT ![s] = y] /\ live' = live \cup {s} /\ s \notin opened
        /\ UNCHANGED <<tasks, plans>>
    BY <1>0, <1>1 DEF OpenSession
  <2> HIDE DEF y
  <2>3. sess'[s] = y /\ \A r \in Sid \ {s} : sess'[r] = sess[r]
    BY <1>0, <2>2 DEF IInv, TypeOK
  <2>4. \A r \in opened : Onward(sess[r], sess'[r])
    <3>1. \A r \in Sid : sess[r].gen \in Nat
      BY <1>0 DEF IInv, TypeOK, Session
    <3> QED
      BY <1>0, <2>2, <2>3, <3>1 DEF Onward
  <2>5. \A r \in Sid : sess'[r].list = 0
    BY <2>1, <2>3 DEF AInv
  <2>6. ASSUME NEW r \in live', sess'[r].token # 0
        PROVE  r \in live /\ sess'[r].token = sess[r].token
    BY <1>0, <2>1, <2>2, <2>3, <2>6
  <2>7. \A u \in tasks' :
          \E t \in tasks : u.sid = t.sid /\ u.gen = t.gen /\ u.coord = t.coord /\ u.kind = t.kind
    BY <2>2
  <2> QED
    BY <1>0, <2>2, <2>4, <2>5, <2>6, <2>7, WorkStep
<1>2. CASE CloseSession(s)
  <2>1. /\ live' \subseteq live /\ plans' = plans /\ tasks' = Cancelled({s})
        /\ sess' = [r \in Sid |-> IF r \in {s} THEN Revoke(sess[r]) ELSE sess[r]]
    BY <1>2 DEF CloseSession, Close, Withdraw
  <2> QED
    BY <2>1, WorkRevoked
<1>3. ASSUME NEW c \in Coords, NEW allowed \in BOOLEAN, UpdateContext(s, c, allowed)
      PROVE  AInv'
  <2> DEFINE r == Revoke(x)
             y == [r EXCEPT !.coord = c, !.seen = TRUE]
             z == [ArmLease(y) EXCEPT !.ctx = c]
             new == IF allowed THEN z ELSE y
  <2>1. r \in Session /\ r.gen = x.gen + 1 /\ r.token = 0 /\ r.list = 0
    BY <1>0, SessionOps, Revoked, ListKept
  <2>2. /\ sess' = [sess EXCEPT ![s] = new] /\ UNCHANGED <<live, plans>> /\ tasks' = Cancelled({s})
    BY <1>3 DEF UpdateContext, Withdraw
  <2> HIDE DEF r
  <2>3. y \in Session /\ y.gen = x.gen + 1 /\ y.token = 0 /\ y.list = 0
    <3>1. y \in Session
      BY <2>1, Fields
    <3> QED
      BY <2>1, <3>1 DEF Session
  <2> HIDE DEF y
  <2>4. z.gen = x.gen + 1 /\ z.token = 0 /\ z.list = 0
    <3>1. ArmLease(y) \in Session
      BY <2>3, SessionOps
    <3> QED
      BY <2>3, <3>1, Armed, ListKept DEF Session
  <2> HIDE DEF z
  <2>5. new.gen = x.gen + 1 /\ new.token = 0 /\ new.list = 0
    BY <2>3, <2>4
  <2> HIDE DEF new
  <2>6. Onward(x, new)
    BY <1>0, <2>5 DEF Onward
  <2> QED
    BY <1>0, <2>2, <2>5, <2>6, WorkEnded
<1>4. CASE LeaseDue(s) \/ StrayLease(s)
  <2>1. PICK y : /\ sess' = [sess EXCEPT ![s] = y]
                 /\ y.gen = x.gen /\ y.coord = x.coord /\ y.token = x.token /\ y.list = 0
    <3>1. PICK y : /\ sess' = [sess EXCEPT ![s] = y]
                   /\ y = [x EXCEPT !.lease = "due"] \/ y = [x EXCEPT !.stray = FALSE]
      BY <1>4 DEF LeaseDue, StrayLease
    <3> QED
      BY <1>0, <3>1 DEF Session
  <2>2. UNCHANGED <<live, tasks, plans>>
    BY <1>4 DEF LeaseDue, StrayLease
  <2>3. Onward(x, y)
    BY <1>0, <2>1 DEF Onward
  <2> QED
    BY <1>0, <2>1, <2>2, <2>3, WorkSame
<1>5. CASE LeaseExpire(s)
  <2> DEFINE r == Revoke(x)
             y == [r EXCEPT !.stray = x.stray]
  <2>1. r \in Session /\ r.gen = x.gen + 1 /\ r.token = 0 /\ r.list = 0
    BY <1>0, SessionOps, Revoked, ListKept
  <2>2. /\ sess' = [sess EXCEPT ![s] = y] /\ UNCHANGED <<live, plans>> /\ tasks' = Cancelled({s})
    BY <1>5 DEF LeaseExpire, Withdraw
  <2> HIDE DEF r
  <2>3. y.gen = x.gen + 1 /\ y.token = 0 /\ y.list = 0
    BY <2>1 DEF Session
  <2> HIDE DEF y
  <2>4. Onward(x, y)
    BY <1>0, <2>3 DEF Onward
  <2> QED
    BY <1>0, <2>2, <2>3, <2>4, WorkEnded
<1>6. CASE CancelSuggestion(s)
  <2> DEFINE y == RetireGeneration(x)
  <2>1. /\ sess' = [sess EXCEPT ![s] = y] /\ UNCHANGED <<live, plans>> /\ tasks' = Cancelled({s})
    BY <1>6 DEF CancelSuggestion, Withdraw
  <2>2. y.gen = x.gen + 1 /\ y.token = 0 /\ y.list = 0
    BY <1>0, Retired, ListKept
  <2> HIDE DEF y
  <2>3. Onward(x, y)
    BY <1>0, <2>2 DEF Onward
  <2> QED
    BY <1>0, <2>1, <2>2, <2>3, WorkEnded
<1> QED
  BY <1>1, <1>2, <1>3, <1>4, <1>5, <1>6

\* Whatever admission does with a request spawns the task it waits for.
LEMMA WorkAdmit ==
    ASSUME CInv, AInv, NEW s \in Sid, Admit(s, "plain", 0), live' = live, plans' = plans
    PROVE  AInv'
<1> DEFINE x == Bind(sess[s])
<1>0. /\ sess[s] \in Session /\ x \in Session /\ s \in live /\ plans' = {}
      /\ sess[s].gen \in Nat /\ x.gen = sess[s].gen + 2 /\ x.token = 0 /\ x.list = 0
  <2>1. sess[s] \in Session /\ s \in live /\ sess[s].list = 0 /\ plans' = {} /\ sess[s].gen \in Nat
    BY DEF CInv, IInv, TypeOK, Admit, Admissible, DataAccess, AInv, Session
  <2> QED
    BY <2>1, SessionOps, Bound, ListKept
<1> HIDE DEF x
<1>1. ASSUME NEW y, sess' = [sess EXCEPT ![s] = y], y.gen >= sess[s].gen + 1, y.gen \in Nat,
             y.list = 0, y.token = 0, tasks' = Cancelled({s})
      PROVE  AInv'
  <2>1. Onward(sess[s], y)
    BY <1>0, <1>1 DEF Onward
  <2> QED
    BY <1>0, <1>1, <2>1, WorkEnded
<1>2. ASSUME NEW y, sess' = [sess EXCEPT ![s] = y], y.gen = x.gen, y.coord = x.coord,
             y.list = 0, NEW kind \in {"plain", "abstain"},
             tasks' = Cancelled({s}) \cup {NewTask(s, x, kind, 0)},
             y.token # 0 => y.token = x.gen /\ kind = "plain"
      PROVE  AInv'
  <2> DEFINE n == NewTask(s, x, kind, 0)
  <2>1. n.sid = s /\ n.gen = y.gen /\ n.coord = y.coord /\ n.kind = kind /\ ~n.cancelled
    BY <1>2 DEF NewTask
  <2>2. n \in tasks' /\ \A u \in tasks' : u = n \/ u \in Cancelled({s})
    BY <1>2
  <2> HIDE DEF n
  <2>3. Onward(sess[s], y)
    BY <1>0, <1>2 DEF Onward
  <2>4. \A t \in tasks : t.sid # s => t \in tasks'
    BY <1>2, CancelledOthers
  <2>5. Spawned(s, y)
    BY <1>2, <2>1, <2>2, CancelledOthers DEF Spawned
  <2>6. StillAwaits(s, y)
    <3>1. y.token # 0 => Awaits(s, n) /\ n.gen = y.token
      BY <1>2, <2>1 DEF Awaits
    <3> QED
      BY <2>2, <3>1 DEF StillAwaits
  <2> QED
    BY <1>0, <1>2, <2>3, <2>4, <2>5, <2>6, WorkOne
<1>3. CASE AdmitAbstain(s)
  BY <1>0, <1>2, <1>3 DEF AdmitAbstain, x
<1>4. CASE AdmitCarried(s)
  <2>1. PICK root, fund : AdmitShow(s, root, fund)
    BY <1>4 DEF AdmitCarried
  <2>2. /\ Show(s, x, root, fund, FALSE) \/ ShowRefused(s, x)
        /\ tasks' = Cancelled({s})
    BY <2>1 DEF AdmitShow, x
  <2> DEFINE z == [x EXCEPT !.token = 0]
             y == [x EXCEPT !.token = 0, !.list = 0, !.visible = issued + 1]
  <2>3. sess' = [sess EXCEPT ![s] = y] \/ sess' = [sess EXCEPT ![s] = z]
    BY <2>2 DEF Show, ShowRefused
  <2>4. /\ y.gen = x.gen /\ y.token = 0 /\ y.list = 0
        /\ z.gen = x.gen /\ z.token = 0 /\ z.list = 0
    BY <1>0 DEF Session
  <2> HIDE DEF y, z
  <2> QED
    BY <1>0, <1>1, <2>2, <2>3, <2>4
<1>5. CASE AdmitBusy(s)
  <2> DEFINE y == RetireGeneration(sess[s])
  <2>1. y.gen = sess[s].gen + 1 /\ y.token = 0 /\ y.list = 0
    <3>1. sess[s].list = 0
      BY DEF AInv
    <3> QED
      BY <1>0, <3>1, Retired, ListKept
  <2>3. y.gen >= sess[s].gen + 1 /\ y.gen \in Nat
    <3> HIDE DEF y
    <3> QED
      BY <1>0, <2>1
  <2>2. sess' = [sess EXCEPT ![s] = y] /\ tasks' = Cancelled({s})
    BY <1>5 DEF AdmitBusy, Withdraw
  <2> HIDE DEF y
  <2> QED
    BY <1>1, <2>1, <2>2, <2>3
<1>6. CASE AdmitGenerate(s, "plain", 0)
  <2> DEFINE y == [x EXCEPT !.token = x.gen]
  <2>1. sess' = [sess EXCEPT ![s] = y] /\ tasks' = Cancelled({s}) \cup {NewTask(s, x, "plain", 0)}
    BY <1>6 DEF AdmitGenerate, x
  <2>2. y.gen = x.gen /\ y.coord = x.coord /\ y.list = 0 /\ y.token = x.gen
    BY <1>0 DEF Session
  <2> HIDE DEF y
  <2> QED
    BY <1>0, <1>2, <2>1, <2>2
<1> QED
  BY <1>3, <1>4, <1>5, <1>6 DEF Admit

\* A task ends: its session awaits nothing more, or never awaited this one.
LEMMA WorkTasks ==
    ASSUME CInv, AInv, Alternatives = {}, NEW t \in tasks, TaskEnd(t)
    PROVE  AInv'
<1> DEFINE s == t.sid
           x == sess[s]
<1>0. /\ x \in Session /\ s \in Sid /\ Placed(t) /\ Plain(t) /\ IInv
      /\ x.gen \in Nat /\ x.list = 0 /\ plans = {} /\ t.gen # 0
      /\ (s \in live => Sound(s, x, offers, withheld))
  <2>1. s \in Sid /\ Placed(t) /\ Plain(t) /\ IInv /\ plans = {}
    BY DEF CInv, IInv, TypeOK, Task, TasksPlaced, AInv
  <2>2. x \in Session /\ x.list = 0 /\ (s \in live => Sound(s, x, offers, withheld))
    BY <2>1 DEF CInv, IInv, TypeOK, AInv, SessionsSound
  <2>3. x.gen \in Nat
    BY <2>2 DEF Session
  <2>4. t.gen # 0
    BY <2>1, <2>3 DEF Placed
  <2> QED
    BY <2>1, <2>2, <2>3, <2>4
<1>1. tasks' = tasks \ {t} /\ live' = live /\ plans' = {}
  BY <1>0 DEF TaskEnd, EndCancelled, EndFailed, EndStale, EndWithheld, EndShow, EndList,
              EndFallback, Ends, Idle
<1>2. \A u \in tasks' :
        \E v \in tasks : u.sid = v.sid /\ u.gen = v.gen /\ u.coord = v.coord /\ u.kind = v.kind
  BY <1>1
<1>3. \A u \in tasks : u.sid # s => u \in tasks'
  BY <1>1
<1>4. ASSUME NEW y, sess' = [sess EXCEPT ![s] = y], y.gen = x.gen, y.coord = x.coord,
             y.list = 0, y.token = 0
      PROVE  AInv'
  <2>1. Onward(x, y)
    BY <1>0, <1>4 DEF Onward
  <2>2. Spawned(s, y) /\ StillAwaits(s, y)
    BY <1>2, <1>4 DEF Spawned, StillAwaits
  <2> QED
    BY <1>0, <1>1, <1>3, <1>4, <2>1, <2>2, WorkOne
<1>5. ASSUME sess' = sess,
             ~(s \in live /\ Awaits(s, t) /\ t.gen = x.token)
      PROVE  AInv'
  <2>1. sess' = [sess EXCEPT ![s] = x]
    BY <1>0, <1>5 DEF IInv, TypeOK
  <2>2. Onward(x, x)
    BY <1>0 DEF Onward
  <2>3. Spawned(s, x) /\ StillAwaits(s, x)
    BY <1>1, <1>2, <1>5 DEF Spawned, StillAwaits
  <2> HIDE DEF x
  <2> QED
    BY <1>0, <1>1, <1>3, <2>1, <2>2, <2>3, WorkOne DEF x
<1>6. ASSUME s \in live, Awaits(s, t), t.gen = x.token
      PROVE  Awaiting(t) /\ x.gen = t.gen /\ x.coord = t.coord
  <2>1. x.token = x.gen /\ x.ctx # 0 /\ AppOf[s] \notin withheld
    BY <1>0, <1>6 DEF Sound
  <2>2. x.coord = t.coord
    BY <1>0, <1>6, <2>1 DEF Plain
  <2>3. x.ctx = x.coord
    BY <1>6, <2>1 DEF CInv, Marked
  <2> QED
    BY <1>6, <2>1, <2>2, <2>3 DEF Awaiting, DataAccess, Awaits
<1>7. CASE EndCancelled(t) \/ EndStale(t)
  BY <1>5, <1>6, <1>7 DEF EndCancelled, EndStale, Awaits
<1> DEFINE z == [x EXCEPT !.token = 0]
<1>8. z.gen = x.gen /\ z.coord = x.coord /\ z.list = 0 /\ z.token = 0
  BY <1>0 DEF Session
<1>9. CASE EndFailed(t)
  <2> DEFINE y == [x EXCEPT !.token = 0, !.visible = 0]
  <2>1. [sess EXCEPT ![s].token = 0, ![s].visible = 0] = [sess EXCEPT ![s] = y]
    BY <1>0 DEF IInv, TypeOK
  <2>2. y.gen = x.gen /\ y.coord = x.coord /\ y.list = 0 /\ y.token = 0
    BY <1>0 DEF Session
  <2>3. \/ sess' = [sess EXCEPT ![s] = y]
        \/ sess' = sess /\ ~(s \in live /\ x.gen = t.gen /\ x.coord = t.coord)
    BY <1>9, <2>1 DEF EndFailed
  <2> HIDE DEF y
  <2> QED
    BY <1>4, <1>5, <1>6, <2>2, <2>3
<1>10. ASSUME NEW root, NEW fund, NEW correction,
              Show(s, x, root, fund, correction) \/ ShowRefused(s, x)
       PROVE  AInv'
  <2> DEFINE y == [x EXCEPT !.token = 0, !.list = 0, !.visible = issued + 1]
  <2>1. sess' = [sess EXCEPT ![s] = y] \/ sess' = [sess EXCEPT ![s] = z]
    BY <1>10 DEF Show, ShowRefused
  <2>2. y.gen = x.gen /\ y.coord = x.coord /\ y.list = 0 /\ y.token = 0
    BY <1>0 DEF Session
  <2> HIDE DEF y, z
  <2> QED
    BY <1>4, <1>8, <2>1, <2>2
<1>11. CASE EndWithheld(t)
  <2>1. sess' = [sess EXCEPT ![s] = z]
    BY <1>11 DEF EndWithheld
  <2> HIDE DEF z
  <2> QED
    BY <1>4, <1>8, <2>1
<1>12. ASSUME NEW correction \in BOOLEAN, NEW recorded \in BOOLEAN,
              EndShow(t, correction, recorded)
       PROVE  AInv'
  <2>1. PICK fund : Show(s, x, 0, fund, correction) \/ ShowRefused(s, x)
    BY <1>12 DEF EndShow
  <2> QED
    BY <1>10, <2>1
<1>13. ~(\E valid \in BOOLEAN : EndList(t, valid)) /\ ~(\E timeout \in BOOLEAN : EndFallback(t, timeout))
  BY <1>0 DEF EndList, EndFallback, Plain
<1> QED
  BY <1>7, <1>9, <1>11, <1>12, <1>13 DEF TaskEnd

\* Requests of every sort; alternatives are not asked for.
LEMMA WorkRequests ==
    ASSUME CInv, AInv, Alternatives = {},
           \/ \E s \in Sid : \/ RequestSuggestion(s)
                             \/ \E kind \in Alternatives : AskAlternative(s, kind)
                             \/ \E found \in BOOLEAN : PickAlternative(s, found)
           \/ \E p \in plans : AdmitAlternative(p) \/ RejectAlternative(p)
    PROVE  AInv'
<1>1. plans = {} /\ \A s \in Sid : sess[s].list = 0
  BY DEF AInv
<1>2. PICK s \in Sid : RequestSuggestion(s)
  BY <1>1 DEF PickAlternative
<1> QED
  BY <1>2, WorkAdmit DEF RequestSuggestion

LEMMA WorkControls ==
    ASSUME CInv, AInv, NEW s \in Sid,
           \/ ControlExpired(s) \/ AcceptRefused(s)
           \/ \E recorded \in BOOLEAN : Dismiss(s, recorded)
           \/ \E word \in BOOLEAN, recorded \in BOOLEAN : Accept(s, word, recorded)
           \/ CommitApplied(s) \/ CommitDispatched(s)
           \/ CommitRefused(s) \/ CommitLate(s)
    PROVE  AInv'
<1> DEFINE x == sess[s]
           w == InvalidateLease(x)
           a == ArmLease(x)
<1>0. /\ x \in Session /\ IInv /\ x.gen \in Nat /\ x.list = 0 /\ plans = {}
      /\ w \in Session /\ w.gen = x.gen /\ w.coord = x.coord /\ w.token = x.token /\ w.list = 0
      /\ a \in Session /\ a.gen = x.gen /\ a.coord = x.coord /\ a.token = x.token /\ a.list = 0
  <2>1. x \in Session /\ IInv /\ x.list = 0 /\ plans = {}
    BY DEF CInv, IInv, TypeOK, AInv
  <2>2. x.gen \in Nat
    BY <2>1 DEF Session
  <2> QED
    BY <2>1, <2>2, SessionOps, Unleased, Armed, ListKept
<1>1. ASSUME NEW y, sess' = [sess EXCEPT ![s] = y], UNCHANGED <<live, tasks, plans>>,
             y.gen \in {x.gen, x.gen + 1}, y.coord = x.coord, y.list = 0, y.token = x.token
      PROVE  AInv'
  <2>1. Onward(x, y)
    BY <1>0, <1>1 DEF Onward
  <2> QED
    BY <1>0, <1>1, <2>1, WorkSame
<1>2. ASSUME NEW y, sess' = [sess EXCEPT ![s] = y], UNCHANGED <<live, plans>>,
             tasks' = Cancelled({s}), y.gen = x.gen + 1, y.list = 0, y.token = 0
      PROVE  AInv'
  <2>1. Onward(x, y)
    BY <1>0, <1>2 DEF Onward
  <2> QED
    BY <1>0, <1>2, <2>1, WorkEnded
<1>3. CASE \/ ControlExpired(s) \/ AcceptRefused(s) \/ CommitLate(s)
  <2>1. PICK y : /\ sess' = [sess EXCEPT ![s] = y] /\ UNCHANGED <<live, tasks, plans>>
                 /\ y = [x EXCEPT !.visible = 0] \/ y = [x EXCEPT !.pending = 0]
    BY <1>3 DEF ControlExpired, AcceptRefused, CommitLate
  <2>2. y.gen = x.gen /\ y.coord = x.coord /\ y.list = 0 /\ y.token = x.token
    BY <1>0, <2>1 DEF Session
  <2> QED
    BY <1>1, <2>1, <2>2
<1>4. ASSUME NEW recorded \in BOOLEAN, Dismiss(s, recorded)
      PROVE  AInv'
  <2> DEFINE y == [x EXCEPT !.visible = 0, !.gen = @ + 1]
  <2>1. [sess EXCEPT ![s].visible = 0, ![s].gen = @ + 1] = [sess EXCEPT ![s] = y]
    BY <1>0 DEF IInv, TypeOK
  <2>2. sess' = [sess EXCEPT ![s] = y] /\ UNCHANGED <<live, tasks, plans>>
    BY <1>4, <2>1 DEF Dismiss
  <2>3. y.gen = x.gen + 1 /\ y.coord = x.coord /\ y.list = 0 /\ y.token = x.token
    BY <1>0 DEF Session
  <2> HIDE DEF y
  <2> QED
    BY <1>1, <2>2, <2>3
<1>5. ASSUME NEW word \in BOOLEAN, NEW recorded \in BOOLEAN, Accept(s, word, recorded)
      PROVE  AInv'
  <2> DEFINE y == [a EXCEPT !.visible = 0, !.pending = x.visible]
  <2>1. sess' = [sess EXCEPT ![s] = y] /\ UNCHANGED <<live, tasks, plans>>
    BY <1>5 DEF Accept
  <2> HIDE DEF a
  <2>2. y.gen = x.gen /\ y.coord = x.coord /\ y.list = 0 /\ y.token = x.token
    BY <1>0 DEF Session
  <2> HIDE DEF y
  <2> QED
    BY <1>1, <2>1, <2>2
<1>6. CASE CommitDispatched(s)
  <2> DEFINE y == [w EXCEPT !.pending = 0, !.ctx = 0]
  <2>1. sess' = [sess EXCEPT ![s] = y] /\ UNCHANGED <<live, tasks, plans>>
    BY <1>6 DEF CommitDispatched
  <2> HIDE DEF w
  <2>2. y.gen = x.gen /\ y.coord = x.coord /\ y.list = 0 /\ y.token = x.token
    BY <1>0 DEF Session
  <2> HIDE DEF y
  <2> QED
    BY <1>1, <2>1, <2>2
<1>7. CASE CommitApplied(s)
  <2> DEFINE y == [w EXCEPT !.pending = 0, !.gen = @ + 1, !.token = 0, !.ctx = 0, !.visible = 0]
  <2>1. sess' = [sess EXCEPT ![s] = y] /\ tasks' = Cancelled({s}) /\ UNCHANGED <<live, plans>>
    BY <1>7 DEF CommitApplied, Committed
  <2> HIDE DEF w
  <2>2. y.gen = x.gen + 1 /\ y.list = 0 /\ y.token = 0
    BY <1>0 DEF Session
  <2> HIDE DEF y
  <2> QED
    BY <1>2, <2>1, <2>2
<1>8. CASE CommitRefused(s)
  <2> DEFINE v == [x EXCEPT !.pending = 0]
             y == Revoke(v)
  <2>1. sess' = [sess EXCEPT ![s] = y] /\ tasks' = Cancelled({s}) /\ UNCHANGED <<live, plans>>
    BY <1>8 DEF CommitRefused
  <2>2. v \in Session /\ v.gen = x.gen /\ v.list = 0
    <3>1. v \in Session
      BY <1>0, Fields
    <3>2. v.gen = x.gen /\ v.list = x.list
      BY <1>0 DEF Session
    <3> QED
      BY <1>0, <3>1, <3>2
  <2> HIDE DEF v
  <2>3. y.gen = x.gen + 1 /\ y.list = 0 /\ y.token = 0
    BY <2>2, Revoked, ListKept
  <2> HIDE DEF y
  <2> QED
    BY <1>2, <2>1, <2>3
<1> QED
  BY <1>3, <1>4, <1>5, <1>6, <1>7, <1>8

\* Timers start no work and end none.
LEMMA WorkTimers ==
    ASSUME CInv, AInv, NEW i \in Issued,
           DeadlinePasses(i) \/ ExpireSuggestion(i) \/ GrantLapses(i) \/ ExpireGrant(i)
    PROVE  AInv'
<1> DEFINE s == offers[i].sid
           x == sess[s]
<1>0. x \in Session /\ s \in Sid /\ IInv /\ x.gen \in Nat /\ x.list = 0 /\ plans' = {}
  <2>1. s \in Sid /\ IInv /\ plans' = {}
    BY DEF CInv, IInv, TypeOK, Offer, AInv, DeadlinePasses, ExpireSuggestion, GrantLapses, ExpireGrant
  <2>2. x \in Session /\ x.list = 0
    BY <2>1 DEF IInv, TypeOK, AInv
  <2> QED
    BY <2>1, <2>2 DEF Session
<1>1. UNCHANGED <<live, tasks>>
  BY DEF DeadlinePasses, ExpireSuggestion, GrantLapses, ExpireGrant
<1>2. PICK y : /\ sess' = [sess EXCEPT ![s] = y]
               /\ y = x \/ y = [x EXCEPT !.visible = 0] \/ y = [x EXCEPT !.pending = 0]
  <2>1. sess = [sess EXCEPT ![s] = x]
    BY <1>0 DEF IInv, TypeOK
  <2>2. CASE sess' = sess
    BY <2>1, <2>2
  <2>3. CASE sess' # sess
    BY <2>3 DEF DeadlinePasses, ExpireSuggestion, GrantLapses, ExpireGrant
  <2> QED
    BY <2>2, <2>3
<1>3. y.gen = x.gen /\ y.coord = x.coord /\ y.list = 0 /\ y.token = x.token
  BY <1>0, <1>2 DEF Session
<1>4. Onward(x, y)
  BY <1>0, <1>3 DEF Onward
<1> QED
  BY <1>0, <1>1, <1>2, <1>3, <1>4, WorkSame

LEMMA WorkSwitches ==
    ASSUME CInv, AInv,
           \/ \E c \in Conn : CloseOwned(c) \/ Teardown(c) \/ Fill(c) \/ Drain(c)
           \/ Switches
    PROVE  AInv'
<1>1. ASSUME UNCHANGED <<sess, live, tasks, plans>>
      PROVE  AInv'
  BY <1>1 DEF AInv, Plain, Awaits
<1>2. ASSUME NEW S, Close(S), plans' = plans
      PROVE  AInv'
  BY <1>2, WorkRevoked DEF Close, Withdraw
<1>3. ASSUME NEW c \in Conn, CloseOwned(c) \/ Teardown(c) \/ Fill(c) \/ Drain(c)
      PROVE  AInv'
  <2>1. CASE CloseOwned(c)
    BY <1>2, <2>1 DEF CloseOwned
  <2>2. CASE Teardown(c)
    <3>1. /\ live' \subseteq live /\ plans' = plans /\ tasks' = Cancelled(Owned(c))
          /\ sess' = [s \in Sid |-> IF s \in Owned(c) THEN Revoke(sess[s]) ELSE sess[s]]
      BY <2>2 DEF Teardown
    <3> QED
      BY <3>1, WorkRevoked
  <2>3. CASE Fill(c) \/ Drain(c)
    BY <1>1, <2>3 DEF Fill, Drain
  <2> QED
    BY <1>3, <2>1, <2>2, <2>3
<1>4. ASSUME NEW A \in SUBSET App, Withhold(A)
      PROVE  AInv'
  <2> DEFINE S == {s \in live : AppOf[s] \in A}
  <2>1. /\ live' = live /\ plans' = plans /\ tasks' = Cancelled(S)
        /\ sess' = [s \in Sid |-> IF s \in S THEN Revoke(sess[s]) ELSE sess[s]]
    BY <1>4 DEF Withhold, Withdraw
  <2> HIDE DEF S
  <2> QED
    BY <2>1, WorkRevoked
<1>5. ASSUME NEW A \in SUBSET App, Release(A) \/ CloseAll(A)
      PROVE  AInv'
  BY <1>1, <1>2, <1>5 DEF Release, CloseAll
<1> QED
  BY <1>3, <1>4, <1>5 DEF Switches

\* What the broker and the adapters believe of each other is true where no
\* alternatives are asked for (generation.rs): with them a session can wait for
\* a call that has ended, as EndList and EndFallback leave it.
THEOREM BeliefsAreTrue ==
    ASSUME Alternatives = {}
    PROVE  Spec => []BeliefsHold
<1>1. Init => AInv
  BY DEF Init, AInv, Fresh
<1>2. CInv /\ AInv /\ [Next]_vars => AInv'
  <2> SUFFICES ASSUME CInv, AInv, [Next]_vars PROVE AInv'
    OBVIOUS
  <2>1. ASSUME NEW s \in Sid, Client(s) \/ LeaseDue(s) \/ LeaseExpire(s) \/ StrayLease(s)
        PROVE  AInv'
    BY <2>1, WorkSessions, WorkRequests, WorkControls DEF Client
  <2>2. CASE UNCHANGED vars
    BY <2>2 DEF vars, AInv, Plain, Awaits
  <2> QED
    BY <2>1, <2>2, WorkRequests, WorkTasks, WorkTimers, WorkSwitches DEF Next
<1>3. CInv /\ AInv => AwaitedCallRuns
  BY DEF AInv, Awaits, AwaitedCallRuns, ProviderTasks
<1> QED
  BY <1>1, <1>2, <1>3, CausesHold, ScreensAgree, PTL DEF Spec, BeliefsHold

-----------------------------------------------------------------------------
(* One Shown aggregate funds one outcome                                   *)

\* No two sessions that live at one time are of one app.
OneLivePerApp == \A s, r \in live : AppOf[s] = AppOf[r] => s = r

\* What funds a suggestion was shown in its app, and what may still be charged,
\* through the carry or through a visible suggestion, has not been.
FInv ==
    /\ FundOnce
    /\ \A i \in Issued : offers[i].fund # 0 =>
           AppOf[offers[offers[i].fund].sid] = AppOf[offers[i].sid]
    /\ carry.on /\ carry.fund # 0 =>
           /\ offers[carry.fund].spent = 0
           /\ AppOf[offers[carry.fund].sid] = carry.app
    /\ \A s \in live : sess[s].visible # 0 /\ offers[sess[s].visible].fund # 0 =>
           offers[offers[sess[s].visible].fund].spent = 0

SameFunds == \A i \in Issued :
    offers'[i].fund = offers[i].fund /\ offers'[i].sid = offers[i].sid

\* Nothing is charged, and the carry goes or stays.
Uncharged ==
    /\ issued' = issued /\ SameFunds
    /\ \A i \in Issued : offers'[i].spent = offers[i].spent
    /\ carry' = carry \/ ~carry'.on \/ carry'.fund = 0

\* A suggestion of session s is shown, funded by itself or as the carry was.
Funds(s) ==
    LET o == offers'[issued + 1] IN
    /\ issued' = issued + 1 /\ SameFunds
    /\ \A i \in Issued : offers'[i].spent = offers[i].spent
    /\ o.spent = 0 /\ o.sid = s
    /\ o.fund \in {0, issued + 1} \/ (carry.on /\ o.fund = carry.fund /\ carry.app = AppOf[s])
    /\ ~carry'.on \/ (carry'.fund = o.fund /\ carry'.app = AppOf[s])

\* What funds the visible suggestion of session s is charged as it is taken.
Charged(s) ==
    LET f == offers[sess[s].visible].fund IN
    /\ issued' = issued /\ SameFunds
    /\ sess[s].visible # 0 /\ sess'[s].visible = 0 /\ f # 0
    /\ \A i \in Issued : offers'[i].spent = IF i = f THEN offers[i].spent + 1 ELSE offers[i].spent
    /\ ~carry'.on \/ carry'.fund = 0

LEMMA FundStep ==
    ASSUME CInv, TypeOK', Moves, FInv, OneLivePerApp,
           Uncharged \/ (\E s \in Sid : Funds(s)) \/ (\E s \in live : Charged(s))
    PROVE  FInv'
<1>0. /\ issued \in Nat /\ live \subseteq Sid
      /\ \A s \in Sid : sess[s].visible \in Issued \cup {0}
      /\ \A i \in Issued : /\ offers[i].fund \in Issued \cup {0} /\ offers[i].spent \in Nat
                           /\ offers[i].sid \in Sid
      /\ carry.on => carry.fund \in Issued \cup {0}
  <2>1. /\ issued \in 0 .. MaxOffer /\ live \subseteq Sid /\ sess \in [Sid -> Session]
        /\ offers \in [Issued -> Offer] /\ (carry = NoCarry \/ carry \in Carry)
    BY DEF CInv, IInv, TypeOK
  <2>2. \A s \in Sid : sess[s].visible \in Issued \cup {0}
    BY <2>1 DEF Session, NoneOr
  <2>3. \A i \in Issued : /\ offers[i].fund \in Issued \cup {0} /\ offers[i].spent \in Nat
                          /\ offers[i].sid \in Sid
    BY <2>1 DEF Offer, NoneOr
  <2>4. carry.on => carry.fund \in Issued \cup {0}
    <3>1. carry = NoCarry => carry.on = FALSE
      BY DEF NoCarry
    <3>2. carry \in Carry => carry.fund \in Issued \cup {0}
      BY DEF Carry, NoneOr
    <3> QED
      BY <2>1, <3>1, <3>2
  <2> QED
    BY <2>1, <2>2, <2>3, <2>4, BoundsAssumption
<1>1. \A i \in Issued : i \in Nat /\ i # 0 /\ i # issued + 1
  BY <1>0 DEF Issued
<1>2. \A s \in live' :
          \/ sess'[s].visible = 0
          \/ s \in live /\ sess'[s].visible = sess[s].visible
          \/ sess'[s].visible = issued + 1
  BY DEF Moves, SlotMove
<1>3. \A s \in live' : sess'[s].visible \in Issued' \cup {0}
  <2>1. \A s \in live' : s \in Sid /\ sess'[s] \in Session'
    BY DEF TypeOK
  <2> QED
    BY <2>1 DEF Session, NoneOr
<1>4. issued' = issued => Issued' = Issued /\ \A s \in live' : sess'[s].visible # issued + 1
  <2>1. issued' = issued => Issued' = Issued
    BY DEF Issued
  <2> QED
    BY <1>0, <1>1, <1>3, <2>1
<1>5. CASE Uncharged
  <2>1. Issued' = Issued /\ SameFunds /\ \A i \in Issued : offers'[i].spent = offers[i].spent
    BY <1>4, <1>5 DEF Uncharged
  <2>2. \A s \in live' : sess'[s].visible # 0 => s \in live /\ sess'[s].visible = sess[s].visible
    BY <1>2, <1>4, <1>5 DEF Uncharged
  <2>3. FundOnce'
    BY <2>1 DEF FInv, FundOnce
  <2>4. \A i \in Issued' : offers'[i].fund # 0 =>
            AppOf[offers'[offers'[i].fund].sid] = AppOf[offers'[i].sid]
    BY <1>0, <2>1 DEF FInv, SameFunds
  <2>5. carry'.on /\ carry'.fund # 0 =>
            /\ offers'[carry'.fund].spent = 0
            /\ AppOf[offers'[carry'.fund].sid] = carry'.app
    BY <1>0, <1>5, <2>1 DEF FInv, Uncharged, SameFunds
  <2>6. \A s \in live' : sess'[s].visible # 0 /\ offers'[sess'[s].visible].fund # 0 =>
            offers'[offers'[sess'[s].visible].fund].spent = 0
    BY <1>0, <2>1, <2>2 DEF FInv, SameFunds
  <2> QED
    BY <2>3, <2>4, <2>5, <2>6 DEF FInv
<1>6. ASSUME NEW s \in Sid, Funds(s)
      PROVE  FInv'
  <2> DEFINE id == issued + 1
             o == offers'[id]
  <2>1. /\ issued' = id /\ SameFunds /\ o.spent = 0 /\ o.sid = s
        /\ \A i \in Issued : offers'[i].spent = offers[i].spent
        /\ o.fund \in {0, id} \/ (carry.on /\ o.fund = carry.fund /\ carry.app = AppOf[s])
        /\ ~carry'.on \/ (carry'.fund = o.fund /\ carry'.app = AppOf[s])
    BY <1>6 DEF Funds
  <2>2. Issued' = Issued \cup {id} /\ id \notin Issued /\ id # 0
    BY <1>0, <2>1 DEF Issued
  <2> HIDE DEF id
  <2>3. o.fund # 0 => offers'[o.fund].spent = 0 /\ AppOf[offers'[o.fund].sid] = AppOf[s]
    <3>1. CASE o.fund \in {0, id}
      BY <2>1, <3>1
    <3>2. CASE carry.on /\ o.fund = carry.fund /\ carry.app = AppOf[s]
      BY <1>0, <2>1, <3>2 DEF FInv, SameFunds
    <3> QED
      BY <2>1, <3>1, <3>2
  <2> HIDE DEF o
  <2>4. FundOnce'
    <3>1. offers'[id].spent = 0 /\ \A i \in Issued : offers'[i].spent <= 1
      BY <2>1 DEF o, FInv, FundOnce
    <3> QED
      BY <2>2, <3>1 DEF FundOnce
  <2>5. \A i \in Issued' : offers'[i].fund # 0 =>
            AppOf[offers'[offers'[i].fund].sid] = AppOf[offers'[i].sid]
    <3>1. \A i \in Issued : offers'[i].fund # 0 =>
            AppOf[offers'[offers'[i].fund].sid] = AppOf[offers'[i].sid]
      BY <1>0, <2>1 DEF FInv, SameFunds
    <3>2. o.fund # 0 => AppOf[offers'[o.fund].sid] = AppOf[o.sid]
      BY <2>1, <2>3
    <3> QED
      BY <2>2, <3>1, <3>2 DEF o
  <2>6. carry'.on /\ carry'.fund # 0 =>
            /\ offers'[carry'.fund].spent = 0
            /\ AppOf[offers'[carry'.fund].sid] = carry'.app
    BY <2>1, <2>3
  <2>7. ASSUME NEW r \in live', sess'[r].visible # 0, offers'[sess'[r].visible].fund # 0
        PROVE  offers'[offers'[sess'[r].visible].fund].spent = 0
    <3>1. CASE r \in live /\ sess'[r].visible = sess[r].visible
      BY <1>0, <2>1, <2>7, <3>1 DEF FInv, SameFunds
    <3>2. CASE sess'[r].visible = id
      BY <2>3, <2>7, <3>2 DEF o
    <3> QED
      BY <1>2, <2>7, <3>1, <3>2 DEF id
  <2> QED
    BY <2>4, <2>5, <2>6, <2>7 DEF FInv
<1>7. ASSUME NEW s \in live, Charged(s)
      PROVE  FInv'
  <2> DEFINE v == sess[s].visible
             f == offers[v].fund
  <2>1. /\ Issued' = Issued /\ SameFunds /\ v # 0 /\ sess'[s].visible = 0 /\ f # 0
        /\ \A i \in Issued : offers'[i].spent = IF i = f THEN offers[i].spent + 1 ELSE offers[i].spent
        /\ ~carry'.on \/ carry'.fund = 0
    BY <1>4, <1>7 DEF Charged
  <2>2. v \in Issued /\ f \in Issued /\ offers[f].spent = 0 /\ offers[v].sid = s
    <3>1. v \in Issued /\ f \in Issued /\ offers[f].spent = 0
      BY <1>0, <2>1 DEF FInv
    <3>2. offers[v].sid = s
      BY <2>1 DEF CInv, IInv, SessionsSound, Sound
    <3> QED
      BY <3>1, <3>2
  <2>3. \A r \in live' : sess'[r].visible # 0 =>
            r \in live /\ r # s /\ sess'[r].visible = sess[r].visible
    BY <1>2, <1>4, <1>7, <2>1 DEF Charged
  <2>4. ASSUME NEW r \in live, r # s, sess[r].visible # 0
        PROVE  offers[sess[r].visible].fund # f
    <3>1. offers[sess[r].visible].sid = r /\ sess[r].visible \in Issued
      BY <1>0, <2>4 DEF CInv, IInv, SessionsSound, Sound
    <3>2. AppOf[r] # AppOf[s]
      BY <2>4 DEF OneLivePerApp
    <3>3. AppOf[offers[f].sid] = AppOf[s]
      BY <2>1, <2>2 DEF FInv
    <3>4. offers[sess[r].visible].fund # 0 =>
              AppOf[offers[offers[sess[r].visible].fund].sid] = AppOf[r]
      BY <3>1 DEF FInv
    <3> QED
      BY <2>1, <3>2, <3>3, <3>4
  <2> HIDE DEF v, f
  <2>5. FundOnce'
    <3>1. \A i \in Issued : offers'[i].spent <= 1
      BY <1>0, <2>1, <2>2 DEF FInv, FundOnce
    <3> QED
      BY <2>1, <3>1 DEF FundOnce
  <2>6. \A i \in Issued' : offers'[i].fund # 0 =>
            AppOf[offers'[offers'[i].fund].sid] = AppOf[offers'[i].sid]
    BY <1>0, <2>1 DEF FInv, SameFunds
  <2>7. ASSUME NEW r \in live', sess'[r].visible # 0, offers'[sess'[r].visible].fund # 0
        PROVE  offers'[offers'[sess'[r].visible].fund].spent = 0
    <3> DEFINE w == sess[r].visible
               g == offers[w].fund
    <3>1. /\ r \in live /\ r # s /\ sess'[r].visible = w /\ w # 0 /\ w \in Issued
          /\ offers'[w].fund = g /\ g # 0 /\ g \in Issued
      BY <1>0, <2>1, <2>3, <2>7 DEF SameFunds
    <3>2. g # f /\ offers[g].spent = 0
      BY <2>4, <3>1 DEF FInv
    <3> QED
      BY <2>1, <3>1, <3>2
  <2> QED
    BY <2>1, <2>5, <2>6, <2>7 DEF FInv
<1> QED
  BY <1>5, <1>6, <1>7

LEMMA ShowFunds ==
    ASSUME CInv, NEW s \in Sid, NEW x, NEW root, NEW fund, NEW correction,
           Show(s, x, root, fund, correction),
           fund \in {0, issued + 1} \/ (carry.on /\ fund = carry.fund /\ carry.app = AppOf[s])
    PROVE  Funds(s)
<1> DEFINE id == issued + 1
           keeps == IF root = 0 THEN id ELSE root
           o == [sid |-> s, coord |-> x.coord, gen |-> x.gen, root |-> keeps,
                 fund |-> fund, correction |-> correction, lapsed |-> FALSE,
                 timer |-> "running", spent |-> 0, grant |-> "none"]
           k == [on |-> TRUE, app |-> AppOf[s], root |-> keeps, fund |-> fund, epoch |-> epoch]
<1>1. /\ issued' = id /\ offers' = [i \in 1 .. id |-> IF i # id THEN offers[i] ELSE o]
      /\ carry' = IF correction THEN NoCarry ELSE k
  BY DEF Show
<1>2. issued \in Nat
  BY BoundsAssumption DEF CInv, IInv, TypeOK
<1>3. id \in 1 .. id /\ \A i \in Issued : i \in 1 .. id /\ i # id
  BY <1>2 DEF Issued
<1>4. o.spent = 0 /\ o.sid = s /\ o.fund = fund /\ k.fund = fund /\ k.app = AppOf[s]
  OBVIOUS
<1> HIDE DEF o, k
<1>5. offers'[id] = o /\ \A i \in Issued : offers'[i] = offers[i]
  BY <1>1, <1>3
<1>6. ~carry'.on \/ (carry'.fund = fund /\ carry'.app = AppOf[s])
  BY <1>1, <1>4 DEF NoCarry
<1> QED
  BY <1>1, <1>4, <1>5, <1>6 DEF Funds, SameFunds

\* What admission shows is funded as the carry was, or by nothing.
LEMMA AdmitFunds ==
    ASSUME CInv, NEW s \in Sid, NEW kind, NEW about,
           \/ AdmitAbstain(s) \/ AdmitCarried(s) \/ AdmitBusy(s) \/ AdmitGenerate(s, kind, about)
           \/ AdmitShow(s, 0, 0)
    PROVE  Uncharged \/ Funds(s)
<1>1. ASSUME UNCHANGED <<offers, issued, carry>> PROVE Uncharged
  BY <1>1 DEF Uncharged, SameFunds
<1>2. ASSUME NEW root, NEW fund, AdmitShow(s, root, fund),
             fund = 0 \/ (carry.on /\ fund = carry.fund /\ carry.app = AppOf[s])
      PROVE  Uncharged \/ Funds(s)
  <2> DEFINE x == Bind(sess[s])
  <2>1. Show(s, x, root, fund, FALSE) \/ ShowRefused(s, x)
    BY <1>2 DEF AdmitShow
  <2> HIDE DEF x
  <2>2. CASE Show(s, x, root, fund, FALSE)
    BY <1>2, <2>2, ShowFunds
  <2>3. CASE ShowRefused(s, x)
    BY <1>1, <2>3 DEF ShowRefused
  <2> QED
    BY <2>1, <2>2, <2>3
<1>3. CASE AdmitAbstain(s) \/ AdmitBusy(s) \/ AdmitGenerate(s, kind, about)
  BY <1>1, <1>3 DEF AdmitAbstain, AdmitBusy, AdmitGenerate
<1>4. CASE AdmitCarried(s)
  BY <1>2, <1>4 DEF AdmitCarried
<1>5. CASE AdmitShow(s, 0, 0)
  BY <1>2, <1>5
<1> QED
  BY <1>3, <1>4, <1>5

\* A task shows what it recorded itself, or nothing that funds an outcome.
LEMMA TaskFunds ==
    ASSUME CInv, NEW t \in tasks, TaskEnd(t)
    PROVE  Uncharged \/ Funds(t.sid)
<1> DEFINE s == t.sid
           x == sess[s]
<1>0. s \in Sid
  BY DEF CInv, IInv, TypeOK, Task
<1>1. ASSUME UNCHANGED <<offers, issued, carry>> PROVE Uncharged
  BY <1>1 DEF Uncharged, SameFunds
<1>2. ASSUME NEW fund \in {0, issued + 1}, NEW correction, Show(s, x, 0, fund, correction)
      PROVE  Funds(s)
  <2> HIDE DEF s, x
  <2> QED
    BY <1>0, <1>2, ShowFunds
<1>3. CASE EndCancelled(t) \/ EndFailed(t) \/ EndStale(t) \/ EndWithheld(t)
           \/ (\E valid \in BOOLEAN : EndList(t, valid))
  BY <1>1, <1>3 DEF EndCancelled, EndFailed, EndStale, EndWithheld, EndList, Unshown
<1>4. ASSUME NEW correction \in BOOLEAN, NEW recorded \in BOOLEAN, EndShow(t, correction, recorded)
      PROVE  Uncharged \/ Funds(s)
  <2>1. PICK fund \in {0, issued + 1} : Show(s, x, 0, fund, correction) \/ ShowRefused(s, x)
    BY <1>4 DEF EndShow
  <2>2. ShowRefused(s, x) => Uncharged
    BY <1>1 DEF ShowRefused
  <2> QED
    BY <1>2, <2>1, <2>2
<1>5. ASSUME NEW timeout \in BOOLEAN, EndFallback(t, timeout)
      PROVE  Uncharged \/ Funds(s)
  <2>1. UNCHANGED <<offers, issued, carry>> \/ Show(s, x, 0, 0, FALSE)
    BY <1>5 DEF EndFallback, Unshown, ShowRefused
  <2> QED
    BY <1>1, <1>2, <2>1
<1> QED
  BY <1>3, <1>4, <1>5 DEF TaskEnd

\* An outcome is charged as its suggestion is taken, and the carry is not
\* charged for it again.
LEMMA ControlFunds ==
    ASSUME CInv, NEW s \in Sid,
           \/ \E recorded \in BOOLEAN : Dismiss(s, recorded)
           \/ \E word \in BOOLEAN, recorded \in BOOLEAN : Accept(s, word, recorded)
    PROVE  Uncharged \/ (s \in live /\ Charged(s))
<1> DEFINE x == sess[s]
           id == x.visible
           f == offers[id].fund
           paid(i) == [offers EXCEPT ![i].spent = @ + 1]
<1>0. /\ x \in Session /\ sess \in [Sid -> Session] /\ offers \in [Issued -> Offer]
      /\ s \in live /\ id \in Issued /\ id # 0
  <2>1. x \in Session /\ sess \in [Sid -> Session] /\ offers \in [Issued -> Offer]
    BY DEF CInv, IInv, TypeOK
  <2>2. s \in live /\ id # 0
    BY DEF Dismiss, Accept, Controllable, DataAccess
  <2> QED
    BY <2>1, <2>2 DEF Session, NoneOr
<1>1. /\ issued' = issued /\ sess'[s].visible = 0
  <2>1. CASE \E recorded \in BOOLEAN : Dismiss(s, recorded)
    BY <1>0, <2>1 DEF Dismiss, Session
  <2>2. CASE \E word \in BOOLEAN, recorded \in BOOLEAN : Accept(s, word, recorded)
    <3>1. ArmLease(x) \in Session
      BY <1>0, SessionOps
    <3>2. PICK a : a = ArmLease(x)
      OBVIOUS
    <3>3. sess' = [sess EXCEPT ![s] = [a EXCEPT !.visible = 0, !.pending = id]] /\ issued' = issued
      BY <2>2, <3>2 DEF Accept
    <3> QED
      BY <1>0, <3>1, <3>2, <3>3 DEF Session
  <2> QED
    BY <2>1, <2>2
<1>2. \A j \in Issued : /\ paid(j) \in [Issued -> Offer]
                        /\ \A i \in Issued : /\ paid(j)[i].fund = offers[i].fund /\ paid(j)[i].sid = offers[i].sid
                                             /\ paid(j)[i].grant = offers[i].grant
                                             /\ paid(j)[i].spent = IF i = j THEN offers[i].spent + 1 ELSE offers[i].spent
  BY <1>0 DEF Offer
<1>4. PICK recorded \in BOOLEAN :
        LET charged == IF recorded THEN paid(f) ELSE offers IN
        /\ recorded => f # 0
        /\ offers' = charged \/ offers' = [charged EXCEPT ![id].grant = "running"]
        /\ carry' = carry \/ ~carry'.on \/ carry'.fund = 0
        /\ recorded => ~carry'.on \/ carry'.fund = 0
  <2>1. ASSUME NEW recorded \in BOOLEAN, Dismiss(s, recorded)
        PROVE  /\ offers' = IF recorded THEN paid(f) ELSE offers
               /\ ~carry'.on /\ (recorded => f # 0)
    BY <2>1 DEF Dismiss, Charge, Funded, NoCarry
  <2>2. ASSUME NEW word \in BOOLEAN, NEW recorded \in BOOLEAN, Accept(s, word, recorded)
        PROVE  LET charged == IF recorded THEN paid(f) ELSE offers IN
               /\ offers' = [charged EXCEPT ![id].grant = "running"]
               /\ (recorded => f # 0)
               /\ carry' = carry \/ ~carry'.on \/ carry'.fund = 0
               /\ recorded => ~carry'.on \/ carry'.fund = 0
    <3>1. /\ offers' = [(IF recorded THEN paid(f) ELSE offers) EXCEPT ![id].grant = "running"]
          /\ (recorded => f # 0) /\ carry' = CarryAfter(word, recorded)
      BY <2>2 DEF Accept, Charge, Funded
    <3>2. ~NoCarry.on
      BY DEF NoCarry
    <3>3. carry.on => carry \in Carry
      <4>1. carry = NoCarry \/ carry \in Carry
        BY DEF CInv, IInv, TypeOK
      <4> QED
        BY <3>2, <4>1
    <3>4. carry \in Carry => [carry EXCEPT !.fund = 0].fund = 0
      BY DEF Carry
    <3> HIDE DEF paid, f, id
    <3> QED
      BY <3>1, <3>2, <3>3, <3>4 DEF CarryAfter
  <2> HIDE DEF paid, f, id
  <2> QED
    BY <2>1, <2>2
<1>5. f \in Issued \cup {0}
  BY <1>0 DEF Offer, NoneOr
<1>6. PICK O : O = IF recorded THEN paid(f) ELSE offers
  OBVIOUS
<1>7. /\ O \in [Issued -> Offer]
      /\ \A i \in Issued : /\ O[i].fund = offers[i].fund /\ O[i].sid = offers[i].sid
                           /\ recorded => O[i].spent = IF i = f THEN offers[i].spent + 1 ELSE offers[i].spent
                           /\ ~recorded => O[i].spent = offers[i].spent
  <2>1. CASE recorded
    <3>1. f \in Issued /\ O = paid(f)
      BY <1>4, <1>5, <1>6, <2>1
    <3> HIDE DEF paid, f
    <3> QED
      BY <1>2, <2>1, <3>1
  <2>2. CASE ~recorded
    BY <1>0, <1>6, <2>2
  <2> QED
    BY <2>1, <2>2
<1>8. \A i \in Issued :
        offers'[i].fund = O[i].fund /\ offers'[i].sid = O[i].sid /\ offers'[i].spent = O[i].spent
  <2>1. offers' = O \/ offers' = [O EXCEPT ![id].grant = "running"]
    BY <1>4, <1>6
  <2>2. \A i \in Issued :
          LET P == [O EXCEPT ![id].grant = "running"] IN
          P[i].fund = O[i].fund /\ P[i].sid = O[i].sid /\ P[i].spent = O[i].spent
    <3> HIDE DEF id
    <3> QED
      BY <1>7 DEF Offer
  <2> HIDE DEF id
  <2> QED
    BY <2>1, <2>2
<1>9. SameFunds
  BY <1>7, <1>8 DEF SameFunds
<1>10. CASE recorded
  <2>1. \A i \in Issued : offers'[i].spent = IF i = f THEN offers[i].spent + 1 ELSE offers[i].spent
    BY <1>7, <1>8, <1>10
  <2> HIDE DEF paid
  <2> QED
    BY <1>0, <1>1, <1>4, <1>9, <1>10, <2>1 DEF Charged
<1>11. CASE ~recorded
  BY <1>1, <1>4, <1>7, <1>8, <1>9, <1>11 DEF Uncharged
<1> QED
  BY <1>10, <1>11

LEMMA FundsNext ==
    ASSUME CInv, Next
    PROVE  Uncharged \/ (\E s \in Sid : Funds(s)) \/ (\E s \in live : Charged(s))
<1>1. ASSUME UNCHANGED <<offers, issued>>, UNCHANGED carry \/ carry' = NoCarry
      PROVE  Uncharged
  BY <1>1 DEF Uncharged, SameFunds, NoCarry
<1>2. ASSUME NEW s \in Sid, Client(s) \/ LeaseDue(s) \/ LeaseExpire(s) \/ StrayLease(s)
      PROVE  Uncharged \/ Funds(s) \/ (s \in live /\ Charged(s))
  <2>1. CASE RequestSuggestion(s)
    BY <2>1, AdmitFunds DEF RequestSuggestion, Admit
  <2>2. CASE \/ \E recorded \in BOOLEAN : Dismiss(s, recorded)
             \/ \E word \in BOOLEAN, recorded \in BOOLEAN : Accept(s, word, recorded)
    BY <2>2, ControlFunds
  <2>3. CASE \/ \E c \in Coords : OpenSession(s, c)
             \/ CloseSession(s)
             \/ \E c \in Coords, allowed \in BOOLEAN : UpdateContext(s, c, allowed)
             \/ LeaseDue(s) \/ LeaseExpire(s) \/ StrayLease(s) \/ CancelSuggestion(s)
    BY <1>1, <2>3 DEF OpenSession, CloseSession, UpdateContext, LeaseDue, LeaseExpire, StrayLease,
                      CancelSuggestion
  <2>4. CASE \/ \E kind \in Alternatives : AskAlternative(s, kind)
             \/ \E found \in BOOLEAN : PickAlternative(s, found)
             \/ ControlExpired(s) \/ AcceptRefused(s)
             \/ CommitApplied(s) \/ CommitDispatched(s) \/ CommitRefused(s) \/ CommitLate(s)
    BY <1>1, <2>4 DEF AskAlternative, PickAlternative, ControlExpired, AcceptRefused, CommitApplied,
                      CommitDispatched, CommitRefused, CommitLate
  <2> QED
    BY <1>2, <2>1, <2>2, <2>3, <2>4 DEF Client
<1>3. ASSUME NEW p \in plans, AdmitAlternative(p) \/ RejectAlternative(p)
      PROVE  Uncharged \/ \E s \in Sid : Funds(s)
  <2>1. p.sid \in Sid
    BY DEF CInv, IInv, TypeOK, Plan
  <2>2. CASE AdmitAlternative(p)
    BY <2>1, <2>2, AdmitFunds DEF AdmitAlternative
  <2>3. CASE RejectAlternative(p)
    BY <1>1, <2>3 DEF RejectAlternative
  <2> QED
    BY <1>3, <2>2, <2>3
<1>4. ASSUME NEW t \in tasks, TaskEnd(t)
      PROVE  Uncharged \/ \E s \in Sid : Funds(s)
  <2>1. t.sid \in Sid
    BY DEF CInv, IInv, TypeOK, Task
  <2> QED
    BY <1>4, <2>1, TaskFunds
<1>5. ASSUME NEW i \in Issued,
             DeadlinePasses(i) \/ ExpireSuggestion(i) \/ GrantLapses(i) \/ ExpireGrant(i)
      PROVE  Uncharged
  <2>1. \A j \in Issued : /\ offers'[j].fund = offers[j].fund /\ offers'[j].sid = offers[j].sid
                          /\ offers'[j].spent = offers[j].spent
    <3>1. offers \in [Issued -> Offer]
      BY DEF CInv, IInv, TypeOK
    <3>2. \/ offers' = [offers EXCEPT ![i].lapsed = TRUE]
          \/ offers' = [offers EXCEPT ![i].timer = "fired"]
          \/ offers' = [offers EXCEPT ![i].grant = "overdue"]
          \/ offers' = [offers EXCEPT ![i].grant = "fired"]
      BY <1>5 DEF DeadlinePasses, ExpireSuggestion, GrantLapses, ExpireGrant
    <3> QED
      BY <3>1, <3>2 DEF Offer
  <2>2. UNCHANGED <<issued, carry>>
    BY <1>5 DEF DeadlinePasses, ExpireSuggestion, GrantLapses, ExpireGrant
  <2> QED
    BY <2>1, <2>2 DEF Uncharged, SameFunds
<1>6. ASSUME NEW c \in Conn, CloseOwned(c) \/ Teardown(c) \/ Fill(c) \/ Drain(c)
      PROVE  Uncharged
  BY <1>1, <1>6 DEF CloseOwned, Teardown, Fill, Drain
<1>7. CASE Switches
  BY <1>1, <1>7 DEF Switches, Withhold, Release, CloseAll, Publish
<1> QED
  BY <1>2, <1>3, <1>4, <1>5, <1>6, <1>7 DEF Next

\* One recorded Shown aggregate funds one outcome (acceptance.rs, generation.rs)
\* as long as no two live sessions share an app: the carry is the app's, so with
\* two of them what one session charges the other may show again.
THEOREM FundedOnce == Spec /\ []OneLivePerApp => []FundOnce
<1>1. Init => FInv
  BY DEF Init, FInv, FundOnce, Issued, NoCarry
<1>2. CInv /\ CInv' /\ OneLivePerApp /\ FInv /\ [Next]_vars => FInv'
  <2> SUFFICES ASSUME CInv, CInv', OneLivePerApp, FInv, [Next]_vars PROVE FInv'
    OBVIOUS
  <2>1. CASE Next
    BY <2>1, CausedNext, FundsNext, FundStep DEF Caused, CInv, IInv
  <2>2. CASE UNCHANGED vars
    BY <2>2 DEF vars, FInv, FundOnce, Issued
  <2> QED
    BY <2>1, <2>2
<1>3. FInv => FundOnce
  BY DEF FInv
<1> QED
  BY <1>1, <1>2, <1>3, CausesHold, PTL DEF Spec

-----------------------------------------------------------------------------
(* Engine implements Offers: a session's slot holds its visible suggestion  *)
(* or its granted one, and every step of the engine is a show, a grant, an  *)
(* end of some offers or a stutter.                                         *)

Nothing == [held |-> "nothing", id |-> 0]

\* What a session offers after a step is what it offered before, or less.
Narrower(s) ==
    s \in live' =>
        \/ s \in live /\ sess'[s].visible = sess[s].visible
                      /\ sess'[s].pending = sess[s].pending
        \/ sess'[s].visible = 0 /\ sess'[s].pending = 0

\* A step that only narrows what sessions offer is an End of the promise.
LEMMA Ended ==
    ASSUME IInv, issued' = issued, \A s \in Sid : Narrower(s)
    PROVE  Promise!Next
<1> DEFINE S == {s \in Sid : SlotOf(s)' = Nothing}
<1>1. ASSUME NEW s \in Sid, s \notin S
      PROVE  SlotOf(s)' = SlotOf(s)
  <2>1. Narrower(s) /\ SlotOf(s)' # Nothing
    BY <1>1
  <2> QED
    BY <2>1 DEF Narrower, SlotOf, Nothing
<1>2. [s \in Sid |-> SlotOf(s)]'
        = [s \in Sid |-> IF s \in S THEN Nothing ELSE [r \in Sid |-> SlotOf(r)][s]]
  BY <1>1
<1>3. Promise!End(S)
  BY <1>2 DEF Promise!End, Promise!Empty, Nothing
<1>4. S \in SUBSET Sid
  OBVIOUS
<1> QED
  BY <1>3, <1>4 DEF Promise!Next

LEMMA EndedSame ==
    ASSUME IInv, UNCHANGED <<issued, sess, live>>
    PROVE  Promise!Next
  BY Ended DEF Narrower

LEMMA EndedOne ==
    ASSUME IInv, NEW s \in Sid, NEW y, sess' = [sess EXCEPT ![s] = y],
           live' = live, issued' = issued,
           s \in live => \/ y.visible = sess[s].visible /\ y.pending = sess[s].pending
                         \/ y.visible = 0 /\ y.pending = 0
    PROVE  Promise!Next
<1>1. sess'[s] = y /\ \A r \in Sid \ {s} : sess'[r] = sess[r]
  BY DEF IInv, TypeOK
<1>2. ASSUME NEW r \in Sid
      PROVE  Narrower(r)
  <2>1. CASE r = s
    BY <1>1, <2>1 DEF Narrower
  <2>2. CASE r # s
    BY <1>1, <2>2 DEF Narrower
  <2> QED
    BY <2>1, <2>2
<1> QED
  BY <1>2, Ended

LEMMA EndedRevoked ==
    ASSUME IInv, NEW S, issued' = issued, live' \subseteq live,
           sess' = [s \in Sid |-> IF s \in S THEN Revoke(sess[s]) ELSE sess[s]]
    PROVE  Promise!Next
<1>1. ASSUME NEW r \in Sid
      PROVE  Narrower(r)
  <2>1. sess[r] \in Session
    BY DEF IInv, TypeOK
  <2>2. CASE r \in S
    BY <2>1, <2>2, Revoked DEF Narrower
  <2>3. CASE r \notin S
    BY <2>3 DEF Narrower
  <2> QED
    BY <2>2, <2>3
<1> QED
  BY <1>1, Ended

\* Showing a suggestion is the promise's Show of a number not used before.
LEMMA ShownOne ==
    ASSUME IInv, NEW s \in live, NEW x \in Session, NEW root, NEW fund,
           NEW correction, Show(s, x, root, fund, correction), live' = live
    PROVE  Promise!Next
<1> DEFINE i == issued + 1
           y == [x EXCEPT !.token = 0, !.list = 0, !.visible = i]
<1>1. /\ issued' = i /\ issued \in Nat /\ i <= MaxOffer /\ s \in Sid /\ TypeOK
      /\ sess' = [sess EXCEPT ![s] = y]
  BY BoundsAssumption DEF Show, IInv, TypeOK
<1>2. y.visible = i
  BY <1>1, Shown
<1>3. sess'[s] = y /\ \A r \in Sid \ {s} : sess'[r] = sess[r]
  BY <1>1 DEF TypeOK
<1> HIDE DEF y
<1>4. SlotOf(s)' = [held |-> "shown", id |-> i]
  BY <1>1, <1>2, <1>3 DEF SlotOf
<1>5. \A r \in Sid \ {s} : SlotOf(r)' = SlotOf(r)
  BY <1>3 DEF SlotOf
<1>6. [r \in Sid |-> SlotOf(r)]'
        = [[r \in Sid |-> SlotOf(r)] EXCEPT ![s] = [held |-> "shown", id |-> i]]
  BY <1>1, <1>4, <1>5
<1>7. i \in Ids \ (1 .. issued) /\ (1 .. issued)' = (1 .. issued) \cup {i}
  BY <1>1, BoundsAssumption DEF Ids
<1>8. Promise!Show(s, i)
  BY <1>6, <1>7 DEF Promise!Show
<1> QED
  BY <1>1, <1>7, <1>8 DEF Promise!Next

\* Accepting a suggestion is the promise's Grant.
LEMMA Granted ==
    ASSUME IInv, NEW s \in Sid, NEW word, NEW recorded, Accept(s, word, recorded)
    PROVE  Promise!Next
<1> DEFINE x == sess[s]
           id == x.visible
           z == [ArmLease(x) EXCEPT !.visible = 0, !.pending = id]
<1>1. /\ sess' = [sess EXCEPT ![s] = z] /\ UNCHANGED <<live, issued>>
      /\ s \in live /\ id # 0
  BY DEF Accept, Controllable, DataAccess
<1>2. z.visible = 0 /\ z.pending = id
  <2>1. ArmLease(x) \in Session
    BY SessionOps DEF IInv, TypeOK
  <2> QED
    BY <2>1 DEF Session
<1>3. sess'[s] = z /\ \A r \in Sid \ {s} : sess'[r] = sess[r]
  BY <1>1 DEF IInv, TypeOK
<1> HIDE DEF z
<1>4. /\ SlotOf(s) = [held |-> "shown", id |-> id]
      /\ SlotOf(s)' = [held |-> "granted", id |-> id]
  BY <1>1, <1>2, <1>3 DEF SlotOf
<1>5. \A r \in Sid \ {s} : SlotOf(r)' = SlotOf(r)
  BY <1>1, <1>3 DEF SlotOf
<1>6. /\ [r \in Sid |-> SlotOf(r)][s].held = "shown"
      /\ [r \in Sid |-> SlotOf(r)]'
           = [[r \in Sid |-> SlotOf(r)] EXCEPT ![s].held = "granted"]
  <2> DEFINE f == [r \in Sid |-> SlotOf(r)]
  <2>1. SlotOf(s)' = [SlotOf(s) EXCEPT !.held = "granted"]
    BY <1>4
  <2>2. f[s] = SlotOf(s) /\ f \in [Sid -> {SlotOf(r) : r \in Sid}]
    OBVIOUS
  <2>3. \A r \in Sid : r # s => f[r] = SlotOf(r)
    OBVIOUS
  <2>4. f' = [r \in Sid |-> IF r = s THEN SlotOf(s)' ELSE f[r]]
    BY <1>5, <2>3
  <2>5. f[s].held = "shown"
    BY <1>4, <2>2
  <2>6. f' = [f EXCEPT ![s].held = "granted"]
    <3>1. [f EXCEPT ![s].held = "granted"]
            = [r \in Sid |-> IF r = s THEN [f[s] EXCEPT !.held = "granted"] ELSE f[r]]
      OBVIOUS
    <3> QED
      BY <2>1, <2>2, <2>4, <3>1, Zenon
  <2> QED
    BY <2>5, <2>6
<1>7. Promise!Grant(s)
  BY <1>1, <1>6 DEF Promise!Grant
<1> QED
  BY <1>7 DEF Promise!Next

\* Every step of one session's client or lease.
LEMMA StepSessions ==
    ASSUME IInv, NEW s \in Sid,
           \/ \E c \in Coords : OpenSession(s, c)
           \/ CloseSession(s)
           \/ \E c \in Coords, allowed \in BOOLEAN : UpdateContext(s, c, allowed)
           \/ LeaseDue(s) \/ LeaseExpire(s) \/ StrayLease(s)
           \/ CancelSuggestion(s)
    PROVE  Promise!Next
<1> DEFINE x == sess[s]
<1>0. x \in Session
  BY DEF IInv, TypeOK
<1>1. ASSUME NEW c \in Coords, OpenSession(s, c)
      PROVE  Promise!Next
  <2> DEFINE y == [Fresh EXCEPT !.coord = c]
  <2>1. y.visible = 0 /\ y.pending = 0
    BY DEF Fresh
  <2>2. /\ sess' = [sess EXCEPT ![s] = y] /\ live' = live \cup {s}
        /\ issued' = issued
    BY <1>1 DEF OpenSession
  <2>3. sess'[s] = y /\ \A r \in Sid \ {s} : sess'[r] = sess[r]
    BY <2>2 DEF IInv, TypeOK
  <2> HIDE DEF y
  <2>4. \A r \in Sid : Narrower(r)
    BY <2>1, <2>2, <2>3 DEF Narrower
  <2> QED
    BY <2>2, <2>4, Ended
<1>2. CASE CloseSession(s)
  BY <1>2, EndedRevoked DEF CloseSession, Close
<1>3. ASSUME NEW c \in Coords, NEW allowed \in BOOLEAN, UpdateContext(s, c, allowed)
      PROVE  Promise!Next
  <2> DEFINE r == Revoke(x)
             y == [r EXCEPT !.coord = c, !.seen = TRUE]
             z == [ArmLease(y) EXCEPT !.ctx = c]
             new == IF allowed THEN z ELSE y
  <2>1. r \in Session /\ r.visible = 0 /\ r.pending = 0
    BY <1>0, SessionOps, Revoked
  <2> HIDE DEF r
  <2>2. y \in Session /\ y.visible = 0 /\ y.pending = 0
    <3>1. y \in Session
      BY <2>1, Fields
    <3> QED
      BY <2>1, <3>1 DEF Session
  <2> HIDE DEF y
  <2>3. z.visible = 0 /\ z.pending = 0
    <3>1. ArmLease(y) \in Session
      BY <2>2, SessionOps
    <3> QED
      BY <2>2, <3>1, Armed DEF Session
  <2>4. sess' = [sess EXCEPT ![s] = new] /\ UNCHANGED <<live, issued>>
    BY <1>3 DEF UpdateContext, r, y
  <2> HIDE DEF z
  <2>5. new.visible = 0 /\ new.pending = 0
    BY <2>2, <2>3
  <2> HIDE DEF new
  <2> QED
    BY <2>4, <2>5, EndedOne
<1>4. CASE LeaseDue(s) \/ StrayLease(s)
  <2>1. PICK y : /\ sess' = [sess EXCEPT ![s] = y]
                 /\ y.visible = x.visible /\ y.pending = x.pending
    <3>1. /\ [x EXCEPT !.lease = "due"].visible = x.visible
          /\ [x EXCEPT !.lease = "due"].pending = x.pending
          /\ [x EXCEPT !.stray = FALSE].visible = x.visible
          /\ [x EXCEPT !.stray = FALSE].pending = x.pending
      BY <1>0 DEF Session
    <3> QED
      BY <1>4, <3>1 DEF LeaseDue, StrayLease
  <2> QED
    BY <1>4, <2>1, EndedOne DEF LeaseDue, StrayLease
<1>5. CASE LeaseExpire(s)
  <2> DEFINE r == Revoke(x)
             y == [r EXCEPT !.stray = x.stray]
  <2>1. r \in Session /\ r.visible = 0 /\ r.pending = 0
    BY <1>0, SessionOps, Revoked
  <2>2. sess' = [sess EXCEPT ![s] = y] /\ UNCHANGED <<live, issued>>
    BY <1>5 DEF LeaseExpire
  <2> HIDE DEF r
  <2>3. y.visible = 0 /\ y.pending = 0
    BY <2>1 DEF Session
  <2> HIDE DEF y
  <2> QED
    BY <2>2, <2>3, EndedOne
<1>6. CASE CancelSuggestion(s)
  <2> DEFINE y == RetireGeneration(x)
  <2>1. sess' = [sess EXCEPT ![s] = y] /\ UNCHANGED <<live, issued>>
    BY <1>6 DEF CancelSuggestion
  <2>2. y.visible = 0 /\ y.pending = 0
    BY <1>0, Retired
  <2> HIDE DEF y
  <2> QED
    BY <2>1, <2>2, EndedOne
<1> QED
  BY <1>1, <1>2, <1>3, <1>4, <1>5, <1>6

\* Whatever admission does with an admissible request.
LEMMA StepAdmit ==
    ASSUME IInv, NEW s \in Sid, Admissible(s), NEW kind, NEW about,
           \/ AdmitAbstain(s) \/ AdmitCarried(s) \/ AdmitBusy(s)
           \/ AdmitGenerate(s, kind, about) \/ AdmitShow(s, 0, 0),
           live' = live
    PROVE  Promise!Next
<1> DEFINE x == Bind(sess[s])
<1>0. /\ sess[s] \in Session /\ x \in Session /\ s \in live
      /\ x.visible = 0 /\ x.pending = 0
  <2>1. sess[s] \in Session /\ s \in live
    BY DEF IInv, TypeOK, Admissible, DataAccess
  <2> QED
    BY <2>1, SessionOps, Bound
<1> HIDE DEF x
<1>1. ASSUME NEW y, y.visible = 0, y.pending = 0,
             sess' = [sess EXCEPT ![s] = y], issued' = issued
      PROVE  Promise!Next
  BY <1>1, EndedOne
<1>2. CASE AdmitAbstain(s)
  BY <1>0, <1>1, <1>2 DEF AdmitAbstain, x
<1>3. ASSUME NEW root, NEW fund, AdmitShow(s, root, fund)
      PROVE  Promise!Next
  <2>1. Show(s, x, root, fund, FALSE) \/ ShowRefused(s, x)
    BY <1>3 DEF AdmitShow, x
  <2>2. CASE Show(s, x, root, fund, FALSE)
    BY <1>0, <2>2, ShownOne
  <2>3. CASE ShowRefused(s, x)
    <3> DEFINE y == [x EXCEPT !.token = 0]
    <3>1. y.visible = 0 /\ y.pending = 0
      BY <1>0 DEF Session
    <3>2. sess' = [sess EXCEPT ![s] = y] /\ issued' = issued
      BY <2>3 DEF ShowRefused
    <3> HIDE DEF y
    <3> QED
      BY <1>1, <3>1, <3>2
  <2> QED
    BY <2>1, <2>2, <2>3
<1>4. CASE AdmitCarried(s)
  BY <1>3, <1>4 DEF AdmitCarried
<1>5. CASE AdmitBusy(s)
  <2> DEFINE y == RetireGeneration(sess[s])
  <2>1. y.visible = 0 /\ y.pending = 0
    BY <1>0, Retired
  <2>2. sess' = [sess EXCEPT ![s] = y] /\ issued' = issued
    BY <1>5 DEF AdmitBusy
  <2> HIDE DEF y
  <2> QED
    BY <1>1, <2>1, <2>2
<1>6. CASE AdmitGenerate(s, kind, about)
  <2> DEFINE y == [x EXCEPT !.token = x.gen]
  <2>1. y.visible = 0 /\ y.pending = 0
    BY <1>0 DEF Session
  <2>2. sess' = [sess EXCEPT ![s] = y] /\ issued' = issued
    BY <1>6 DEF AdmitGenerate, x
  <2> HIDE DEF y
  <2> QED
    BY <1>1, <2>1, <2>2
<1> QED
  BY <1>2, <1>3, <1>4, <1>5, <1>6

\* Requests for suggestions and for alternatives.
LEMMA StepRequests ==
    ASSUME IInv,
           \/ \E s \in Sid : RequestSuggestion(s)
           \/ \E s \in Sid, kind \in Alternatives : AskAlternative(s, kind)
           \/ \E s \in Sid, found \in BOOLEAN : PickAlternative(s, found)
           \/ \E p \in plans : AdmitAlternative(p) \/ RejectAlternative(p)
    PROVE  Promise!Next
<1>1. ASSUME NEW s \in Sid, RequestSuggestion(s)
      PROVE  Promise!Next
  BY <1>1, StepAdmit DEF RequestSuggestion, Admit
<1>2. ASSUME NEW s \in Sid,
             \/ \E kind \in Alternatives : AskAlternative(s, kind)
             \/ \E found \in BOOLEAN : PickAlternative(s, found)
      PROVE  Promise!Next
  <2> DEFINE y == [sess[s] EXCEPT !.list = 0]
  <2>1. sess' = [sess EXCEPT ![s] = y] /\ UNCHANGED <<live, issued>>
    BY <1>2 DEF AskAlternative, PickAlternative
  <2>2. y.visible = sess[s].visible /\ y.pending = sess[s].pending
    BY DEF IInv, TypeOK, Session
  <2> HIDE DEF y
  <2> QED
    BY <2>1, <2>2, EndedOne
<1>3. ASSUME NEW p \in plans, AdmitAlternative(p)
      PROVE  Promise!Next
  <2>1. p.sid \in Sid
    BY DEF IInv, TypeOK, Plan
  <2> QED
    BY <1>3, <2>1, StepAdmit DEF AdmitAlternative
<1>4. ASSUME NEW p \in plans, RejectAlternative(p)
      PROVE  Promise!Next
  BY <1>4, EndedSame DEF RejectAlternative
<1> QED
  BY <1>1, <1>2, <1>3, <1>4

\* A generation task ends.
LEMMA StepTasks ==
    ASSUME IInv, NEW t \in tasks, TaskEnd(t)
    PROVE  Promise!Next
<1> DEFINE s == t.sid
           x == sess[s]
<1>0. s \in Sid /\ x \in Session /\ Placed(t)
  <2>1. s \in Sid /\ Placed(t)
    BY DEF IInv, TypeOK, Task, TasksPlaced
  <2> QED
    BY <2>1 DEF IInv, TypeOK
<1>1. ASSUME UNCHANGED <<sess, live, issued>>
      PROVE  Promise!Next
  BY <1>1, EndedSame
<1>2. ASSUME sess' = [sess EXCEPT ![s].token = 0], UNCHANGED <<live, issued>>
      PROVE  Promise!Next
  <2> DEFINE y == [x EXCEPT !.token = 0]
  <2>1. y.visible = x.visible /\ y.pending = x.pending
    BY <1>0 DEF Session
  <2>2. sess' = [sess EXCEPT ![s] = y]
    BY <1>2
  <2> HIDE DEF y
  <2> QED
    BY <1>0, <1>2, <2>1, <2>2, EndedOne
<1>3. ASSUME NEW fund, NEW correction, Awaiting(t),
             Show(s, x, 0, fund, correction), live' = live
      PROVE  Promise!Next
  BY <1>0, <1>3, ShownOne DEF Awaiting, DataAccess
<1>4. ASSUME ShowRefused(s, x), live' = live
      PROVE  Promise!Next
  BY <1>2, <1>4 DEF ShowRefused
<1>5. CASE EndCancelled(t) \/ EndStale(t)
  BY <1>1, <1>5 DEF EndCancelled, EndStale, Idle, Unshown
<1>6. CASE EndFailed(t)
  <2> DEFINE y == [x EXCEPT !.token = 0, !.visible = 0]
  <2>1. UNCHANGED <<live, issued>>
    BY <1>6 DEF EndFailed, Idle, Unshown
  <2>2. CASE UNCHANGED sess
    BY <1>1, <2>1, <2>2
  <2>3. CASE s \in live /\ x.gen = t.gen /\ sess' = [sess EXCEPT ![s] = y]
    <3>1. x.pending = 0
      BY <1>0, <2>3 DEF Placed
    <3>2. y.visible = 0 /\ y.pending = 0
      BY <1>0, <3>1 DEF Session
    <3> HIDE DEF y
    <3> QED
      BY <1>0, <2>1, <2>3, <3>2, EndedOne
  <2>4. [sess EXCEPT ![s].token = 0, ![s].visible = 0] = [sess EXCEPT ![s] = y]
    BY <1>0 DEF IInv, TypeOK
  <2> QED
    BY <1>6, <2>2, <2>3, <2>4 DEF EndFailed
<1>7. CASE EndWithheld(t)
  BY <1>2, <1>7 DEF EndWithheld, Idle, Unshown
<1>8. ASSUME NEW correction \in BOOLEAN, NEW recorded \in BOOLEAN,
             EndShow(t, correction, recorded)
      PROVE  Promise!Next
  BY <1>3, <1>4, <1>8 DEF EndShow, Idle
<1>9. ASSUME NEW valid \in BOOLEAN, EndList(t, valid)
      PROVE  Promise!Next
  <2> DEFINE y == [x EXCEPT !.token = 0, !.list = t.about]
  <2>1. UNCHANGED <<live, issued>>
    BY <1>9 DEF EndList, Idle, Unshown
  <2>2. y.visible = x.visible /\ y.pending = x.pending
    BY <1>0 DEF Session
  <2>3. [sess EXCEPT ![s].token = 0, ![s].list = t.about] = [sess EXCEPT ![s] = y]
    BY <1>0 DEF IInv, TypeOK
  <2>4. sess' = sess \/ sess' = [sess EXCEPT ![s] = y]
    BY <1>9, <2>3 DEF EndList
  <2> HIDE DEF y
  <2> QED
    BY <1>0, <1>1, <2>1, <2>2, <2>4, EndedOne
<1>10. ASSUME NEW timeout \in BOOLEAN, EndFallback(t, timeout)
       PROVE  Promise!Next
  <2>1. live' = live
    BY <1>10 DEF EndFallback, Idle
  <2>2. \/ UNCHANGED <<sess, issued>>
        \/ Awaiting(t) /\ Show(s, x, 0, 0, FALSE)
        \/ ShowRefused(s, x)
        \/ sess' = [sess EXCEPT ![s].token = 0] /\ UNCHANGED issued
    BY <1>10 DEF EndFallback, Unshown
  <2> QED
    BY <1>1, <1>2, <1>3, <1>4, <2>1, <2>2
<1> QED
  BY <1>5, <1>6, <1>7, <1>8, <1>9, <1>10 DEF TaskEnd

\* Controls and commit results.
LEMMA StepControls ==
    ASSUME IInv, NEW s \in Sid,
           \/ ControlExpired(s) \/ AcceptRefused(s)
           \/ \E recorded \in BOOLEAN : Dismiss(s, recorded)
           \/ \E word \in BOOLEAN, recorded \in BOOLEAN : Accept(s, word, recorded)
           \/ CommitApplied(s) \/ CommitDispatched(s)
           \/ CommitRefused(s) \/ CommitLate(s)
    PROVE  Promise!Next
<1> DEFINE x == sess[s]
<1>0. x \in Session /\ (s \in live => Sound(s, x, offers, withheld))
  BY DEF IInv, TypeOK, SessionsSound
<1>1. ASSUME NEW y, y.visible = 0, y.pending = 0,
             sess' = [sess EXCEPT ![s] = y], UNCHANGED <<live, issued>>
      PROVE  Promise!Next
  BY <1>1, EndedOne
<1>2. CASE \/ ControlExpired(s) \/ AcceptRefused(s)
           \/ \E recorded \in BOOLEAN : Dismiss(s, recorded)
  <2> DEFINE y == [x EXCEPT !.visible = 0]
             z == [y EXCEPT !.gen = @ + 1]
  <2>1. /\ sess' = [sess EXCEPT ![s] = y] \/ sess' = [sess EXCEPT ![s] = z]
        /\ UNCHANGED <<live, issued>> /\ s \in live /\ x.visible # 0
    BY <1>2 DEF ControlExpired, AcceptRefused, Dismiss, Controllable,
                DataAccess, IInv, TypeOK
  <2>2. x.pending = 0
    BY <1>0, <2>1 DEF Sound
  <2>3. y.visible = 0 /\ y.pending = 0 /\ z.visible = 0 /\ z.pending = 0
    BY <1>0, <2>2 DEF Session
  <2> HIDE DEF y, z
  <2> QED
    BY <1>1, <2>1, <2>3
<1>3. ASSUME NEW word \in BOOLEAN, NEW recorded \in BOOLEAN,
             Accept(s, word, recorded)
      PROVE  Promise!Next
  BY <1>3, Granted
<1>4. CASE CommitApplied(s)
  <2> DEFINE w == InvalidateLease(x)
             y == Committed(x)
  <2>1. w \in Session
    BY <1>0, SessionOps
  <2>2. y = [w EXCEPT !.pending = 0, !.gen = @ + 1, !.token = 0,
                      !.ctx = 0, !.visible = 0]
    BY DEF Committed
  <2> HIDE DEF w
  <2>3. y.visible = 0 /\ y.pending = 0
    BY <2>1, <2>2 DEF Session
  <2>4. sess' = [sess EXCEPT ![s] = y] /\ UNCHANGED <<live, issued>>
    BY <1>4 DEF CommitApplied
  <2> HIDE DEF y
  <2> QED
    BY <1>1, <2>3, <2>4
<1>5. CASE CommitDispatched(s)
  <2> DEFINE w == InvalidateLease(x)
             y == [w EXCEPT !.pending = 0, !.ctx = 0]
  <2>1. /\ sess' = [sess EXCEPT ![s] = y] /\ UNCHANGED <<live, issued>>
        /\ s \in live /\ x.pending # 0
    BY <1>5 DEF CommitDispatched
  <2>2. w \in Session /\ w.visible = 0
    BY <1>0, <2>1, SessionOps, Unleased DEF Sound
  <2> HIDE DEF w
  <2>3. y.visible = 0 /\ y.pending = 0
    BY <2>2 DEF Session
  <2> HIDE DEF y
  <2> QED
    BY <1>1, <2>1, <2>3
<1>6. CASE CommitRefused(s)
  <2> DEFINE w == [x EXCEPT !.pending = 0]
             y == Revoke(w)
  <2>1. sess' = [sess EXCEPT ![s] = y] /\ UNCHANGED <<live, issued>>
    BY <1>6 DEF CommitRefused
  <2>2. w \in Session
    BY <1>0, Fields
  <2> HIDE DEF w
  <2>3. y.visible = 0 /\ y.pending = 0
    BY <2>2, Revoked
  <2> HIDE DEF y
  <2> QED
    BY <1>1, <2>1, <2>3
<1>7. CASE CommitLate(s)
  <2> DEFINE y == [x EXCEPT !.pending = 0]
  <2>1. /\ sess' = [sess EXCEPT ![s] = y] /\ UNCHANGED <<live, issued>>
        /\ s \in live /\ x.pending # 0
    BY <1>7 DEF CommitLate
  <2>2. x.visible = 0
    BY <1>0, <2>1 DEF Sound
  <2>3. y.visible = 0 /\ y.pending = 0
    BY <1>0, <2>2 DEF Session
  <2> HIDE DEF y
  <2> QED
    BY <1>1, <2>1, <2>3
<1> QED
  BY <1>2, <1>3, <1>4, <1>5, <1>6, <1>7

\* Timers.
LEMMA StepTimers ==
    ASSUME IInv, NEW i \in Issued,
           DeadlinePasses(i) \/ ExpireSuggestion(i) \/ GrantLapses(i) \/ ExpireGrant(i)
    PROVE  Promise!Next
<1> DEFINE s == offers[i].sid
           x == sess[s]
           v == [x EXCEPT !.visible = 0]
           p == [x EXCEPT !.pending = 0]
<1>0. s \in Sid /\ x \in Session /\ (s \in live => Sound(s, x, offers, withheld))
  <2>1. s \in Sid
    BY DEF IInv, TypeOK, Offer
  <2> QED
    BY <2>1 DEF IInv, TypeOK, SessionsSound
<1>1. UNCHANGED <<live, issued>>
  BY DEF DeadlinePasses, ExpireSuggestion, GrantLapses, ExpireGrant
<1>2. \/ UNCHANGED sess
      \/ s \in live /\ x.visible = i /\ sess' = [sess EXCEPT ![s] = v]
      \/ s \in live /\ x.pending = i /\ sess' = [sess EXCEPT ![s] = p]
  <2>1. CASE DeadlinePasses(i) \/ GrantLapses(i)
    BY <2>1 DEF DeadlinePasses, GrantLapses
  <2>2. CASE ExpireSuggestion(i)
    BY <2>2 DEF ExpireSuggestion
  <2>3. CASE ExpireGrant(i)
    BY <2>3 DEF ExpireGrant
  <2> QED
    BY <2>1, <2>2, <2>3
<1>3. i # 0
  BY BoundsAssumption DEF Issued, IInv, TypeOK
<1>4. s \in live /\ x.visible = i => v.visible = 0 /\ v.pending = 0
  BY <1>0, <1>3 DEF Session, Sound
<1>5. s \in live /\ x.pending = i => p.visible = 0 /\ p.pending = 0
  BY <1>0, <1>3 DEF Session, Sound
<1> HIDE DEF s, v, p
<1> QED
  BY <1>0, <1>1, <1>2, <1>4, <1>5, EndedOne, EndedSame

\* Authority switches, connections and their event queues.
LEMMA StepSwitches ==
    ASSUME IInv,
           \/ Switches
           \/ \E c \in Conn : CloseOwned(c) \/ Teardown(c) \/ Fill(c) \/ Drain(c)
    PROVE  Promise!Next
<1>1. ASSUME NEW A \in SUBSET App, Withhold(A)
      PROVE  Promise!Next
  BY <1>1, EndedRevoked DEF Withhold
<1>2. ASSUME NEW A \in SUBSET App, CloseAll(A)
      PROVE  Promise!Next
  BY <1>2, EndedRevoked DEF CloseAll, Close
<1>3. ASSUME NEW A \in SUBSET App, Release(A)
      PROVE  Promise!Next
  BY <1>3, EndedSame DEF Release
<1>4. ASSUME NEW c \in Conn, CloseOwned(c)
      PROVE  Promise!Next
  BY <1>4, EndedRevoked DEF CloseOwned, Close
<1>5. ASSUME NEW c \in Conn, Teardown(c)
      PROVE  Promise!Next
  BY <1>5, EndedRevoked DEF Teardown
<1>6. ASSUME NEW c \in Conn, Fill(c) \/ Drain(c)
      PROVE  Promise!Next
  BY <1>6, EndedSame DEF Fill, Drain
<1> QED
  BY <1>1, <1>2, <1>3, <1>4, <1>5, <1>6 DEF Switches

\* Every suggestion enters one session's slot once, is granted at most once
\* and only while it is shown there, and never comes back.
THEOREM Refinement == Spec => OffersSpec
<1>1. Init => Promise!Init
  <2> SUFFICES ASSUME Init PROVE Promise!Init
    OBVIOUS
  <2>1. \A s \in Sid : SlotOf(s) = Nothing
    BY DEF Init, SlotOf, Nothing
  <2>2. 1 .. issued = {}
    BY DEF Init
  <2> QED
    BY <2>1, <2>2 DEF Promise!Init, Promise!Empty, Nothing
<1>2. IInv /\ [Next]_vars
        => [Promise!Next]_<<[s \in Sid |-> SlotOf(s)], 1 .. issued>>
  <2> SUFFICES ASSUME IInv, [Next]_vars
               PROVE  \/ Promise!Next
                      \/ UNCHANGED <<[s \in Sid |-> SlotOf(s)], 1 .. issued>>
    OBVIOUS
  <2>1. ASSUME NEW s \in Sid, Client(s) \/ LeaseDue(s) \/ LeaseExpire(s) \/ StrayLease(s)
        PROVE  Promise!Next
    BY <2>1, StepSessions, StepRequests, StepControls DEF Client
  <2>2. ASSUME NEW p \in plans, AdmitAlternative(p) \/ RejectAlternative(p)
        PROVE  Promise!Next
    BY <2>2, StepRequests
  <2>3. CASE UNCHANGED vars
    BY <2>3, EndedSame DEF vars
  <2> QED
    BY <2>1, <2>2, <2>3, StepTasks, StepTimers, StepSwitches DEF Next
<1> QED
  BY <1>1, <1>2, Inductive, PTL DEF Spec, OffersSpec, Promise!Spec
=============================================================================
