--------------------------- MODULE RevisionProofs ---------------------------
(***************************************************************************)
(* One revision at a time, what is displayed of it, and the process that   *)
(* serves it, for any number of sessions, requests and processes.  The     *)
(* inductive invariant is in two halves that meet in Wanted: what sessions *)
(* hold of revisions (Mine), and what their tasks hold of the permit and   *)
(* the slot (Tasks, Slot).                                                 *)
(***************************************************************************)
EXTENDS Revision, FiniteSetTheorems, SequenceTheorems, TLAPS

EngineType ==
    /\ sess \in [Sid -> Session]
    /\ history \in [Sid -> {NoHistory} \cup History]
    /\ withheld \subseteq Sid
    /\ screen \in [Sid -> NoneOr(Revs)]
RevsType == revs \in Seq(Rev) /\ Len(revs) <= MaxRev
SlotType ==
    /\ lock \in NoneOr(Revs) /\ running \in NoneOr(Procs)
    /\ proc \in Seq(Proc) /\ launches \in Seq(Revs)
    /\ socket \in NoneOr(Procs)
    /\ uses \in Nat /\ timers \subseteq 1 .. uses

\* A session's revision is its own, for its field as it is, and not answered
\* yet; a synonym it may still show is none of those the history holds; what
\* its adapter displays is that revision, the one its commit applies or, without
\* commit authority, one whose acceptance was refused.
Mine(s) ==
    /\ sess[s].rev # 0 =>
        LET r == sess[s].rev IN
        /\ r \in Revs /\ revs[r].sid = s /\ revs[r].coord = sess[s].coord
        /\ ~revs[r].cancelled /\ revs[r].grants = 0 /\ sess[s].grant = 0
        /\ ~revs[r].shown /\ revs[r].mode = "synonyms"
           /\ history[s].on /\ history[s].sel = revs[r].sel
              => history[s].shown \subseteq revs[r].excluded
    /\ sess[s].grant # 0 =>
        sess[s].grant \in Revs /\ revs[sess[s].grant].sid = s /\ revs[sess[s].grant].shown
    /\ screen[s] # 0 => LET q == screen[s] IN
        /\ q \in Revs /\ revs[q].sid = s /\ revs[q].shown
        /\ \/ q \in {sess[s].rev, sess[s].grant}
           \/ ~sess[s].lands /\ ~revs[q].cancelled
    /\ s \in withheld =>
        (sess[s].lands => screen[s] = 0) /\ sess[s].rev = 0 /\ sess[s].grant = 0
Sessions == \A s \in Sid : Mine(s)

\* A task that goes on is cancelled or wanted, and has shown nothing yet.
Wanted == \A r \in Revs : revs[r].at # "end" =>
    ~revs[r].shown /\ (revs[r].cancelled \/ sess[revs[r].sid].rev = r)

\* One task has the permit, and one with the permit has the process.
Tasks ==
    /\ \A r, q \in Holding : r = q
    /\ \A r \in Revs : revs[r].proc # 0 =>
        /\ revs[r].at = "call" /\ running = revs[r].proc
        /\ proc[running] \in {"ready", "dead"}

\* While a start is awaited nothing runs; the thread starts one at a time.
Slot ==
    /\ lock # 0 => At(lock, "launch") /\ running = 0
    /\ running # 0 => proc[running] \in {"ready", "dead"}
    /\ NoOrphan
    /\ \A p, q \in Launching : p = q
    /\ Launching # {} => launches # <<>>
    /\ Len(proc) + Len(launches) <= MaxProc + (IF Launching = {} THEN 0 ELSE 1)

EngineHalf == EngineType /\ RevsType /\ Sessions /\ GrantedOnce /\ Wanted
SlotHalf == SlotType /\ Tasks /\ Slot
IInv == EngineHalf /\ SlotHalf

USE DEF Revs, Procs, NoneOr

-----------------------------------------------------------------------------
(* Sequences and fields                                                    *)

LEMMA ExceptRight ==
    ASSUME NEW S, NEW seq \in Seq(S), NEW i \in DOMAIN seq, NEW e \in S
    PROVE  /\ [seq EXCEPT ![i] = e] \in Seq(S) /\ Len([seq EXCEPT ![i] = e]) = Len(seq)
           /\ DOMAIN [seq EXCEPT ![i] = e] = DOMAIN seq /\ [seq EXCEPT ![i] = e][i] = e
           /\ \A j \in DOMAIN seq : j # i => [seq EXCEPT ![i] = e][j] = seq[j]
  OBVIOUS

LEMMA AppendRight ==
    ASSUME NEW S, NEW seq \in Seq(S), NEW e \in S
    PROVE  /\ Append(seq, e) \in Seq(S) /\ Len(seq) \in Nat
           /\ Len(Append(seq, e)) = Len(seq) + 1
           /\ DOMAIN Append(seq, e) = DOMAIN seq \cup {Len(seq) + 1}
           /\ Append(seq, e)[Len(seq) + 1] = e
           /\ \A i \in DOMAIN seq :
               i \in Nat /\ i >= 1 /\ i <= Len(seq) /\ Append(seq, e)[i] = seq[i]
  OBVIOUS

LEMMA RevsRight ==
    ASSUME RevsType
    PROVE  /\ Len(revs) \in Nat /\ Revs = 1 .. Len(revs) /\ Revs \subseteq 1 .. MaxRev
           /\ \A r \in Revs : r \in Nat /\ r # 0 /\ revs[r] \in Rev
  BY RevisionAssumption DEF RevsType

\* Every revision but those of s is left as it was, and those of s keep what
\* they ask and where their task is.
Like(x, y) ==
    /\ x.sid = y.sid /\ x.coord = y.coord /\ x.mode = y.mode /\ x.sel = y.sel
    /\ x.excluded = y.excluded /\ x.shown = y.shown /\ x.reply = y.reply
    /\ x.at = y.at /\ x.proc = y.proc

LEMMA CancelRight ==
    ASSUME EngineHalf, NEW s \in Sid
    PROVE  /\ Cancel(s) \in Seq(Rev) /\ Len(Cancel(s)) = Len(revs) /\ DOMAIN Cancel(s) = Revs
           /\ \A r \in Revs :
               /\ Like(Cancel(s)[r], revs[r]) /\ Cancel(s)[r].grants = revs[r].grants
               /\ revs[r].sid # s => Cancel(s)[r] = revs[r]
               /\ Cancel(s)[r].cancelled = (revs[r].cancelled \/ r = sess[s].rev)
<1>1. revs \in Seq(Rev) /\ \A r \in Revs : revs[r] \in Rev /\ r # 0
  BY RevsRight DEF EngineHalf, RevsType
<1>2. CASE sess[s].rev = 0
  <2>1. Cancel(s) = revs
    BY <1>2 DEF Cancel
  <2>2. \A r \in Revs : revs[r].cancelled \in BOOLEAN
    BY <1>1 DEF Rev
  <2> QED
    BY <1>1, <1>2, <2>1, <2>2 DEF Like
<1>3. CASE sess[s].rev # 0
  <2> DEFINE r == sess[s].rev
             x == [revs[r] EXCEPT !.cancelled = TRUE]
  <2>1. r \in Revs /\ revs[r].sid = s /\ revs[r] \in Rev
    BY <1>1, <1>3 DEF EngineHalf, Sessions, Mine
  <2>2. Cancel(s) = [revs EXCEPT ![r] = x]
    BY <1>3 DEF Cancel
  <2>3. x \in Rev /\ Like(x, revs[r]) /\ x.grants = revs[r].grants /\ x.cancelled = TRUE
    BY <2>1 DEF Rev, Like
  <2> HIDE DEF x, r
  <2>4. /\ Cancel(s) \in Seq(Rev) /\ Len(Cancel(s)) = Len(revs) /\ DOMAIN Cancel(s) = Revs
        /\ Cancel(s)[r] = x /\ \A q \in Revs : q # r => Cancel(s)[q] = revs[q]
    BY <1>1, <2>1, <2>2, <2>3, ExceptRight
  <2>5. \A q \in Revs : revs[q].cancelled \in BOOLEAN /\ Like(revs[q], revs[q])
    BY <1>1 DEF Rev, Like
  <2> QED
    BY <2>1, <2>3, <2>4, <2>5 DEF r
<1> QED
  BY <1>2, <1>3

-----------------------------------------------------------------------------
(* What a step of one half leaves of the other                             *)

\* A step of session s.
LEMMA OthersKept ==
    ASSUME Sessions, NEW s \in Sid, Mine(s)',
           \A r \in Revs : r \in Revs' /\ (revs[r].sid # s => revs'[r] = revs[r]),
           \A r \in Revs : r # 0,
           \A t \in Sid \ {s} :
               /\ sess'[t] = sess[t] /\ history'[t] = history[t] /\ screen'[t] = screen[t]
               /\ t \in withheld' => t \in withheld
    PROVE  Sessions'
<1> SUFFICES ASSUME NEW t \in Sid, t # s PROVE Mine(t)'
  BY DEF Sessions
<1>1. Mine(t) /\ UNCHANGED <<sess[t], history[t], screen[t]>>
  BY DEF Sessions
<1>2. sess[t].rev # 0 =>
        sess[t].rev \in Revs' /\ revs'[sess[t].rev] = revs[sess[t].rev]
  BY <1>1 DEF Mine
<1>3. sess[t].grant # 0 =>
        sess[t].grant \in Revs' /\ revs'[sess[t].grant] = revs[sess[t].grant]
  BY <1>1 DEF Mine
<1>4. screen[t] # 0 => screen[t] \in Revs' /\ revs'[screen[t]] = revs[screen[t]]
  BY <1>1, <1>2, <1>3 DEF Mine
<1>5. t \in withheld' => t \in withheld
  OBVIOUS
<1> QED
  BY <1>1, <1>2, <1>3, <1>4, <1>5 DEF Mine

\* No step of a session touches the slot, and one of a task that is over or
\* has no permit yet holds nothing of it.
LEMMA SlotKept ==
    ASSUME SlotHalf, UNCHANGED slot, Revs \subseteq Revs',
           \A r \in Revs' :
               \/ r \in Revs /\ revs'[r].at = revs[r].at /\ revs'[r].proc = revs[r].proc
               \/ /\ revs'[r].at \in {"permit", "answer", "end"} /\ revs'[r].proc = 0
                  /\ lock # r
    PROVE  SlotHalf'
<1>1. SlotType'
  <2>1. launches' \in Seq(Revs')
    <3>1. launches \in Seq(Revs)
      BY DEF SlotHalf, SlotType
    <3> DEFINE R == Revs
               Q == Revs'
    <3> HIDE DEF R, Q
    <3>2. launches \in Seq(R) /\ R \subseteq Q
      BY <3>1 DEF R, Q
    <3>3. launches \in Seq(Q)
      BY <3>2
    <3> QED
      BY <3>3 DEF Q, slot
  <2> QED
    BY <2>1 DEF SlotHalf, SlotType, slot
<1>2. Tasks'
  <2>1. \A r \in Holding' : r \in Holding
    BY DEF Holding
  <2> QED
    BY <2>1 DEF SlotHalf, Tasks, slot
<1>3. Slot'
  <2>1. lock # 0 => revs'[lock].at = revs[lock].at
    BY DEF SlotHalf, SlotType
  <2> QED
    BY <2>1 DEF SlotHalf, Slot, At, NoOrphan, Launching, slot
<1> QED
  BY <1>1, <1>2, <1>3 DEF SlotHalf

\* No step of a task before its answer touches what sessions see.
LEMMA EngineKept ==
    ASSUME EngineHalf, UNCHANGED engine, NEW r \in Revs, revs[r].at # "end",
           NEW x \in Rev, revs' = [revs EXCEPT ![r] = x],
           x.sid = revs[r].sid, x.coord = revs[r].coord, x.mode = revs[r].mode,
           x.sel = revs[r].sel, x.excluded = revs[r].excluded, x.shown = revs[r].shown,
           x.cancelled = revs[r].cancelled, x.grants = revs[r].grants
    PROVE  EngineHalf'
<1>1. /\ revs' \in Seq(Rev) /\ Len(revs') = Len(revs) /\ DOMAIN revs' = DOMAIN revs
      /\ revs'[r] = x /\ \A q \in Revs : q # r => revs'[q] = revs[q]
  BY ExceptRight DEF EngineHalf, RevsType
<1>2. \A q \in Revs :
        /\ revs'[q].sid = revs[q].sid /\ revs'[q].coord = revs[q].coord
        /\ revs'[q].mode = revs[q].mode /\ revs'[q].sel = revs[q].sel
        /\ revs'[q].excluded = revs[q].excluded /\ revs'[q].shown = revs[q].shown
        /\ revs'[q].cancelled = revs[q].cancelled /\ revs'[q].grants = revs[q].grants
        /\ revs'[q].at # "end" => revs[q].at # "end"
  BY <1>1
<1>3. EngineType' /\ RevsType'
  BY <1>1 DEF EngineHalf, EngineType, RevsType, engine
<1>4. Sessions'
  <2> SUFFICES ASSUME NEW s \in Sid PROVE Mine(s)'
    BY DEF Sessions
  <2>1. Mine(s) /\ UNCHANGED <<sess, history, withheld, screen>> /\ Revs' = Revs
    BY <1>1 DEF EngineHalf, Sessions, engine
  <2> QED
    BY <1>2, <2>1 DEF Mine
<1>5. GrantedOnce' /\ Wanted'
  BY <1>1, <1>2 DEF EngineHalf, GrantedOnce, Wanted, engine
<1> QED
  BY <1>3, <1>4, <1>5 DEF EngineHalf
LEMMA EngineSame == EngineHalf /\ UNCHANGED <<engine, revs>> => EngineHalf'
  BY DEF EngineHalf, EngineType, RevsType, Sessions, Mine, GrantedOnce, Wanted, engine

-----------------------------------------------------------------------------
(* The steps of sessions                                                   *)

LEMMA InitHolds == Init => IInv
<1> SUFFICES ASSUME Init PROVE IInv
  OBVIOUS
<1>1. EngineType /\ RevsType /\ SlotType
  <2>1. /\ revs = <<>> /\ proc = <<>> /\ launches = <<>> /\ lock = 0 /\ running = 0
        /\ socket = 0 /\ uses = 0 /\ timers = {} /\ withheld = {}
        /\ screen = [s \in Sid |-> 0] /\ history = [s \in Sid |-> NoHistory]
    BY DEF Init
  <2>2. PICK lands \in [Sid -> BOOLEAN] : sess = [s \in Sid |->
           [lands |-> lands[s], coord |-> 0, rev |-> 0, grant |-> 0, lease |-> "off"]]
    BY DEF Init
  <2>3. sess \in [Sid -> Session]
    BY <2>2 DEF Session
  <2> QED
    BY <2>1, <2>3, RevisionAssumption DEF EngineType, RevsType, SlotType
<1>2. Sessions /\ GrantedOnce /\ Wanted
  BY DEF Init, Sessions, Mine, GrantedOnce, Wanted
<1>3. Tasks /\ Slot
  BY RevisionAssumption DEF Init, Tasks, Slot, Holding, Launching, NoOrphan
<1> QED
  BY <1>1, <1>2, <1>3 DEF IInv, EngineHalf, SlotHalf

LEMMA SessRight ==
    ASSUME EngineHalf, NEW s \in Sid
    PROVE  /\ sess[s] \in Session /\ Revoked(s) \in Session
           /\ Revoked(s).rev = 0 /\ Revoked(s).grant = 0 /\ Revoked(s).lands = sess[s].lands
           /\ \A c \in Coords, lease \in {"off", "armed", "due"} :
               LET v == [Revoked(s) EXCEPT !.coord = c, !.lease = lease] IN
               v \in Session /\ v.rev = 0 /\ v.grant = 0 /\ v.lands = sess[s].lands
           /\ \A c \in Coords :
               LET v == [Revoked(s) EXCEPT !.coord = c] IN
               v \in Session /\ v.rev = 0 /\ v.grant = 0 /\ v.lands = sess[s].lands
<1>1. sess[s] \in Session
  BY DEF EngineHalf, EngineType
<1> QED
  BY <1>1 DEF Session, Revoked

\* What ends a session's revision: it is cancelled and no longer displayed.
LEMMA EndingKeeps ==
    ASSUME IInv, NEW s \in Sid, NEW v \in Session, v.rev = 0, v.grant = 0,
           v.lands = sess[s].lands, sess' = [sess EXCEPT ![s] = v],
           revs' = Cancel(s), screen' = Cleared(s),
           withheld' \in {withheld, withheld \cup {s}}, UNCHANGED <<history, slot>>
    PROVE  IInv'
<1>1. EngineHalf /\ SlotHalf
  BY DEF IInv
<1>2. /\ revs' \in Seq(Rev) /\ Len(revs') = Len(revs) /\ Revs' = Revs
      /\ \A r \in Revs :
          /\ Like(revs'[r], revs[r]) /\ revs'[r].grants = revs[r].grants
          /\ revs[r].sid # s => revs'[r] = revs[r]
          /\ revs'[r].cancelled = (revs[r].cancelled \/ r = sess[s].rev)
  BY <1>1, CancelRight
<1>3. /\ sess \in [Sid -> Session] /\ screen \in [Sid -> NoneOr(Revs)]
      /\ history \in [Sid -> {NoHistory} \cup History] /\ withheld \subseteq Sid
      /\ Len(revs) <= MaxRev /\ \A r \in Revs : r # 0
  BY <1>1, RevsRight DEF EngineHalf, EngineType, RevsType
<1>4. screen' \in [Sid -> NoneOr(Revs)] /\ \A t \in Sid \ {s} : screen'[t] = screen[t]
  BY <1>3 DEF Cleared
<1>5. EngineType' /\ RevsType'
  BY <1>2, <1>3, <1>4 DEF EngineType, RevsType
<1>6. Sessions'
  <2>1. Mine(s) /\ sess'[s] = v
    BY <1>1, <1>3 DEF EngineHalf, Sessions
  <2>2. screen'[s] # 0 => /\ screen'[s] = screen[s] /\ ~v.lands
                          /\ ~revs'[screen[s]].cancelled /\ Like(revs'[screen[s]], revs[screen[s]])
    BY <1>2, <1>3, <2>1 DEF Mine, Cleared
  <2>3. v.lands => screen'[s] = 0
    BY <2>2
  <2>4. Mine(s)'
    BY <1>2, <2>1, <2>2, <2>3 DEF Mine, Like
  <2> QED
    BY <1>1, <1>2, <1>3, <1>4, <2>4, OthersKept DEF EngineHalf
<1>7. GrantedOnce' /\ Wanted'
  <2>1. GrantedOnce'
    BY <1>1, <1>2 DEF EngineHalf, GrantedOnce, Like
  <2>2. ASSUME NEW r \in Revs, revs'[r].at # "end"
        PROVE  ~revs'[r].shown /\ (revs'[r].cancelled \/ sess'[revs'[r].sid].rev = r)
    <3>1. /\ revs[r].sid \in Sid /\ r # 0 /\ revs'[r].sid = revs[r].sid
          /\ revs'[r].shown = revs[r].shown /\ revs[r].at # "end"
          /\ revs'[r].cancelled = (revs[r].cancelled \/ r = sess[s].rev)
      BY <1>1, <1>2, <2>2, RevsRight DEF EngineHalf, Rev, Like
    <3>2. ~revs[r].shown /\ (revs[r].cancelled \/ sess[revs[r].sid].rev = r)
      BY <1>1, <3>1 DEF EngineHalf, Wanted
    <3> QED
      BY <1>3, <3>1, <3>2
  <2> QED
    BY <1>2, <2>1, <2>2 DEF Wanted
<1>8. SlotHalf'
  BY <1>1, <1>2, SlotKept DEF Like
<1> QED
  BY <1>5, <1>6, <1>7, <1>8 DEF IInv, EngineHalf

LEMMA EndingsKeep ==
    ASSUME IInv, NEW s \in Sid,
           \/ \E c \in Coords : Refuse(s, c) \/ Context(s, c)
           \/ Hold(s) \/ ExpireLease(s) \/ Dismiss(s) \/ AcceptLate(s)
    PROVE  IInv'
<1>0. EngineHalf
  BY DEF IInv
<1>1. ASSUME NEW c \in Coords, Refuse(s, c) PROVE IInv'
  BY <1>0, <1>1, SessRight, EndingKeeps DEF Refuse
<1>2. ASSUME NEW c \in Coords, Context(s, c) PROVE IInv'
  BY <1>0, <1>2, SessRight, EndingKeeps DEF Context, Retire
<1>3. CASE Hold(s)
  BY <1>0, <1>3, SessRight, EndingKeeps DEF Hold, Retire
<1>4. CASE ExpireLease(s)
  BY <1>0, <1>4, SessRight, EndingKeeps DEF ExpireLease, Retire
<1>5. CASE Dismiss(s) \/ AcceptLate(s)
  <2> DEFINE v == [sess[s] EXCEPT !.rev = 0]
  <2>1. sess[s].grant = 0
    BY <1>0, <1>5 DEF Dismiss, AcceptLate, Answerable, EngineHalf, Sessions, Mine
  <2>2. v \in Session /\ v.rev = 0 /\ v.grant = 0 /\ v.lands = sess[s].lands
    <3>1. sess[s] \in Session
      BY <1>0, SessRight
    <3> QED
      BY <2>1, <3>1 DEF Session
  <2>3. /\ sess' = [sess EXCEPT ![s] = v] /\ revs' = Cancel(s) /\ screen' = Cleared(s)
        /\ UNCHANGED <<history, withheld, slot>>
    BY <1>5 DEF Dismiss, AcceptLate
  <2> HIDE DEF v
  <2> QED
    BY <2>2, <2>3, EndingKeeps
<1> QED
  BY <1>1, <1>2, <1>3, <1>4, <1>5

\* A step that leaves every revision and its task alone.
LEMMA QuietKeeps ==
    ASSUME IInv, NEW s \in Sid, UNCHANGED <<revs, slot>>,
           sess' \in [Sid -> Session], screen' \in [Sid -> NoneOr(Revs)],
           history' \in [Sid -> {NoHistory} \cup History], withheld' \subseteq withheld,
           \A t \in Sid \ {s} :
               sess'[t] = sess[t] /\ history'[t] = history[t] /\ screen'[t] = screen[t],
           Mine(s)',
           sess'[s].rev = sess[s].rev \/ (sess[s].rev # 0 => revs[sess[s].rev].shown)
    PROVE  IInv'
<1>1. EngineHalf /\ SlotHalf /\ Revs' = Revs
  BY DEF IInv
<1>2. EngineType' /\ RevsType'
  BY <1>1 DEF EngineHalf, EngineType, RevsType
<1>3. Sessions'
  BY <1>1, OthersKept, RevsRight DEF EngineHalf
<1>4. GrantedOnce' /\ Wanted'
  <2>1. GrantedOnce'
    BY <1>1 DEF EngineHalf, GrantedOnce
  <2>2. ASSUME NEW r \in Revs, revs[r].at # "end"
        PROVE  ~revs[r].shown /\ (revs[r].cancelled \/ sess'[revs[r].sid].rev = r)
    <3>1. revs[r].sid \in Sid /\ r # 0
      BY <1>1, RevsRight DEF EngineHalf, Rev
    <3>2. ~revs[r].shown /\ (revs[r].cancelled \/ sess[revs[r].sid].rev = r)
      BY <1>1, <2>2 DEF EngineHalf, Wanted
    <3> QED
      BY <3>1, <3>2
  <2> QED
    BY <2>1, <2>2 DEF Wanted
<1>5. SlotHalf'
  BY <1>1, SlotKept
<1> QED
  BY <1>2, <1>3, <1>4, <1>5 DEF IInv, EngineHalf

LEMMA QuietStepsKeep ==
    ASSUME IInv, NEW s \in Sid,
           \/ Release(s) \/ LeaseLapses(s) \/ HistoryLapses(s)
           \/ AcceptRefused(s) \/ CommitResult(s) \/ ExpireGrant(s)
    PROVE  IInv'
<1>1. /\ sess \in [Sid -> Session] /\ screen \in [Sid -> NoneOr(Revs)]
      /\ history \in [Sid -> {NoHistory} \cup History] /\ withheld \subseteq Sid
      /\ Mine(s) /\ sess[s] \in Session /\ Revoked(s) \in Session
  BY SessRight DEF IInv, EngineHalf, EngineType, Sessions
<1>2. CASE Release(s)
  <2>1. Mine(s)'
    BY <1>1, <1>2 DEF Release, Mine
  <2> QED
    BY <1>1, <1>2, <2>1, QuietKeeps DEF Release
<1>3. CASE LeaseLapses(s)
  <2> DEFINE v == [sess[s] EXCEPT !.lease = "due"]
  <2>1. v \in Session /\ v.rev = sess[s].rev /\ v.grant = sess[s].grant
        /\ v.lands = sess[s].lands /\ v.coord = sess[s].coord
    BY <1>1 DEF Session
  <2>2. sess' = [sess EXCEPT ![s] = v] /\ UNCHANGED <<history, withheld, screen, revs, slot>>
    BY <1>3 DEF LeaseLapses
  <2> HIDE DEF v
  <2>3. sess'[s] = v /\ sess' \in [Sid -> Session] /\ \A t \in Sid \ {s} : sess'[t] = sess[t]
    BY <1>1, <2>1, <2>2
  <2>4. Mine(s)'
    BY <1>1, <2>1, <2>2, <2>3 DEF Mine
  <2> QED
    BY <1>1, <2>1, <2>2, <2>3, <2>4, QuietKeeps
<1>4. CASE HistoryLapses(s)
  <2>1. /\ history' \in [Sid -> {NoHistory} \cup History] /\ ~history'[s].on
        /\ \A t \in Sid \ {s} : history'[t] = history[t]
    BY <1>1, <1>4 DEF HistoryLapses, NoHistory
  <2>2. Mine(s)'
    BY <1>1, <1>4, <2>1 DEF HistoryLapses, Mine
  <2> QED
    BY <1>1, <1>4, <2>1, <2>2, QuietKeeps DEF HistoryLapses
<1>5. CASE AcceptRefused(s)
  <2> DEFINE v == [sess[s] EXCEPT !.rev = 0]
  <2>1. v \in Session /\ v.rev = 0 /\ v.grant = sess[s].grant /\ v.lands = sess[s].lands
    BY <1>1 DEF Session
  <2>2. /\ sess' = [sess EXCEPT ![s] = v] /\ ~sess[s].lands
        /\ UNCHANGED <<history, withheld, screen, revs, slot>>
        /\ revs[sess[s].rev].shown
    BY <1>5 DEF AcceptRefused, Answerable
  <2> HIDE DEF v
  <2>3. sess'[s] = v /\ sess' \in [Sid -> Session] /\ \A t \in Sid \ {s} : sess'[t] = sess[t]
    BY <1>1, <2>1, <2>2
  <2>4. Mine(s)'
    BY <1>1, <2>1, <2>2, <2>3 DEF Mine
  <2> QED
    BY <1>1, <2>1, <2>2, <2>3, <2>4, QuietKeeps
<1>6. CASE CommitResult(s) \/ ExpireGrant(s)
  <2>0. sess[s].grant # 0 /\ sess[s].rev = 0
    BY <1>1, <1>6 DEF CommitResult, ExpireGrant, Mine
  <2>1. PICK v \in Session :
          sess' = [sess EXCEPT ![s] = v] /\ v.rev = 0 /\ v.grant = 0 /\ v.lands = sess[s].lands
    <3>1. CASE CommitResult(s)
      BY <1>1, <3>1 DEF CommitResult, Revoked, Session
    <3>2. CASE ExpireGrant(s)
      <4> DEFINE v == [sess[s] EXCEPT !.grant = 0]
      <4>1. v \in Session /\ v.rev = 0 /\ v.grant = 0 /\ v.lands = sess[s].lands
        BY <1>1, <2>0 DEF Session
      <4>2. sess' = [sess EXCEPT ![s] = v]
        BY <3>2 DEF ExpireGrant
      <4> HIDE DEF v
      <4> QED
        BY <4>1, <4>2
    <3> QED
      BY <1>6, <3>1, <3>2
  <2>2. screen' = [screen EXCEPT ![s] = 0] /\ UNCHANGED <<history, withheld, revs, slot>>
    BY <1>6, <2>0 DEF CommitResult, ExpireGrant, Cleared
  <2>3. sess'[s] = v /\ sess' \in [Sid -> Session] /\ \A t \in Sid \ {s} : sess'[t] = sess[t]
    BY <1>1, <2>1
  <2>4. /\ screen'[s] = 0 /\ screen' \in [Sid -> NoneOr(Revs)]
        /\ \A t \in Sid \ {s} : screen'[t] = screen[t]
    BY <1>1, <2>2
  <2>5. Mine(s)'
    BY <2>1, <2>3, <2>4 DEF Mine
  <2> QED
    BY <1>1, <2>0, <2>1, <2>2, <2>3, <2>4, <2>5, QuietKeeps
<1> QED
  BY <1>2, <1>3, <1>4, <1>5, <1>6

\* A step of session s that changes one of its revisions.
LEMMA OwnKeeps ==
    ASSUME IInv, NEW s \in Sid, NEW r \in Revs, revs[r].sid = s, UNCHANGED <<withheld, slot>>,
           NEW x \in Rev, revs' = [revs EXCEPT ![r] = x], x.sid = s,
           \/ x.at = revs[r].at /\ x.proc = revs[r].proc
           \/ x.at = "end" /\ x.proc = 0 /\ lock # r,
           x.grants <= 1, x.grants = 1 => x.shown,
           sess' \in [Sid -> Session], screen' \in [Sid -> NoneOr(Revs)],
           history' \in [Sid -> {NoHistory} \cup History],
           \A t \in Sid \ {s} :
               sess'[t] = sess[t] /\ history'[t] = history[t] /\ screen'[t] = screen[t],
           Mine(s)', sess[s].rev \in {0, r},
           x.at # "end" => ~x.shown /\ (x.cancelled \/ sess'[s].rev = r)
    PROVE  IInv'
<1>0. EngineHalf /\ SlotHalf /\ revs \in Seq(Rev) /\ \A q \in Revs : q # 0 /\ revs[q] \in Rev
  BY RevsRight DEF IInv, EngineHalf, RevsType
<1>1. /\ revs' \in Seq(Rev) /\ Len(revs') = Len(revs) /\ DOMAIN revs' = DOMAIN revs
      /\ revs'[r] = x /\ \A q \in Revs : q # r => revs'[q] = revs[q]
  BY <1>0, ExceptRight
<1>2. EngineType' /\ RevsType'
  BY <1>0, <1>1 DEF EngineHalf, EngineType, RevsType
<1>3. Sessions'
  <2>1. \A q \in Revs : q \in Revs' /\ (revs[q].sid # s => revs'[q] = revs[q])
    BY <1>1
  <2>2. \A t \in Sid \ {s} :
          /\ sess'[t] = sess[t] /\ history'[t] = history[t] /\ screen'[t] = screen[t]
          /\ t \in withheld' => t \in withheld
    OBVIOUS
  <2> QED
    BY <1>0, <2>1, <2>2, OthersKept DEF EngineHalf
<1>4. GrantedOnce'
  BY <1>0, <1>1 DEF EngineHalf, GrantedOnce
<1>5. Wanted'
  <2> SUFFICES ASSUME NEW q \in Revs, revs'[q].at # "end"
               PROVE  ~revs'[q].shown /\ (revs'[q].cancelled \/ sess'[revs'[q].sid].rev = q)
    BY <1>1 DEF Wanted
  <2>1. CASE q = r
    BY <1>1, <2>1
  <2>2. CASE q # r
    <3>1. /\ revs[q].sid \in Sid /\ q # 0 /\ revs'[q] = revs[q] /\ ~revs[q].shown
          /\ revs[q].cancelled \/ sess[revs[q].sid].rev = q
      BY <1>0, <1>1, <2>2 DEF EngineHalf, Wanted, Rev
    <3> QED
      BY <2>2, <3>1
  <2> QED
    BY <2>1, <2>2
<1>6. SlotHalf'
  BY <1>0, <1>1, SlotKept
<1> QED
  BY <1>2, <1>3, <1>4, <1>5, <1>6 DEF IInv, EngineHalf

\* What an answer that is still asked for finds.
LEMMA AskedRight ==
    ASSUME IInv, NEW r \in Revs, StillAsked(r), At(r, "answer")
    PROVE  /\ revs[r].sid \in Sid /\ revs[r] \in Rev /\ r # 0 /\ r \in 1 .. MaxRev
           /\ sess[revs[r].sid].rev = r /\ revs[r].sid \notin withheld
           /\ revs[r].grants = 0 /\ ~revs[r].cancelled /\ ~revs[r].shown
           /\ revs[r].proc = 0 /\ lock # r /\ Mine(revs[r].sid)
           /\ sess[revs[r].sid] \in Session /\ sess[revs[r].sid].coord = revs[r].coord
           /\ sess[revs[r].sid].grant = 0
<1>1. revs[r] \in Rev /\ r # 0 /\ r \in 1 .. MaxRev
  BY RevsRight DEF IInv, EngineHalf
<1>2. revs[r].sid \in Sid
  BY <1>1 DEF Rev
<1>3. Mine(revs[r].sid) /\ sess[revs[r].sid] \in Session
  BY <1>2 DEF IInv, EngineHalf, Sessions, EngineType
<1>4. revs[r].proc = 0 /\ lock # r
  BY <1>1 DEF IInv, SlotHalf, Tasks, Slot, At
<1> QED
  BY <1>1, <1>2, <1>3, <1>4 DEF Mine, StillAsked

LEMMA AcceptKeeps == ASSUME IInv, NEW s \in Sid, Accept(s) PROVE IInv'
<1>0. PICK r \in NoneOr(1 .. MaxRev) : r = sess[s].rev
  BY DEF IInv, EngineHalf, EngineType, Session
<1> DEFINE x == [revs[r] EXCEPT !.grants = @ + 1]
           v == [sess[s] EXCEPT !.rev = 0, !.grant = r, !.lease = "armed"]
<1>1. /\ s \notin withheld /\ r # 0 /\ revs[r].shown /\ sess[s].lands
      /\ sess' = [sess EXCEPT ![s] = v] /\ revs' = [revs EXCEPT ![r] = x]
      /\ UNCHANGED <<history, withheld, screen, slot>>
  BY <1>0 DEF Accept, Answerable
<1>2. /\ r \in Revs /\ revs[r].sid = s /\ revs[r].grants = 0 /\ revs[r] \in Rev
      /\ Mine(s) /\ sess[s] \in Session /\ revs[r].at = "end" /\ sess[s].grant = 0
      /\ r \in 1 .. MaxRev
  BY <1>0, <1>1, RevsRight DEF IInv, EngineHalf, EngineType, Sessions, Mine, Wanted
<1>3. /\ x \in Rev /\ x.sid = s /\ x.at = "end" /\ x.proc = revs[r].proc
      /\ x.grants = 1 /\ x.shown
  BY <1>1, <1>2 DEF Rev
<1>4. v \in Session /\ v.rev = 0 /\ v.grant = r /\ v.lands
  BY <1>1, <1>2 DEF Session
<1>5. /\ sess \in [Sid -> Session] /\ screen \in [Sid -> NoneOr(Revs)]
      /\ history \in [Sid -> {NoHistory} \cup History]
      /\ revs \in Seq(Rev)
  BY DEF IInv, EngineHalf, EngineType, RevsType
<1>6. sess[s].rev \in {0, r}
  BY <1>0
<1> HIDE DEF x, v
<1>7. /\ sess' \in [Sid -> Session] /\ sess'[s] = v /\ \A t \in Sid \ {s} : sess'[t] = sess[t]
      /\ revs'[r] = x /\ Revs' = Revs
  BY <1>1, <1>2, <1>3, <1>4, <1>5, ExceptRight
<1>8. Mine(s)'
  <2>1. screen'[s] \in {0, r} /\ s \notin withheld' /\ r \in Revs' /\ r # 0
    BY <1>0, <1>1, <1>2, <1>7 DEF Mine
  <2>2. revs'[r].sid = s /\ revs'[r].shown
    BY <1>3, <1>7
  <2>3. sess'[s].rev = 0 /\ sess'[s].grant = r
    BY <1>4, <1>7
  <2> HIDE DEF Revs
  <2> QED
    BY <2>1, <2>2, <2>3 DEF Mine
<1>9. /\ x.at = revs[r].at /\ x.proc = revs[r].proc
      /\ x.grants <= 1 /\ (x.grants = 1 => x.shown)
      /\ x.at # "end" => ~x.shown /\ (x.cancelled \/ sess'[s].rev = r)
  BY <1>2, <1>3
<1>10. /\ screen' \in [Sid -> NoneOr(Revs)] /\ history' \in [Sid -> {NoHistory} \cup History]
       /\ \A t \in Sid \ {s} :
           sess'[t] = sess[t] /\ history'[t] = history[t] /\ screen'[t] = screen[t]
  BY <1>1, <1>5, <1>7
<1> QED
  BY <1>1, <1>2, <1>3, <1>6, <1>7, <1>8, <1>9, <1>10, OwnKeeps

LEMMA TtlPassesKeeps == ASSUME IInv, NEW r \in Revs, TtlPasses(r) PROVE IInv'
<1>0. PICK s \in Sid : s = revs[r].sid
  BY RevsRight DEF IInv, EngineHalf, Rev
<1> DEFINE x == [revs[r] EXCEPT !.lapsed = TRUE]
<1>1. /\ revs[r].shown /\ sess[s].rev = r /\ revs' = [revs EXCEPT ![r] = x]
      /\ UNCHANGED <<sess, history, withheld, screen, slot>>
  BY <1>0 DEF TtlPasses, engine
<1>2. revs[r] \in Rev /\ r # 0
  BY RevsRight DEF IInv, EngineHalf
<1>3. s \in Sid /\ revs[r].at = "end"
  BY <1>0, <1>1, <1>2 DEF Rev, IInv, EngineHalf, Wanted
<1>4. /\ x \in Rev /\ x.sid = s /\ x.at = revs[r].at /\ x.proc = revs[r].proc
      /\ x.grants = revs[r].grants /\ x.shown /\ x.coord = revs[r].coord
      /\ x.cancelled = revs[r].cancelled
  BY <1>0, <1>1, <1>2 DEF Rev
<1>5. /\ sess \in [Sid -> Session] /\ screen \in [Sid -> NoneOr(Revs)] /\ revs \in Seq(Rev)
      /\ history \in [Sid -> {NoHistory} \cup History] /\ Mine(s)
      /\ revs[r].grants <= 1
  BY <1>3 DEF IInv, EngineHalf, EngineType, RevsType, Sessions, GrantedOnce
<1> HIDE DEF x
<1>6. revs'[r] = x /\ Revs' = Revs /\ \A q \in Revs : q # r => revs'[q] = revs[q]
  BY <1>1, <1>4, <1>5, ExceptRight
<1>7. Mine(s)'
  BY <1>1, <1>2, <1>4, <1>5, <1>6 DEF Mine
<1>8. revs[r].sid = s /\ sess[s].rev \in {0, r} /\ x.at = "end"
  BY <1>0, <1>1, <1>3, <1>4
<1> QED
  BY <1>1, <1>3, <1>4, <1>5, <1>7, <1>8, OwnKeeps

LEMMA ShowKeeps == ASSUME IInv, NEW r \in Revs, Show(r) PROVE IInv'
<1>0. PICK s \in Sid : s = revs[r].sid
  BY RevsRight DEF IInv, EngineHalf, Rev
<1> DEFINE x == [revs[r] EXCEPT !.at = "end", !.shown = TRUE]
           v == [sess[s] EXCEPT !.lease = "armed"]
<1>1. /\ At(r, "answer") /\ StillAsked(r) /\ Offered(r)
      /\ revs' = [revs EXCEPT ![r] = x] /\ sess' = [sess EXCEPT ![s] = v]
      /\ screen' = [screen EXCEPT ![s] = r] /\ history' = Noted(r)
      /\ UNCHANGED <<withheld, slot>>
  BY <1>0 DEF Show
<1>2. /\ s \in Sid /\ revs[r] \in Rev /\ r # 0 /\ sess[s].rev = r /\ s \notin withheld
      /\ revs[r].grants = 0 /\ ~revs[r].cancelled /\ revs[r].proc = 0 /\ lock # r
      /\ Mine(s) /\ sess[s] \in Session /\ sess[s].coord = revs[r].coord /\ sess[s].grant = 0
  BY <1>0, <1>1, AskedRight
<1>3. /\ x \in Rev /\ x.sid = s /\ x.at = "end" /\ x.proc = 0 /\ x.grants = 0 /\ x.shown
      /\ ~x.cancelled /\ x.coord = revs[r].coord
  BY <1>0, <1>1, <1>2 DEF Rev
<1>4. /\ v \in Session /\ v.rev = r /\ v.grant = 0 /\ v.coord = revs[r].coord
  BY <1>2 DEF Session
<1>5. /\ sess \in [Sid -> Session] /\ screen \in [Sid -> NoneOr(Revs)] /\ revs \in Seq(Rev)
      /\ history \in [Sid -> {NoHistory} \cup History]
  BY DEF IInv, EngineHalf, EngineType, RevsType
<1>6. /\ history' \in [Sid -> {NoHistory} \cup History]
      /\ \A t \in Sid \ {s} : history'[t] = history[t]
  <2> DEFINE h == history[s]
             n == [on |-> TRUE, sel |-> revs[r].sel, shown |->
                    {revs[r].reply} \cup (IF h.on /\ h.sel = revs[r].sel THEN h.shown ELSE {})]
  <2>1. revs[r].reply \in Word /\ revs[r].sel \in Sel
    BY <1>1, <1>2 DEF Offered, Rev
  <2>2. h.on => h \in History
    <3>1. h \in {NoHistory} \cup History
      BY <1>2, <1>5
    <3> QED
      BY <3>1 DEF NoHistory
  <2>3. n \in History
    <3>1. h.on => h.shown \subseteq Word
      BY <2>2 DEF History
    <3> QED
      BY <2>1, <3>1 DEF History
  <2>4. history' \in {history, [history EXCEPT ![s] = n]}
    BY <1>0, <1>1 DEF Noted
  <2> HIDE DEF n
  <2> QED
    BY <1>2, <1>5, <2>3, <2>4
<1> HIDE DEF x, v
<1>7. /\ sess' \in [Sid -> Session] /\ sess'[s] = v /\ \A t \in Sid \ {s} : sess'[t] = sess[t]
      /\ screen' \in [Sid -> NoneOr(Revs)] /\ screen'[s] = r
      /\ \A t \in Sid \ {s} : screen'[t] = screen[t]
      /\ revs'[r] = x /\ Revs' = Revs
  BY <1>1, <1>2, <1>3, <1>4, <1>5, ExceptRight
<1>8. Mine(s)'
  BY <1>1, <1>2, <1>3, <1>4, <1>7 DEF Mine
<1>9. revs[r].sid = s /\ sess[s].rev \in {0, r} /\ 0 <= 1
  BY <1>0, <1>2
<1>10. /\ x.at = "end" /\ x.proc = 0 /\ lock # r
       /\ x.grants <= 1 /\ (x.grants = 1 => x.shown)
       /\ x.at # "end" => ~x.shown /\ (x.cancelled \/ sess'[s].rev = r)
  BY <1>2, <1>3
<1>11. /\ screen' \in [Sid -> NoneOr(Revs)] /\ history' \in [Sid -> {NoHistory} \cup History]
       /\ \A t \in Sid \ {s} :
           sess'[t] = sess[t] /\ history'[t] = history[t] /\ screen'[t] = screen[t]
  BY <1>1, <1>5, <1>6, <1>7
<1> QED
  BY <1>1, <1>2, <1>3, <1>7, <1>8, <1>9, <1>10, <1>11, OwnKeeps

LEMMA ClearKeeps == ASSUME IInv, NEW r \in Revs, Clear(r) PROVE IInv'
<1>0. PICK s \in Sid : s = revs[r].sid
  BY RevsRight DEF IInv, EngineHalf, Rev
<1> DEFINE x == [revs[r] EXCEPT !.at = "end", !.cancelled = TRUE]
           v == [sess[s] EXCEPT !.rev = 0]
<1>1. /\ At(r, "answer") /\ StillAsked(r)
      /\ revs' = [revs EXCEPT ![r] = x] /\ sess' = [sess EXCEPT ![s] = v]
      /\ screen' = Cleared(s) /\ UNCHANGED <<history, withheld, slot>>
  BY <1>0 DEF Clear
<1>2. /\ s \in Sid /\ revs[r] \in Rev /\ r # 0 /\ sess[s].rev = r
      /\ revs[r].grants = 0 /\ revs[r].proc = 0 /\ lock # r
      /\ Mine(s) /\ sess[s] \in Session /\ sess[s].grant = 0
  BY <1>0, <1>1, AskedRight
<1>3. /\ x \in Rev /\ x.sid = s /\ x.at = "end" /\ x.proc = 0 /\ x.grants = 0
  BY <1>0, <1>1, <1>2 DEF Rev
<1>4. v \in Session /\ v.rev = 0 /\ v.grant = 0
  BY <1>2 DEF Session
<1>5. /\ sess \in [Sid -> Session] /\ screen \in [Sid -> NoneOr(Revs)] /\ revs \in Seq(Rev)
      /\ history \in [Sid -> {NoHistory} \cup History]
  BY DEF IInv, EngineHalf, EngineType, RevsType
<1>6. screen' = [screen EXCEPT ![s] = 0]
  BY <1>1, <1>2 DEF Cleared
<1> HIDE DEF x, v
<1>7. /\ sess' \in [Sid -> Session] /\ sess'[s] = v /\ \A t \in Sid \ {s} : sess'[t] = sess[t]
      /\ screen' \in [Sid -> NoneOr(Revs)] /\ screen'[s] = 0
      /\ \A t \in Sid \ {s} : screen'[t] = screen[t]
  BY <1>1, <1>2, <1>4, <1>5, <1>6
<1>8. Mine(s)'
  BY <1>4, <1>7 DEF Mine
<1>9. revs[r].sid = s /\ sess[s].rev \in {0, r} /\ 0 <= 1
  BY <1>0, <1>2
<1>10. /\ x.at = "end" /\ x.proc = 0 /\ lock # r
       /\ x.grants <= 1 /\ (x.grants = 1 => x.shown)
       /\ x.at # "end" => ~x.shown /\ (x.cancelled \/ sess'[s].rev = r)
  BY <1>2, <1>3
<1>11. /\ screen' \in [Sid -> NoneOr(Revs)] /\ history' \in [Sid -> {NoHistory} \cup History]
       /\ \A t \in Sid \ {s} :
           sess'[t] = sess[t] /\ history'[t] = history[t] /\ screen'[t] = screen[t]
  BY <1>1, <1>5, <1>7
<1> QED
  BY <1>1, <1>2, <1>3, <1>7, <1>8, <1>9, <1>10, <1>11, OwnKeeps

LEMMA RequestKeeps ==
    ASSUME IInv, NEW s \in Sid, NEW c \in Coords, NEW mode \in Asks, NEW sel \in Sel,
           Request(s, c, mode, sel)
    PROVE  IInv'
<1> DEFINE n == Len(revs) + 1
           x == [sid |-> s, coord |-> c, mode |-> mode, sel |-> sel,
                 excluded |-> Exclusions(s, mode, sel), cancelled |-> FALSE,
                 shown |-> FALSE, lapsed |-> FALSE, grants |-> 0,
                 at |-> "permit", proc |-> 0, reply |-> "none"]
           v == [Revoked(s) EXCEPT !.coord = c, !.rev = Len(revs) + 1, !.lease = "armed"]
<1>1. /\ s \notin withheld /\ Len(revs) < MaxRev
      /\ sess' = [sess EXCEPT ![s] = v] /\ history' = Asked(s, mode, sel)
      /\ screen' = Cleared(s) /\ revs' = Append(Cancel(s), x) /\ UNCHANGED <<withheld, slot>>
  BY DEF Request
<1>2. /\ EngineHalf /\ SlotHalf /\ Sessions /\ Mine(s) /\ GrantedOnce /\ Wanted
      /\ sess \in [Sid -> Session] /\ screen \in [Sid -> NoneOr(Revs)]
      /\ history \in [Sid -> {NoHistory} \cup History] /\ withheld \subseteq Sid
      /\ Len(revs) \in Nat /\ MaxRev \in Nat /\ \A r \in Revs : r # 0 /\ revs[r] \in Rev
  BY RevsRight, RevisionAssumption DEF IInv, EngineHalf, EngineType, Sessions
<1>3. n \in 1 .. MaxRev /\ n # 0 /\ n \notin Revs
  BY <1>1, <1>2, RevsRight DEF EngineHalf
<1>4. v \in Session /\ v.rev = n /\ v.grant = 0 /\ v.coord = c /\ v.lands = sess[s].lands
  <2>1. Revoked(s) \in Session /\ Revoked(s).grant = 0 /\ Revoked(s).lands = sess[s].lands
    BY <1>2, SessRight
  <2> HIDE DEF n
  <2>2. v = [Revoked(s) EXCEPT !.coord = c, !.rev = n, !.lease = "armed"]
    BY DEF n
  <2> QED
    BY <1>3, <2>1, <2>2 DEF Session
<1>5. history[s].on => history[s] \in History
  <2>1. history[s] \in {NoHistory} \cup History
    BY <1>2
  <2> QED
    BY <2>1 DEF NoHistory
<1>6. x \in Rev /\ x.excluded = Exclusions(s, mode, sel)
  <2>1. Exclusions(s, mode, sel) \in SUBSET Word
    BY <1>5 DEF Exclusions, Current, History
  <2> QED
    BY <2>1 DEF Rev, Reply
<1>7. /\ history' \in [Sid -> {NoHistory} \cup History]
      /\ \A t \in Sid \ {s} : history'[t] = history[t]
      /\ mode = "synonyms" /\ history'[s].on /\ history'[s].sel = sel =>
            history'[s].shown \subseteq Exclusions(s, mode, sel)
  <2> DEFINE h == [on |-> TRUE, sel |-> sel, shown |-> {}]
  <2>1. h \in History /\ h.shown = {}
    BY DEF History
  <2> HIDE DEF h
  <2>2. CASE mode # "synonyms" \/ Current(history, s, sel)
    BY <1>1, <1>2, <2>2 DEF Asked, Exclusions
  <2>3. CASE ~(mode # "synonyms" \/ Current(history, s, sel))
    <3>1. history' = [history EXCEPT ![s] = h]
      BY <1>1, <2>3 DEF Asked, h
    <3> QED
      BY <1>2, <2>1, <3>1
  <2> QED
    BY <2>2, <2>3
<1>8. x.sid = s /\ x.coord = c /\ x.mode = mode /\ x.sel = sel /\ ~x.cancelled /\ ~x.shown
      /\ x.grants = 0 /\ x.at = "permit" /\ x.proc = 0
  OBVIOUS
<1>9. /\ Cancel(s) \in Seq(Rev) /\ Len(Cancel(s)) = Len(revs) /\ DOMAIN Cancel(s) = Revs
      /\ \A r \in Revs :
          /\ Like(Cancel(s)[r], revs[r]) /\ Cancel(s)[r].grants = revs[r].grants
          /\ revs[r].sid # s => Cancel(s)[r] = revs[r]
          /\ Cancel(s)[r].cancelled = (revs[r].cancelled \/ r = sess[s].rev)
  BY <1>2, CancelRight
<1> HIDE DEF x, v, n
<1>10. /\ revs' \in Seq(Rev) /\ Len(revs') = n /\ Revs' = Revs \cup {n} /\ revs'[n] = x
       /\ \A r \in Revs :
          /\ Like(revs'[r], revs[r]) /\ revs'[r].grants = revs[r].grants
          /\ revs[r].sid # s => revs'[r] = revs[r]
          /\ revs'[r].cancelled = (revs[r].cancelled \/ r = sess[s].rev)
  <2> DEFINE C == Cancel(s)
  <2>1. C \in Seq(Rev) /\ Len(C) = Len(revs) /\ DOMAIN C = Revs /\ revs' = Append(C, x)
    BY <1>1, <1>9
  <2> HIDE DEF C
  <2>2. /\ revs' \in Seq(Rev) /\ Len(revs') = n /\ Revs' = Revs \cup {n} /\ revs'[n] = x
        /\ \A r \in Revs : revs'[r] = C[r]
    BY <1>6, <2>1, AppendRight DEF n
  <2> QED
    BY <1>9, <2>2 DEF C
<1>11. /\ sess' \in [Sid -> Session] /\ sess'[s] = v /\ \A t \in Sid \ {s} : sess'[t] = sess[t]
  BY <1>1, <1>2, <1>4
<1>12. /\ screen' \in [Sid -> NoneOr(Revs')] /\ \A t \in Sid \ {s} : screen'[t] = screen[t]
       /\ screen'[s] # 0 => LET q == screen'[s] IN
            /\ q \in Revs' /\ revs'[q].sid = s /\ revs'[q].shown
            /\ ~sess[s].lands /\ ~revs'[q].cancelled
  <2>1. screen'[s] # 0 => LET q == screen'[s] IN
            /\ q \in Revs' /\ revs'[q].sid = s /\ revs'[q].shown
            /\ ~sess[s].lands /\ ~revs'[q].cancelled
    <3>1. screen'[s] # 0 => screen'[s] = screen[s] /\ sess[s].rev = 0 /\ sess[s].grant = 0
      BY <1>1, <1>2 DEF Cleared
    <3>2. screen'[s] # 0 => LET q == screen[s] IN
              /\ q \in Revs /\ revs[q].sid = s /\ revs[q].shown
              /\ ~sess[s].lands /\ ~revs[q].cancelled /\ q # sess[s].rev
      BY <1>2, <3>1 DEF Mine
    <3>3. \A q \in Revs : q \in Revs' /\ revs'[q].sid = revs[q].sid /\ revs'[q].shown = revs[q].shown
                           /\ revs'[q].cancelled = (revs[q].cancelled \/ q = sess[s].rev)
      BY <1>10 DEF Like
    <3> QED
      BY <3>1, <3>2, <3>3
  <2>2. screen' \in [Sid -> NoneOr(Revs)] /\ \A t \in Sid \ {s} : screen'[t] = screen[t]
    BY <1>1, <1>2 DEF Cleared
  <2> QED
    BY <1>10, <2>1, <2>2
<1>13. EngineType' /\ RevsType'
  BY <1>1, <1>2, <1>3, <1>7, <1>10, <1>11, <1>12 DEF EngineType, RevsType
<1>14. Sessions'
  <2>1. Mine(s)'
    BY <1>1, <1>3, <1>4, <1>6, <1>7, <1>8, <1>10, <1>11, <1>12 DEF Mine
  <2> QED
    BY <1>1, <1>2, <1>7, <1>10, <1>11, <1>12, <2>1, OthersKept
<1>15. GrantedOnce'
  BY <1>2, <1>8, <1>10 DEF GrantedOnce, Like
<1>16. Wanted'
  <2> SUFFICES ASSUME NEW r \in Revs', revs'[r].at # "end"
               PROVE  ~revs'[r].shown /\ (revs'[r].cancelled \/ sess'[revs'[r].sid].rev = r)
    BY DEF Wanted
  <2>1. CASE r = n
    BY <1>4, <1>8, <1>10, <1>11, <2>1
  <2>2. CASE r \in Revs
    <3>1. /\ revs[r].sid \in Sid /\ r # 0 /\ revs'[r].sid = revs[r].sid
          /\ revs'[r].shown = revs[r].shown /\ revs[r].at # "end"
          /\ revs'[r].cancelled = (revs[r].cancelled \/ r = sess[s].rev)
      BY <1>2, <1>10, <2>2 DEF Rev, Like
    <3>2. ~revs[r].shown /\ (revs[r].cancelled \/ sess[revs[r].sid].rev = r)
      BY <1>2, <2>2, <3>1 DEF Wanted
    <3> QED
      BY <1>11, <3>1, <3>2
  <2> QED
    BY <1>10, <2>1, <2>2
<1>17. SlotHalf'
  <2>1. lock # n
    BY <1>2, <1>3 DEF SlotHalf, SlotType
  <2>2. \A r \in Revs' :
          \/ r \in Revs /\ revs'[r].at = revs[r].at /\ revs'[r].proc = revs[r].proc
          \/ revs'[r].at \in {"permit", "answer", "end"} /\ revs'[r].proc = 0 /\ lock # r
    BY <1>8, <1>10, <2>1 DEF Like
  <2> QED
    BY <1>1, <1>2, <1>10, <2>2, SlotKept
<1> QED
  BY <1>13, <1>14, <1>15, <1>16, <1>17 DEF IInv, EngineHalf

-----------------------------------------------------------------------------
(* The steps of tasks                                                      *)

LEMMA ProcsRight ==
    ASSUME SlotType
    PROVE  /\ Len(proc) \in Nat /\ Procs = 1 .. Len(proc) /\ proc \in Seq(Proc)
           /\ \A p \in Procs : p \in Nat /\ p # 0 /\ proc[p] \in Proc
           /\ launches \in Seq(Revs) /\ Len(launches) \in Nat
           /\ launches # <<>> => Len(launches) >= 1
  BY DEF SlotType

\* A task moves, and nothing but the slot's lock may change with it.
LEMMA MovedKeeps ==
    ASSUME IInv, UNCHANGED <<engine, running, proc, launches, socket>>,
           NEW r \in Revs, NEW x \in Rev, revs' = [revs EXCEPT ![r] = x],
           x.sid = revs[r].sid, x.coord = revs[r].coord, x.mode = revs[r].mode,
           x.sel = revs[r].sel, x.excluded = revs[r].excluded, x.shown = revs[r].shown,
           x.cancelled = revs[r].cancelled, x.grants = revs[r].grants,
           revs[r].at # "end", x.at \in {"slot", "call", "touch"} => Holding \subseteq {r},
           x.at # "launch",
           \/ x.proc = 0
           \/ x.proc = running /\ x.at = "call" /\ proc[running] = "ready",
           \/ lock' = 0
           \/ lock' = lock /\ lock # r,
           uses' \in Nat, timers' \subseteq 1 .. uses'
    PROVE  IInv'
<1>0. EngineHalf /\ SlotHalf /\ SlotType /\ Tasks /\ Slot /\ revs \in Seq(Rev) /\ r # 0
  BY RevsRight DEF IInv, EngineHalf, RevsType, SlotHalf
<1>1. EngineHalf'
  BY <1>0, EngineKept
<1>2. /\ DOMAIN revs' = DOMAIN revs /\ revs'[r] = x
      /\ \A q \in Revs : q # r => revs'[q] = revs[q]
  BY <1>0, ExceptRight
<1>3. SlotType'
  BY <1>0, <1>2 DEF SlotType
<1>4. Tasks'
  <2>1. Holding' \subseteq Holding \cup {r}
    BY <1>2 DEF Holding
  <2>2. x.at \notin {"slot", "call", "touch"} => r \notin Holding'
    BY <1>2 DEF Holding
  <2>3. \A q1, q2 \in Holding' : q1 = q2
    BY <1>0, <2>1, <2>2 DEF Tasks
  <2>4. ASSUME NEW q \in Revs, revs'[q].proc # 0
        PROVE  /\ revs'[q].at = "call" /\ running' = revs'[q].proc
               /\ proc'[running'] \in {"ready", "dead"}
    <3>1. CASE q = r
      BY <1>2, <2>4, <3>1
    <3>2. CASE q # r
      BY <1>0, <1>2, <2>4, <3>2 DEF Tasks
    <3> QED
      BY <3>1, <3>2
  <2> QED
    BY <1>2, <2>3, <2>4 DEF Tasks
<1>5. Slot'
  <2>1. lock' # 0 => revs'[lock'].at = "launch" /\ running = 0
    BY <1>0, <1>2 DEF Slot, At, SlotType
  <2> QED
    BY <1>0, <2>1 DEF Slot, At, NoOrphan, Launching
<1> QED
  BY <1>1, <1>3, <1>4, <1>5 DEF IInv, SlotHalf

\* Who has the permit, and what a task has without it.
LEMMA TaskRight ==
    ASSUME IInv, NEW r \in Revs
    PROVE  /\ revs[r] \in Rev /\ r # 0 /\ r \in 1 .. MaxRev
           /\ revs[r].at \in {"slot", "launch", "call", "touch"} =>
                /\ Holding = {r}
                /\ \A q \in Revs : q # r => revs[q].proc = 0
           /\ revs[r].at # "call" => revs[r].proc = 0
           /\ revs[r].at # "launch" => lock # r
           /\ uses \in Nat /\ timers \subseteq 1 .. uses
<1>1. revs[r] \in Rev /\ r # 0 /\ r \in 1 .. MaxRev
  BY RevsRight DEF IInv, EngineHalf
<1>2. revs[r].at \in {"slot", "launch", "call", "touch"} => Holding = {r}
  BY DEF IInv, SlotHalf, Tasks, Holding
<1>3. \A q \in Revs : revs[q].proc # 0 => revs[q].at = "call" /\ q \in Holding
  BY DEF IInv, SlotHalf, Tasks, Holding
<1> QED
  BY <1>1, <1>2, <1>3 DEF IInv, SlotHalf, Slot, SlotType, At

LEMMA MovesKeep ==
    ASSUME IInv, NEW r \in Revs,
           Admit(r) \/ GiveUp(r) \/ Reuse(r) \/ Complete(r) \/ Touch(r) \/ Drop(r)
    PROVE  IInv'
<1>1. /\ revs[r] \in Rev /\ r # 0
      /\ revs[r].at \in {"slot", "launch", "call", "touch"} => Holding = {r}
      /\ revs[r].at # "call" => revs[r].proc = 0
      /\ revs[r].at # "launch" => lock # r
      /\ uses \in Nat /\ timers \subseteq 1 .. uses
  BY TaskRight
<1>2. CASE Admit(r)
  <2>1. PICK place \in {"end", "slot"} :
          /\ revs' = [revs EXCEPT ![r] = [revs[r] EXCEPT !.at = place]]
          /\ place = "slot" => Holding = {}
    BY <1>2 DEF Admit, Move
  <2>2. revs[r].at = "permit" /\ UNCHANGED <<engine, slot>>
    BY <1>2 DEF Admit, At
  <2> DEFINE x == [revs[r] EXCEPT !.at = place]
  <2>3. /\ x \in Rev /\ x.at = place /\ x.proc = revs[r].proc
        /\ x.sid = revs[r].sid /\ x.coord = revs[r].coord /\ x.mode = revs[r].mode
        /\ x.sel = revs[r].sel /\ x.excluded = revs[r].excluded /\ x.shown = revs[r].shown
        /\ x.cancelled = revs[r].cancelled /\ x.grants = revs[r].grants
    BY <1>1 DEF Rev
  <2>4. revs' = [revs EXCEPT ![r] = x]
    BY <2>1
  <2> HIDE DEF x
  <2> QED
    BY <1>1, <2>1, <2>2, <2>3, <2>4, MovedKeeps DEF slot
<1>3. CASE GiveUp(r)
  <2>1. PICK reply \in {"cancelled", "timeout"} :
          revs' = [revs EXCEPT ![r] = [revs[r] EXCEPT !.at = "answer", !.reply = reply]]
    BY <1>3 DEF GiveUp, Answer
  <2>2. /\ revs[r].at \in {"slot", "launch"} /\ lock' = IF lock = r THEN 0 ELSE lock
        /\ UNCHANGED <<engine, running, proc, launches, socket, uses, timers>>
    BY <1>3 DEF GiveUp
  <2> DEFINE x == [revs[r] EXCEPT !.at = "answer", !.reply = reply]
  <2>3. /\ x \in Rev /\ x.at = "answer" /\ x.proc = revs[r].proc
        /\ x.sid = revs[r].sid /\ x.coord = revs[r].coord /\ x.mode = revs[r].mode
        /\ x.sel = revs[r].sel /\ x.excluded = revs[r].excluded /\ x.shown = revs[r].shown
        /\ x.cancelled = revs[r].cancelled /\ x.grants = revs[r].grants
    BY <1>1 DEF Rev, Reply
  <2>4. revs' = [revs EXCEPT ![r] = x]
    BY <2>1
  <2> HIDE DEF x
  <2> QED
    BY <1>1, <2>2, <2>3, <2>4, MovedKeeps
<1>4. CASE Reuse(r)
  <2> DEFINE x == [revs[r] EXCEPT !.at = "call", !.proc = running]
  <2>1. /\ revs[r].at = "slot" /\ lock = 0 /\ running # 0 /\ proc[running] = "ready"
        /\ revs' = [revs EXCEPT ![r] = x] /\ UNCHANGED <<engine, slot>>
    BY <1>4 DEF Reuse, At, Serving
  <2>2. running \in 1 .. MaxProc
    <3>1. /\ running \in Procs /\ Procs = 1 .. Len(proc) /\ Len(proc) \in Nat
          /\ Len(launches) \in Nat /\ launches # <<>> => Len(launches) >= 1
      BY <2>1, ProcsRight DEF IInv, SlotHalf, SlotType
    <3>2. Len(proc) <= MaxProc
      BY <3>1, RevisionAssumption DEF IInv, SlotHalf, Slot
    <3> QED
      BY <3>1, <3>2, RevisionAssumption
  <2>3. /\ x \in Rev /\ x.at = "call" /\ x.proc = running
        /\ x.sid = revs[r].sid /\ x.coord = revs[r].coord /\ x.mode = revs[r].mode
        /\ x.sel = revs[r].sel /\ x.excluded = revs[r].excluded /\ x.shown = revs[r].shown
        /\ x.cancelled = revs[r].cancelled /\ x.grants = revs[r].grants
    BY <1>1, <2>2 DEF Rev
  <2> HIDE DEF x
  <2> QED
    BY <1>1, <2>1, <2>3, MovedKeeps DEF slot
<1>5. CASE Complete(r)
  <2>1. PICK reply \in Reply :
          revs' = [revs EXCEPT ![r] = [revs[r] EXCEPT !.at = "touch", !.proc = 0, !.reply = reply]]
    <3>1. (IF revs[r].cancelled THEN {"cancelled"} ELSE Reply1(r)) \subseteq Reply
      BY DEF Reply1, Reply
    <3> QED
      BY <1>5, <3>1 DEF Complete
  <2>2. revs[r].at = "call" /\ UNCHANGED <<engine, slot>>
    BY <1>5 DEF Complete, At
  <2> DEFINE x == [revs[r] EXCEPT !.at = "touch", !.proc = 0, !.reply = reply]
  <2>3. /\ x \in Rev /\ x.at = "touch" /\ x.proc = 0
        /\ x.sid = revs[r].sid /\ x.coord = revs[r].coord /\ x.mode = revs[r].mode
        /\ x.sel = revs[r].sel /\ x.excluded = revs[r].excluded /\ x.shown = revs[r].shown
        /\ x.cancelled = revs[r].cancelled /\ x.grants = revs[r].grants
    BY <1>1 DEF Rev
  <2>4. revs' = [revs EXCEPT ![r] = x]
    BY <2>1
  <2> HIDE DEF x
  <2> QED
    BY <1>1, <2>2, <2>3, <2>4, MovedKeeps DEF slot
<1>6. CASE Touch(r)
  <2> DEFINE x == [revs[r] EXCEPT !.at = "answer"]
  <2>1. /\ revs[r].at = "touch" /\ lock = 0 /\ revs' = [revs EXCEPT ![r] = x]
        /\ uses' = uses + 1 /\ timers' = timers \cup {uses + 1}
        /\ UNCHANGED <<engine, lock, running, proc, launches, socket>>
    BY <1>6 DEF Touch, At, Move, Used
  <2>2. uses' \in Nat /\ timers' \subseteq 1 .. uses'
    BY <1>1, <2>1
  <2>3. /\ x \in Rev /\ x.at = "answer" /\ x.proc = revs[r].proc
        /\ x.sid = revs[r].sid /\ x.coord = revs[r].coord /\ x.mode = revs[r].mode
        /\ x.sel = revs[r].sel /\ x.excluded = revs[r].excluded /\ x.shown = revs[r].shown
        /\ x.cancelled = revs[r].cancelled /\ x.grants = revs[r].grants
    BY <1>1 DEF Rev
  <2> HIDE DEF x
  <2> QED
    BY <1>1, <2>1, <2>2, <2>3, MovedKeeps
<1>7. CASE Drop(r)
  <2> DEFINE x == [revs[r] EXCEPT !.at = "end"]
  <2>1. /\ revs[r].at = "answer" /\ revs' = [revs EXCEPT ![r] = x] /\ UNCHANGED <<engine, slot>>
    BY <1>7 DEF Drop, At, Move
  <2>2. /\ x \in Rev /\ x.at = "end" /\ x.proc = revs[r].proc
        /\ x.sid = revs[r].sid /\ x.coord = revs[r].coord /\ x.mode = revs[r].mode
        /\ x.sel = revs[r].sel /\ x.excluded = revs[r].excluded /\ x.shown = revs[r].shown
        /\ x.cancelled = revs[r].cancelled /\ x.grants = revs[r].grants
    BY <1>1 DEF Rev
  <2> HIDE DEF x
  <2> QED
    BY <1>1, <2>1, <2>2, MovedKeeps DEF slot
<1> QED
  BY <1>2, <1>3, <1>4, <1>5, <1>6, <1>7

\* A process given up: nobody uses it, and the slot holds none.
LEMMA DiscardRight ==
    ASSUME SlotHalf, \A r \in Revs : revs[r].proc = 0,
           running' = 0, proc' = Discarded
    PROVE  /\ proc' \in Seq(Proc) /\ Len(proc') = Len(proc) /\ DOMAIN proc' = DOMAIN proc
           /\ Launching' = Launching /\ NoOrphan'
<1>1. /\ SlotType /\ NoOrphan /\ running \in NoneOr(Procs) /\ proc \in Seq(Proc)
      /\ running # 0 => proc[running] \in {"ready", "dead"}
  BY DEF SlotHalf, SlotType, Slot
<1>2. CASE running = 0
  <2>1. proc' = proc
    BY <1>2 DEF Discarded
  <2>2. \A p \in Procs : proc[p] \notin {"ready", "dead"}
    BY <1>1, <1>2, ProcsRight DEF NoOrphan
  <2> QED
    BY <1>1, <2>1, <2>2 DEF NoOrphan, Launching
<1>3. CASE running # 0
  <2>1. proc' = [proc EXCEPT ![running] = "stopping"] /\ "stopping" \in Proc
    BY <1>3 DEF Discarded, Stop, Proc
  <2>2. /\ proc' \in Seq(Proc) /\ Len(proc') = Len(proc) /\ DOMAIN proc' = DOMAIN proc
        /\ proc'[running] = "stopping" /\ \A p \in Procs : p # running => proc'[p] = proc[p]
    BY <1>1, <1>3, <2>1, ExceptRight
  <2>3. Launching' = Launching
    BY <1>1, <1>3, <2>2 DEF Launching
  <2>4. NoOrphan'
    BY <1>1, <1>3, <2>2 DEF NoOrphan
  <2> QED
    BY <2>2, <2>3, <2>4
<1> QED
  BY <1>2, <1>3

LEMMA StartsKeep ==
    ASSUME IInv, NEW r \in Revs, Unavailable(r) \/ AskLaunch(r)
    PROVE  IInv'
<1>1. /\ revs[r].at = "slot" /\ lock = 0 /\ running' = 0 /\ proc' = Discarded
      /\ UNCHANGED <<engine, socket, uses, timers>>
  BY DEF Unavailable, AskLaunch, NeedsStart, At
<1>2. /\ revs[r] \in Rev /\ r # 0 /\ Holding = {r}
      /\ \A q \in Revs : revs[q].proc = 0
      /\ EngineHalf /\ SlotHalf /\ SlotType /\ Tasks /\ Slot /\ revs \in Seq(Rev)
  BY <1>1, TaskRight DEF IInv, SlotHalf, EngineHalf, RevsType
<1>3. PICK x \in Rev :
        /\ revs' = [revs EXCEPT ![r] = x]
        /\ x.sid = revs[r].sid /\ x.coord = revs[r].coord /\ x.mode = revs[r].mode
        /\ x.sel = revs[r].sel /\ x.excluded = revs[r].excluded /\ x.shown = revs[r].shown
        /\ x.cancelled = revs[r].cancelled /\ x.grants = revs[r].grants /\ x.proc = 0
        /\ \/ x.at = "answer" /\ UNCHANGED <<lock, launches>>
           \/ /\ x.at = "launch" /\ lock' = r /\ launches' = Append(launches, r)
              /\ Len(proc) + Len(launches) < MaxProc
  <2>1. CASE Unavailable(r)
    <3> DEFINE x == [revs[r] EXCEPT !.at = "answer", !.reply = "unavailable"]
    <3>1. x \in Rev
      BY <1>2 DEF Rev, Reply
    <3>2. revs' = [revs EXCEPT ![r] = x] /\ UNCHANGED <<lock, launches>>
      BY <2>1 DEF Unavailable, Answer
    <3>3. /\ x.sid = revs[r].sid /\ x.coord = revs[r].coord /\ x.mode = revs[r].mode
          /\ x.sel = revs[r].sel /\ x.excluded = revs[r].excluded /\ x.shown = revs[r].shown
          /\ x.cancelled = revs[r].cancelled /\ x.grants = revs[r].grants /\ x.proc = 0
          /\ x.at = "answer"
      BY <1>2 DEF Rev
    <3> HIDE DEF x
    <3> QED
      BY <3>1, <3>2, <3>3
  <2>2. CASE AskLaunch(r)
    <3> DEFINE x == [revs[r] EXCEPT !.at = "launch"]
    <3>1. x \in Rev
      BY <1>2 DEF Rev
    <3>2. /\ revs' = [revs EXCEPT ![r] = x] /\ lock' = r /\ launches' = Append(launches, r)
          /\ Len(proc) + Len(launches) < MaxProc
      BY <2>2 DEF AskLaunch, Move
    <3>3. /\ x.sid = revs[r].sid /\ x.coord = revs[r].coord /\ x.mode = revs[r].mode
          /\ x.sel = revs[r].sel /\ x.excluded = revs[r].excluded /\ x.shown = revs[r].shown
          /\ x.cancelled = revs[r].cancelled /\ x.grants = revs[r].grants /\ x.proc = 0
          /\ x.at = "launch"
      BY <1>2 DEF Rev
    <3> HIDE DEF x
    <3> QED
      BY <3>1, <3>2, <3>3
  <2> QED
    BY <2>1, <2>2
<1>4. EngineHalf'
  BY <1>1, <1>2, <1>3, EngineKept
<1>5. /\ DOMAIN revs' = DOMAIN revs /\ revs'[r] = x
      /\ \A q \in Revs : q # r => revs'[q] = revs[q]
  BY <1>2, <1>3, ExceptRight
<1>6. /\ proc' \in Seq(Proc) /\ Len(proc') = Len(proc) /\ DOMAIN proc' = DOMAIN proc
      /\ Launching' = Launching /\ NoOrphan'
  BY <1>1, <1>2, DiscardRight
<1>7. /\ launches' \in Seq(Revs) /\ Len(launches') \in Nat /\ Len(proc) \in Nat
      /\ \/ launches' = launches
         \/ Len(launches') = Len(launches) + 1 /\ launches' # <<>>
            /\ Len(proc) + Len(launches') <= MaxProc
  <2> DEFINE R == Revs
  <2>1. launches \in Seq(R) /\ r \in R /\ Len(launches) \in Nat /\ Len(proc) \in Nat
    BY <1>2, ProcsRight
  <2>2. MaxProc \in Nat
    BY RevisionAssumption
  <2> HIDE DEF R
  <2>3. launches' \in Seq(R) /\ Len(launches') \in Nat
        /\ \/ launches' = launches
           \/ Len(launches') = Len(launches) + 1 /\ launches' # <<>>
              /\ Len(proc) + Len(launches') <= MaxProc
    BY <1>3, <2>1, <2>2, AppendRight
  <2> QED
    BY <2>1, <2>3 DEF R
<1>8. SlotType'
  BY <1>1, <1>2, <1>3, <1>5, <1>6, <1>7 DEF SlotType
<1>9. Tasks'
  <2>1. \A q \in Revs' : revs'[q].proc = 0
    BY <1>2, <1>3, <1>5
  <2>2. Holding' \subseteq Holding
    BY <1>2, <1>5 DEF Holding
  <2> QED
    BY <1>2, <2>1, <2>2 DEF Tasks
<1>10. Slot'
  <2>1. lock' # 0 => revs'[lock'].at = "launch"
    BY <1>1, <1>3, <1>5
  <2>2. Launching # {} => launches' # <<>>
    BY <1>2, <1>7 DEF Slot
  <2>3. Len(proc') + Len(launches') <= MaxProc + (IF Launching' = {} THEN 0 ELSE 1)
    BY <1>2, <1>6, <1>7, RevisionAssumption DEF Slot
  <2> QED
    BY <1>1, <1>2, <1>6, <2>1, <2>2, <2>3 DEF Slot, At
<1> QED
  BY <1>4, <1>8, <1>9, <1>10 DEF IInv, SlotHalf

-----------------------------------------------------------------------------
(* The steps of the thread, the processes and the idle stop                *)

\* A process of the slot or of none changes while the tasks stand still.
LEMMA ProcessKeeps ==
    ASSUME IInv, UNCHANGED <<engine, revs, lock, launches>>,
           NEW p \in Procs, NEW to \in Proc, proc' = [proc EXCEPT ![p] = to],
           running' \in NoneOr(Procs), socket' \in NoneOr(Procs),
           uses' \in Nat, timers' \subseteq 1 .. uses',
           \/ running' = running /\ (proc[p] \in {"ready", "dead"} => to = "dead")
           \/ running' = 0 /\ running = p /\ Callers(p) = {} /\ to = "stopping",
           to \in {"ready", "dead"} => proc[p] \in {"ready", "dead"},
           to \in {"starting", "bound"} <=> proc[p] \in {"starting", "bound"}
    PROVE  IInv'
<1>0. /\ EngineHalf /\ SlotHalf /\ SlotType /\ Tasks /\ Slot /\ NoOrphan
      /\ proc \in Seq(Proc)
      /\ \A q \in Procs : q # 0
  BY ProcsRight DEF IInv, SlotHalf, SlotType, Slot
<1>1. EngineHalf'
  BY <1>0, EngineSame
<1>2. /\ proc' \in Seq(Proc) /\ Len(proc') = Len(proc) /\ DOMAIN proc' = DOMAIN proc
      /\ proc'[p] = to /\ \A q \in Procs : q # p => proc'[q] = proc[q]
  BY <1>0, ExceptRight
<1>3. SlotType'
  BY <1>0, <1>2 DEF SlotType
<1>4. Launching' = Launching
  BY <1>2 DEF Launching
<1>5. Tasks'
  <2>1. Holding' = Holding
    BY DEF Holding
  <2>2. ASSUME NEW r \in Revs, revs[r].proc # 0
        PROVE  /\ revs[r].at = "call" /\ running' = revs[r].proc
               /\ proc'[running'] \in {"ready", "dead"}
    <3>1. /\ revs[r].at = "call" /\ running = revs[r].proc /\ proc[running] \in {"ready", "dead"}
          /\ running \in Procs
      BY <1>0, <2>2 DEF Tasks, SlotType
    <3>2. running' = running
      <4>1. running = p => r \in Callers(p)
        BY <3>1 DEF Callers
      <4> QED
        BY <4>1
    <3> QED
      BY <1>2, <3>1, <3>2
  <2> QED
    BY <1>0, <2>1, <2>2 DEF Tasks
<1>6. Slot'
  <2>1. running' # 0 => proc'[running'] \in {"ready", "dead"}
    BY <1>0, <1>2 DEF Slot, SlotType
  <2>2. NoOrphan'
    <3> SUFFICES ASSUME NEW q \in Procs, proc'[q] \in {"ready", "dead"}
                 PROVE  running' = q
      BY <1>2 DEF NoOrphan
    <3>1. running = q
      BY <1>0, <1>2 DEF NoOrphan
    <3> QED
      BY <1>2, <3>1
  <2>3. lock' # 0 => At(lock, "launch")' /\ running' = 0
    BY <1>0 DEF Slot, At
  <2>4. \A q1, q2 \in Launching' : q1 = q2
    BY <1>0, <1>4 DEF Slot
  <2>5. /\ Launching' # {} => launches' # <<>>
        /\ Len(proc') + Len(launches') <= MaxProc + (IF Launching' = {} THEN 0 ELSE 1)
    BY <1>0, <1>2, <1>4 DEF Slot
  <2> QED
    BY <2>1, <2>2, <2>3, <2>4, <2>5 DEF Slot
<1> QED
  BY <1>1, <1>3, <1>5, <1>6 DEF IInv, SlotHalf

LEMMA ProcessStepsKeep ==
    ASSUME IInv,
           \/ \E p \in Procs : Bind(p) \/ Die(p) \/ Stopped(p)
           \/ \E u \in timers : IdleStop(u)
    PROVE  IInv'
<1>1. /\ running \in NoneOr(Procs) /\ socket \in NoneOr(Procs) /\ uses \in Nat
      /\ timers \subseteq 1 .. uses
      /\ running # 0 => proc[running] \in {"ready", "dead"}
  BY DEF IInv, SlotHalf, SlotType, Slot
<1>2. ASSUME NEW p \in Procs, Bind(p) PROVE IInv'
  <2>1. /\ proc[p] = "starting" /\ proc' = [proc EXCEPT ![p] = "bound"] /\ "bound" \in Proc
        /\ socket' \in NoneOr(Procs) /\ UNCHANGED <<engine, revs, lock, launches>>
        /\ UNCHANGED <<running, uses, timers>>
    BY <1>2 DEF Bind, Proc
  <2> QED
    BY <1>1, <2>1, ProcessKeeps
<1>3. ASSUME NEW p \in Procs, Die(p) PROVE IInv'
  <2>1. /\ proc[p] = "ready" /\ proc' = [proc EXCEPT ![p] = "dead"] /\ "dead" \in Proc
        /\ UNCHANGED <<engine, revs, lock, launches>> /\ UNCHANGED <<running, socket, uses, timers>>
    BY <1>3 DEF Die, Proc
  <2> QED
    BY <1>1, <2>1, ProcessKeeps
<1>4. ASSUME NEW p \in Procs, Stopped(p) PROVE IInv'
  <2>1. /\ proc[p] = "stopping" /\ proc' = [proc EXCEPT ![p] = "gone"] /\ "gone" \in Proc
        /\ socket' \in NoneOr(Procs)
        /\ UNCHANGED <<engine, revs, lock, launches>> /\ UNCHANGED <<running, uses, timers>>
    BY <1>4 DEF Stopped, Proc
  <2> QED
    BY <1>1, <2>1, ProcessKeeps
<1>5. ASSUME NEW u \in timers, IdleStop(u) PROVE IInv'
  <2>1. /\ UNCHANGED <<engine, revs, lock, launches>> /\ UNCHANGED <<socket, uses>>
        /\ timers' \subseteq timers
    BY <1>5 DEF IdleStop
  <2>2. CASE running # 0 /\ Callers(running) = {} /\ running' = 0 /\ proc' = Stop(running)
    <3>1. PICK p \in Procs : p = running
      BY <1>1, <2>2
    <3>2. /\ proc' = [proc EXCEPT ![p] = "stopping"] /\ "stopping" \in Proc
          /\ proc[p] \in {"ready", "dead"} /\ Callers(p) = {}
      BY <1>1, <2>2, <3>1 DEF Stop, Proc
    <3> QED
      BY <1>1, <2>1, <2>2, <3>1, <3>2, ProcessKeeps
  <2>3. CASE UNCHANGED <<running, proc>>
    <3>1. EngineHalf'
      BY <2>1, EngineSame DEF IInv
    <3>2. SlotType' /\ Tasks' /\ Slot'
      BY <2>1, <2>3
         DEF IInv, SlotHalf, SlotType, Tasks, Slot, Holding, At, NoOrphan, Launching
    <3> QED
      BY <3>1, <3>2 DEF IInv, SlotHalf
  <2> QED
    BY <1>5, <2>2, <2>3 DEF IdleStop
<1> QED
  BY <1>2, <1>3, <1>4, <1>5

LEMMA SpawnKeeps == ASSUME IInv, Spawn PROVE IInv'
<1> DEFINE n == Len(proc) + 1
<1>1. /\ launches # <<>> /\ Launching = {} /\ proc' = Append(proc, "starting") /\ socket' = 0
      /\ UNCHANGED <<engine, revs, lock, running, launches, uses, timers>>
  BY DEF Spawn
<1>2. /\ EngineHalf /\ SlotHalf /\ SlotType /\ Tasks /\ Slot /\ proc \in Seq(Proc)
      /\ "starting" \in Proc /\ Len(proc) \in Nat /\ MaxProc \in Nat
      /\ Len(launches) \in Nat
  BY ProcsRight, RevisionAssumption DEF IInv, SlotHalf, Proc
<1>3. EngineHalf'
  BY <1>1, <1>2, EngineSame
<1>4. /\ proc' \in Seq(Proc) /\ Len(proc') = n /\ DOMAIN proc' = Procs \cup {n}
      /\ proc'[n] = "starting" /\ \A p \in Procs : p # n /\ proc'[p] = proc[p]
  BY <1>1, <1>2, AppendRight
<1> HIDE DEF n
<1>5. SlotType'
  BY <1>1, <1>2, <1>4 DEF SlotType
<1>6. Tasks'
  <2>1. Holding' = Holding
    BY <1>1 DEF Holding
  <2>2. running # 0 => proc'[running] = proc[running]
    BY <1>2, <1>4 DEF SlotType
  <2>3. \A r \in Revs : revs[r].proc # 0 => running # 0
    BY <1>2 DEF Tasks
  <2> QED
    BY <1>1, <1>2, <2>1, <2>2, <2>3 DEF Tasks
<1>7. Slot'
  <2>1. Launching' = {n}
    BY <1>1, <1>4 DEF Launching
  <2>2. running # 0 => proc'[running] = proc[running]
    BY <1>2, <1>4 DEF SlotType
  <2>3. NoOrphan'
    BY <1>1, <1>2, <1>4 DEF Slot, NoOrphan
  <2>4. Len(proc') + Len(launches') <= MaxProc + (IF Launching' = {} THEN 0 ELSE 1)
    BY <1>1, <1>2, <1>4, <2>1 DEF Slot, n
  <2> QED
    BY <1>1, <1>2, <2>1, <2>2, <2>3, <2>4 DEF Slot, At
<1> QED
  BY <1>3, <1>5, <1>6, <1>7 DEF IInv, SlotHalf

\* A start is over: the thread takes the next.
LEMMA StartOver ==
    ASSUME IInv, NEW p \in Launching, NEW to \in Proc, to \notin {"starting", "bound"},
           proc' = [proc EXCEPT ![p] = to], launches' = Tail(launches)
    PROVE  /\ p \in Procs /\ proc' \in Seq(Proc) /\ Len(proc') = Len(proc)
           /\ DOMAIN proc' = DOMAIN proc /\ proc'[p] = to
           /\ \A q \in Procs : q # p => proc'[q] = proc[q]
           /\ launches' \in Seq(Revs) /\ Launching' = {}
           /\ Len(proc') + Len(launches') <= MaxProc
<1>1. /\ SlotType /\ Slot /\ p \in Procs /\ proc \in Seq(Proc) /\ Len(proc) \in Nat
      /\ launches \in Seq(Revs) /\ Len(launches) \in Nat /\ MaxProc \in Nat
  BY ProcsRight, RevisionAssumption DEF IInv, SlotHalf, Launching
<1>2. launches # <<>> /\ Len(proc) + Len(launches) <= MaxProc + 1
  BY <1>1 DEF Slot
<1>3. /\ proc' \in Seq(Proc) /\ Len(proc') = Len(proc) /\ DOMAIN proc' = DOMAIN proc
      /\ proc'[p] = to /\ \A q \in Procs : q # p => proc'[q] = proc[q]
  BY <1>1, ExceptRight
<1>4. Launching' = {}
  BY <1>1, <1>3 DEF Launching, Slot
<1>5. launches' \in Seq(Revs) /\ Len(launches') = Len(launches) - 1
  <2> DEFINE R == Revs
  <2>1. launches \in Seq(R) /\ launches # <<>>
    BY <1>1, <1>2
  <2> HIDE DEF R
  <2>2. Tail(launches) \in Seq(R) /\ Len(Tail(launches)) = Len(launches) - 1
    BY <2>1
  <2> QED
    BY <2>2 DEF R
<1> QED
  BY <1>1, <1>2, <1>3, <1>4, <1>5

LEMMA ReadyKeeps == ASSUME IInv, NEW p \in Procs, Ready(p) PROVE IInv'
<1>0. /\ p \in Launching /\ proc[p] = "bound" /\ launches' = Tail(launches)
      /\ UNCHANGED engine
      /\ EngineHalf /\ SlotHalf /\ SlotType /\ Tasks /\ Slot /\ p # 0
      /\ {"ready", "gone"} \subseteq Proc
  BY ProcsRight DEF Ready, Launching, Proc, IInv, SlotHalf
<1>1. CASE /\ Waiting /\ proc' = [proc EXCEPT ![p] = "ready"] /\ running' = p /\ lock' = 0
           /\ revs' = [revs EXCEPT ![lock].at = "call", ![lock].proc = p]
           /\ Used /\ UNCHANGED socket
  <2>1. PICK r \in Revs : r = lock /\ revs[r].at = "launch" /\ running = 0
    BY <1>0, <1>1 DEF Waiting, At, SlotType, Slot
  <2> DEFINE x == [revs[r] EXCEPT !.at = "call", !.proc = p]
  <2>2. /\ proc' \in Seq(Proc) /\ Len(proc') = Len(proc)
        /\ DOMAIN proc' = DOMAIN proc /\ proc'[p] = "ready"
        /\ \A q \in Procs : q # p => proc'[q] = proc[q]
        /\ launches' \in Seq(Revs) /\ Launching' = {}
        /\ Len(proc') + Len(launches') <= MaxProc
    BY <1>0, <1>1, StartOver
  <2>3. /\ revs[r] \in Rev /\ r # 0 /\ Holding = {r} /\ uses \in Nat /\ timers \subseteq 1 .. uses
        /\ \A q \in Revs : q # r => revs[q].proc = 0
    BY <2>1, TaskRight
  <2>4. p \in 1 .. MaxProc
    <3>1. /\ Len(proc) \in Nat /\ Procs = 1 .. Len(proc) /\ MaxProc \in Nat
      BY <1>0, ProcsRight, RevisionAssumption
    <3>2. Len(launches') \in Nat
      BY <2>2, LenProperties
    <3> QED
      BY <2>2, <3>1, <3>2
  <2>5. /\ x \in Rev /\ x.at = "call" /\ x.proc = p
        /\ x.sid = revs[r].sid /\ x.coord = revs[r].coord /\ x.mode = revs[r].mode
        /\ x.sel = revs[r].sel /\ x.excluded = revs[r].excluded /\ x.shown = revs[r].shown
        /\ x.cancelled = revs[r].cancelled /\ x.grants = revs[r].grants
    BY <2>3, <2>4 DEF Rev
  <2>6. revs' = [revs EXCEPT ![r] = x] /\ revs \in Seq(Rev)
    BY <1>0, <1>1, <2>1 DEF EngineHalf, RevsType
  <2>7. uses' \in Nat /\ timers' \subseteq 1 .. uses'
    BY <1>1, <2>3 DEF Used
  <2> HIDE DEF x
  <2>8. EngineHalf'
    BY <1>0, <2>1, <2>5, <2>6, EngineKept
  <2>9. /\ DOMAIN revs' = DOMAIN revs /\ revs'[r] = x
        /\ \A q \in Revs : q # r => revs'[q] = revs[q]
    BY <2>5, <2>6, ExceptRight
  <2>10. SlotType'
    BY <1>0, <1>1, <2>2, <2>7, <2>9 DEF SlotType
  <2>11. Tasks'
    <3>1. Holding' \subseteq {r}
      BY <2>3, <2>9 DEF Holding
    <3> QED
      BY <1>1, <2>2, <2>3, <2>5, <2>9, <3>1 DEF Tasks
  <2>12. Slot'
    <3>1. NoOrphan'
      BY <1>0, <1>1, <2>1, <2>2, ProcsRight DEF Slot, NoOrphan
    <3>2. Len(proc') + Len(launches') <= MaxProc + (IF Launching' = {} THEN 0 ELSE 1)
      BY <2>2, RevisionAssumption
    <3> QED
      BY <1>1, <2>2, <3>1, <3>2 DEF Slot
  <2> QED
    BY <2>8, <2>10, <2>11, <2>12 DEF IInv, SlotHalf
<1>2. CASE /\ proc' = [proc EXCEPT ![p] = "gone"] /\ socket' = 0
           /\ UNCHANGED <<running, lock, revs, uses, timers>>
  <2>1. /\ proc' \in Seq(Proc) /\ Len(proc') = Len(proc)
        /\ DOMAIN proc' = DOMAIN proc /\ proc'[p] = "gone"
        /\ \A q \in Procs : q # p => proc'[q] = proc[q]
        /\ launches' \in Seq(Revs) /\ Launching' = {}
        /\ Len(proc') + Len(launches') <= MaxProc
    BY <1>0, <1>2, StartOver
  <2>2. EngineHalf'
    BY <1>0, <1>2, EngineSame
  <2>3. SlotType'
    BY <1>0, <1>2, <2>1 DEF SlotType
  <2>4. running # p
    BY <1>0 DEF Slot
  <2>5. Tasks'
    <3>1. Holding' = Holding
      BY <1>2 DEF Holding
    <3>2. \A r \in Revs : revs[r].proc # 0 =>
            running \in Procs /\ proc'[running] = proc[running]
      BY <1>0, <2>1, <2>4 DEF Tasks, SlotType
    <3> QED
      BY <1>0, <1>2, <3>1, <3>2 DEF Tasks
  <2>6. Slot'
    <3>1. NoOrphan'
      BY <1>0, <1>2, <2>1 DEF Slot, NoOrphan
    <3>2. Len(proc') + Len(launches') <= MaxProc + (IF Launching' = {} THEN 0 ELSE 1)
      BY <2>1, RevisionAssumption
    <3>3. running' # 0 => proc'[running'] \in {"ready", "dead"}
      BY <1>0, <1>2, <2>1, <2>4 DEF Slot, SlotType
    <3> QED
      BY <1>0, <1>2, <2>1, <3>1, <3>2, <3>3 DEF Slot, At
  <2> QED
    BY <2>2, <2>3, <2>5, <2>6 DEF IInv, SlotHalf
<1> QED
  BY <1>1, <1>2 DEF Ready

LEMMA StartFailsKeeps == ASSUME IInv, NEW p \in Procs, StartFails(p) PROVE IInv'
<1>0. /\ p \in Launching /\ launches' = Tail(launches)
      /\ proc' = [proc EXCEPT ![p] = "gone"] /\ socket' = 0
      /\ UNCHANGED <<engine, running, uses, timers>>
      /\ EngineHalf /\ SlotHalf /\ SlotType /\ Tasks /\ Slot /\ "gone" \in Proc
      /\ proc[p] \in {"starting", "bound"} /\ p # 0
  BY ProcsRight DEF StartFails, Launching, Proc, IInv, SlotHalf
<1>1. /\ proc' \in Seq(Proc) /\ Len(proc') = Len(proc)
      /\ DOMAIN proc' = DOMAIN proc /\ proc'[p] = "gone"
      /\ \A q \in Procs : q # p => proc'[q] = proc[q]
      /\ launches' \in Seq(Revs) /\ Launching' = {}
      /\ Len(proc') + Len(launches') <= MaxProc
  BY <1>0, StartOver
<1>2. EngineHalf' /\ Revs' = Revs
      /\ \/ UNCHANGED <<revs, lock>>
         \/ /\ lock' = 0 /\ lock \in Revs /\ revs'[lock].proc = 0 /\ revs'[lock].at = "answer"
            /\ \A q \in Revs : q # lock => revs'[q] = revs[q]
  <2>1. CASE UNCHANGED <<revs, lock>>
    BY <1>0, <2>1, EngineSame
  <2>2. CASE Waiting /\ revs' = Answer(lock, "failed") /\ lock' = 0
    <3>1. PICK r \in Revs : r = lock /\ revs[r].at = "launch"
      BY <1>0, <2>2 DEF Waiting, At, SlotType
    <3> DEFINE x == [revs[r] EXCEPT !.at = "answer", !.reply = "failed"]
    <3>2. revs[r] \in Rev /\ revs[r].proc = 0
      BY <3>1, TaskRight
    <3>3. /\ x \in Rev /\ x.at = "answer" /\ x.proc = 0
          /\ x.sid = revs[r].sid /\ x.coord = revs[r].coord /\ x.mode = revs[r].mode
          /\ x.sel = revs[r].sel /\ x.excluded = revs[r].excluded /\ x.shown = revs[r].shown
          /\ x.cancelled = revs[r].cancelled /\ x.grants = revs[r].grants
      BY <3>2 DEF Rev, Reply
    <3>4. revs' = [revs EXCEPT ![r] = x] /\ revs \in Seq(Rev)
      BY <1>0, <2>2, <3>1 DEF Answer, EngineHalf, RevsType
    <3> HIDE DEF x
    <3>5. EngineHalf'
      BY <1>0, <3>1, <3>3, <3>4, EngineKept
    <3> QED
      BY <2>2, <3>1, <3>3, <3>4, <3>5, ExceptRight
  <2> QED
    BY <2>1, <2>2 DEF StartFails
<1>3. SlotType'
  BY <1>0, <1>1, <1>2 DEF SlotType
<1>4. running # p
  BY <1>0 DEF Slot
<1>5. Tasks'
  <2>1. Holding' \subseteq Holding
    BY <1>2 DEF Holding
  <2>2. \A r \in Revs : revs'[r].proc # 0 =>
            /\ revs'[r] = revs[r]
            /\ running \in Procs /\ proc'[running] = proc[running]
    BY <1>0, <1>1, <1>2, <1>4 DEF Tasks, SlotType
  <2> QED
    BY <1>0, <1>2, <2>1, <2>2 DEF Tasks
<1>6. Slot'
  <2>1. NoOrphan'
    BY <1>0, <1>1 DEF Slot, NoOrphan
  <2>2. Len(proc') + Len(launches') <= MaxProc + (IF Launching' = {} THEN 0 ELSE 1)
    BY <1>1, RevisionAssumption
  <2>3. running' # 0 => proc'[running'] \in {"ready", "dead"}
    BY <1>0, <1>1, <1>4 DEF Slot, SlotType
  <2>4. lock' # 0 => At(lock, "launch")' /\ running' = 0
    BY <1>0, <1>2 DEF Slot, At
  <2> QED
    BY <1>1, <2>1, <2>2, <2>3, <2>4 DEF Slot
<1> QED
  BY <1>2, <1>3, <1>5, <1>6 DEF IInv, SlotHalf

LEMMA NextKeeps == IInv /\ [Next]_vars => IInv'
<1> SUFFICES ASSUME IInv, [Next]_vars PROVE IInv'
  OBVIOUS
<1>1. CASE Adapter \/ Authority
  BY <1>1, EndingsKeep, QuietStepsKeep, RequestKeeps, AcceptKeeps DEF Adapter, Authority
<1>2. CASE Clock
  BY <1>2, EndingsKeep, QuietStepsKeep, TtlPassesKeeps DEF Clock
<1>3. CASE Thread
  BY <1>3, SpawnKeeps, ProcessStepsKeep, ReadyKeeps, StartFailsKeeps DEF Thread
<1>4. CASE \E r \in Revs : Work(r)
  BY <1>4, MovesKeep, StartsKeep, ShowKeeps, ClearKeeps DEF Work
<1>5. CASE (\E p \in Procs : Die(p) \/ Stopped(p)) \/ \E u \in timers : IdleStop(u)
  BY <1>5, ProcessStepsKeep
<1>6. CASE UNCHANGED vars
  <2>1. EngineHalf'
    BY <1>6, EngineSame DEF IInv, vars, engine
  <2>2. SlotType' /\ Tasks' /\ Slot'
    BY <1>6 DEF IInv, vars, slot, SlotHalf, SlotType, Tasks, Slot, Holding, At, NoOrphan, Launching
  <2> QED
    BY <2>1, <2>2 DEF IInv, SlotHalf
<1> QED
  BY <1>1, <1>2, <1>3, <1>4, <1>5, <1>6 DEF Next

-----------------------------------------------------------------------------
(* What it says                                                            *)

LEMMA Reached_IInv == Spec => []IInv
  BY InitHolds, NextKeeps, PTL DEF Spec

LEMMA ScreenFollows == IInv => ScreenSafe
<1> SUFFICES ASSUME IInv PROVE ScreenSafe
  OBVIOUS
<1>1. TypeOK
  <2>1. Len(proc) <= MaxProc
    BY ProcsRight, RevisionAssumption DEF IInv, SlotHalf, Slot
  <2> QED
    BY <2>1 DEF IInv, EngineHalf, EngineType, RevsType, SlotHalf, SlotType, TypeOK
<1>2. ScreenCurrent
  BY DEF IInv, EngineHalf, Sessions, Mine, ScreenCurrent
<1>3. WithheldSilent
  BY DEF IInv, EngineHalf, EngineType, Sessions, Mine, WithheldSilent
<1> QED
  BY <1>1, <1>2, <1>3 DEF IInv, EngineHalf, ScreenSafe

LEMMA CallsFollow == IInv => CallsSafe
<1> SUFFICES ASSUME IInv PROVE CallsSafe
  OBVIOUS
<1>1. OneCall
  <2>1. CASE Holding = {}
    BY <2>1, FS_EmptySet DEF OneCall
  <2>2. CASE Holding # {}
    <3>1. PICK r : Holding = {r}
      BY <2>2 DEF IInv, SlotHalf, Tasks
    <3>2. Cardinality({r}) = 1
      BY FS_Singleton
    <3> QED
      BY <3>1, <3>2 DEF OneCall
  <2> QED
    BY <2>1, <2>2
<1>2. StaleCancelled
  BY DEF IInv, EngineHalf, Wanted, At, StaleCancelled
<1>3. InUseKept
  BY DEF IInv, SlotHalf, Tasks, InUseKept
<1> QED
  BY <1>1, <1>2, <1>3 DEF IInv, SlotHalf, Slot, CallsSafe

\* Whatever sessions ask, hold and answer, an adapter displays of revisions only
\* its own and current one, or the one its commit applies, none where data is
\* withheld, and commits each at most once (engine/revision.rs).
THEOREM ScreenIsSafe == Spec => []ScreenSafe
  BY Reached_IInv, ScreenFollows, PTL

\* However many revisions wait, one is inside the process; a task that goes on
\* is wanted or cancelled; no process is taken from under a call or forgotten
\* (revision/runtime.rs).
THEOREM CallsAreSafe == Spec => []CallsSafe
  BY Reached_IInv, CallsFollow, PTL

\* Nothing but Show makes a revision a shown one.
LEMMA OnlyShowShows ==
    ASSUME IInv, Next, NEW r \in Revs, ~revs[r].shown, revs'[r].shown
    PROVE  Show(r)
<1>1. /\ EngineHalf /\ revs \in [Revs -> Rev] /\ revs[r] \in Rev
      /\ \A q \in Revs : q # 0 /\ revs[q] \in Rev
  BY RevsRight DEF IInv, EngineHalf, RevsType
<1>2. CASE Adapter \/ Authority
  <2>1. ASSUME NEW s \in Sid, revs' = Cancel(s) PROVE FALSE
    BY <1>1, <2>1, CancelRight DEF Like
  <2>2. ASSUME NEW s \in Sid, Accept(s) PROVE FALSE
    <3>1. PICK q \in Revs : q = sess[s].rev
      BY <1>1, <2>2 DEF Accept, Answerable, EngineHalf, Sessions, Mine
    <3>2. revs' = [revs EXCEPT ![q].grants = revs[q].grants + 1]
      BY <2>2, <3>1 DEF Accept
    <3> QED
      BY <1>1, <3>2 DEF Rev
  <2>3. ASSUME NEW s \in Sid, NEW c \in Coords, NEW m \in Asks, NEW sel \in Sel,
               Request(s, c, m, sel)
        PROVE  FALSE
    <3>1. PICK e : revs' = Append(Cancel(s), e)
      BY <2>3 DEF Request
    <3>2. /\ Cancel(s) \in Seq(Rev) /\ Len(Cancel(s)) = Len(revs)
          /\ r \in 1 .. Len(revs) /\ Len(revs) \in Nat /\ Cancel(s)[r].shown = revs[r].shown
      BY <1>1, CancelRight, RevsRight DEF Like
    <3>3. Append(Cancel(s), e)[r] = Cancel(s)[r]
      BY <3>2
    <3> QED
      BY <3>1, <3>2, <3>3
  <2> QED
    BY <1>2, <2>1, <2>2, <2>3
       DEF Adapter, Authority, Refuse, Context, Retire, Dismiss, AcceptLate, AcceptRefused,
           CommitResult, Hold, Release
<1>3. CASE Clock
  <2>1. ASSUME NEW s \in Sid, revs' = Cancel(s) PROVE FALSE
    BY <1>1, <2>1, CancelRight DEF Like
  <2> QED
    BY <1>1, <1>3, <2>1
       DEF Rev, Clock, LeaseLapses, ExpireLease, Retire, HistoryLapses, ExpireGrant, TtlPasses
<1>4. CASE Thread
  <2>1. ASSUME NEW p \in Procs, Ready(p) \/ StartFails(p) PROVE FALSE
    <3>1. \/ UNCHANGED revs
          \/ lock \in Revs /\ \/ revs' = [revs EXCEPT ![lock].at = "call", ![lock].proc = p]
                              \/ revs' = [revs EXCEPT ![lock].at = "answer", ![lock].reply = "failed"]
      BY <2>1 DEF Ready, StartFails, Answer, Waiting, IInv, SlotHalf, SlotType
    <3>2. PICK q : q = lock
      OBVIOUS
    <3> QED
      BY <1>1, <3>1, <3>2 DEF Rev
  <2> QED
    BY <1>4, <2>1 DEF Thread, Spawn, Bind
<1>5. CASE \E q \in Revs : Work(q)
  <2>1. PICK q \in Revs : Work(q)
    BY <1>5
  <2>2. CASE Show(q)
    <3>1. revs' = [revs EXCEPT ![q].at = "end", ![q].shown = TRUE]
      BY <2>2 DEF Show
    <3>2. q = r
      BY <3>1
    <3> QED
      BY <2>2, <3>2
  <2>3. CASE Clear(q)
    BY <1>1, <2>3 DEF Rev, Clear
  <2>4. CASE Complete(q)
    <3>1. PICK reply : revs' = [revs EXCEPT ![q].at = "touch", ![q].proc = 0, ![q].reply = reply]
      BY <2>4 DEF Complete
    <3> QED
      BY <1>1, <3>1 DEF Rev
  <2>5. CASE GiveUp(q) \/ Unavailable(q)
    BY <1>1, <2>5 DEF Rev, GiveUp, Unavailable, Answer
  <2>6. CASE Reuse(q)
    BY <1>1, <2>6 DEF Rev, Reuse
  <2>7. CASE Admit(q) \/ AskLaunch(q) \/ Touch(q) \/ Drop(q)
    BY <1>1, <2>7 DEF Rev, Admit, AskLaunch, Touch, Drop, Move
  <2> QED
    BY <2>1, <2>2, <2>3, <2>4, <2>5, <2>6, <2>7 DEF Work
<1>6. CASE (\E p \in Procs : Die(p) \/ Stopped(p)) \/ \E u \in timers : IdleStop(u)
  BY <1>6 DEF Die, Stopped, IdleStop
<1> QED
  BY <1>2, <1>3, <1>4, <1>5, <1>6 DEF Next

\* A synonym shown for a selection is not shown again while its history lives
\* (engine/revision.rs, synonym_exclusions).
THEOREM SynonymsAreFresh == Spec => SynonymFresh
<1> DEFINE A == \A r \in Revs : ~revs[r].shown /\ revs'[r].shown =>
                    LET h == history[revs[r].sid] IN
                    revs[r].mode = "synonyms" /\ h.on /\ h.sel = revs[r].sel
                        => revs[r].reply \notin h.shown
<1>1. IInv /\ [Next]_vars => [A]_vars
  <2> SUFFICES ASSUME IInv, Next, NEW r \in Revs, ~revs[r].shown, revs'[r].shown,
                      revs[r].mode = "synonyms", history[revs[r].sid].on,
                      history[revs[r].sid].sel = revs[r].sel
               PROVE  revs[r].reply \notin history[revs[r].sid].shown
    OBVIOUS
  <2>1. Show(r)
    BY OnlyShowShows
  <2>2. /\ sess[revs[r].sid].rev = r /\ r # 0 /\ Mine(revs[r].sid)
        /\ revs[r].reply \notin revs[r].excluded
    BY <2>1, AskedRight DEF Show, Offered
  <2> QED
    BY <2>2 DEF Mine
<1> QED
  BY <1>1, Reached_IInv, PTL DEF Spec, SynonymFresh
=============================================================================
