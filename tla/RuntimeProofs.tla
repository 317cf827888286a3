---------------------------- MODULE RuntimeProofs ----------------------------
(***************************************************************************)
(* What a broker uses and leaves behind, for any number of brokers and of  *)
(* changes of the installed files.                                         *)
(*                                                                         *)
(* Processes.  Locks says who holds a home's storage, and with Paths that  *)
(* only the holder touches the home's public path; Own follows one broker, *)
(* its child and the bytes that child executes: as long as the kept stamp  *)
(* is the disk's, what was verified is what is there.                      *)
(*                                                                         *)
(* Start.  StartInv says what advice has established where it is followed. *)
(*                                                                         *)
(* Files.  BundleInv says what an identity is worth (Fresh), what the      *)
(* verifier has seen at each of its steps (Verifier), and that while       *)
(* nothing changes this is what is there (Undisturbed).                    *)
(***************************************************************************)
EXTENDS MCRuntime, FiniteSetTheorems, WellFoundedInduction, TLAPS

Before == {"off", "open", "choose", "verify", "prepare", "spawn"}
Checking == {"prepare", "spawn", "spawned", "wait", "ready"}

Locks ==
    /\ \A b \in Broker : pc[b] \notin {"off", "open", "gone"} => Lock(b) = b
    /\ \A h \in Home : lock[h] # None =>
        home[lock[h]] = h /\ pc[lock[h]] \notin {"off", "open", "gone"}

Paths ==
    /\ ServesItsSocket
    /\ \A h \in Home : main[h] \in Broker =>
        /\ home[main[h]] = h
        /\ \/ pc[main[h]] \in {"serve", "drain"}
           \/ pc[main[h]] = "gone" /\ exit[main[h]] = "crash"

Own(b) ==
    /\ pc[b] \in Before => os[b] = "none"
    /\ b \in sock => os[b] \in {"bound", "zombie", "reaped"}
    /\ pc[b] = "ready" \/ Running(b) => os[b] \in {"bound", "zombie"}
    /\ Running(b) => ran[b] /\ b \in sock
    /\ kept[b] <= disk.stamp
    /\ pc[b] \in Checking /\ Unchanged(b) =>
        disk.right /\ (os[b] \in {"run", "bound"} \/ pc[b] = "ready" => ran[b])
    /\ pc[b] = "gone" /\ exit[b] # "crash" => os[b] \in {"none", "reaped"} /\ b \notin sock

IInv == TypeOK /\ ~struck /\ Locks /\ Paths /\ \A b \in Broker : Own(b)

LEMMA Names == None \notin Broker /\ Earlier \notin Broker /\ Earlier # None
  BY ServiceAssumption DEF Broker, None, Earlier

LEMMA InitHolds == Init => IInv
<1> SUFFICES ASSUME Init PROVE IInv
  OBVIOUS
<1>1. TypeOK
  <2>1. 0 \in 0 .. MaxChange
    BY ServiceAssumption
  <2> QED
    BY <2>1 DEF Init, TypeOK, Place, Child
<1>2. Locks /\ Paths /\ ~struck
  BY Names DEF Init, Locks, Paths, ServesItsSocket
<1>3. \A b \in Broker : Own(b)
  BY ServiceAssumption DEF Init, Own, Before, Checking, Running
<1> QED
  BY <1>1, <1>2, <1>3 DEF IInv

\* One action of one broker or of its child.
Act(b) ==
    \/ Begin(b) \/ Starting(b) \/ Signalled(b) \/ ProviderExits(b) \/ Ending(b)
    \/ Helper(b) \/ ChildExit(b) \/ Crash(b)

LEMMA TypeKept == ASSUME TypeOK, NEW b \in Broker, Act(b) PROVE TypeOK'
<1> USE DEF TypeOK, Place, Child, Go, Leave, EndNow
<1>1. CASE Begin(b) \/ Open(b) \/ Choose(b) \/ Verify(b)
  BY <1>1 DEF Begin, Open, Choose, Verify, Keep
<1>2. CASE Prepare(b) \/ Spawn(b) \/ Spawned(b)
  BY <1>2 DEF Prepare, Spawn, Spawned
<1>3. CASE WaitReady(b) \/ Ready(b) \/ WarmUp(b)
  BY <1>3 DEF WaitReady, Ready, WarmUp
<1>4. CASE Look(b) \/ Recheck(b) \/ Unlink(b) \/ Bind(b)
  BY <1>4 DEF Look, Recheck, Unlink, Bind, Main
<1>5. CASE Signalled(b) \/ ProviderExits(b) \/ Drained(b)
  BY <1>5 DEF Signalled, ProviderExits, Drained
<1>6. CASE Terminate(b) \/ Reap(b) \/ Kill(b)
  BY <1>6 DEF Terminate, Reap, Kill, Finish
<1>7. CASE Helper(b) \/ ChildExit(b)
  BY <1>7 DEF Helper, HelperArm, HelperCheck, HelperExec, ChildBind, ChildExit, Died
<1>8. CASE Crash(b)
  BY <1>8 DEF Crash
<1> QED
  BY <1>1, <1>2, <1>3, <1>4, <1>5, <1>6, <1>7, <1>8 DEF Act, Starting, Ending

\* Nobody else's place, child or stamp is touched, and of the others' sockets
\* only those of brokers that are not up go.
LEMMA OthersKept ==
    ASSUME IInv, NEW b \in Broker, Act(b)
    PROVE  \A c \in Broker \ {b} :
            /\ pc'[c] = pc[c] /\ exit'[c] = exit[c] /\ kept'[c] = kept[c]
            /\ os'[c] = os[c] /\ ran'[c] = ran[c]
            /\ c \in sock' => c \in sock
            /\ Up(c) /\ c \in sock => c \in sock'
<1> USE DEF IInv, TypeOK, Go, Leave, EndNow
<1>1. CASE Begin(b) \/ Open(b) \/ Choose(b) \/ Verify(b)
  BY <1>1 DEF Begin, Open, Choose, Verify, Keep
<1>2. CASE Prepare(b) \/ Spawn(b) \/ Spawned(b)
  BY <1>2 DEF Prepare, Spawn, Spawned
<1>3. CASE WaitReady(b) \/ Ready(b) \/ WarmUp(b)
  BY <1>3 DEF WaitReady, Ready, WarmUp
<1>4. CASE Look(b) \/ Recheck(b) \/ Unlink(b) \/ Bind(b)
  BY <1>4 DEF Look, Recheck, Unlink, Bind
<1>5. CASE Signalled(b) \/ ProviderExits(b) \/ Drained(b)
  BY <1>5 DEF Signalled, ProviderExits, Drained
<1>6. CASE Terminate(b) \/ Reap(b) \/ Kill(b)
  BY <1>6 DEF Terminate, Reap, Kill, Finish
<1>7. CASE Helper(b) \/ ChildExit(b)
  BY <1>7 DEF Helper, HelperArm, HelperCheck, HelperExec, ChildBind, ChildExit
<1>8. CASE Crash(b)
  BY <1>8 DEF Crash
<1> QED
  BY <1>1, <1>2, <1>3, <1>4, <1>5, <1>6, <1>7, <1>8 DEF Act, Starting, Ending

\* The storage is held by one broker of its home while that one is in a place
\* where it holds it, and at a path is a socket of a broker of that home.
LEMMA LocksKept == ASSUME IInv, NEW b \in Broker, Act(b) PROVE Locks'
<1> USE DEF IInv, TypeOK, Locks, Go, Leave, EndNow, Lock
<1>1. CASE Begin(b) \/ Choose(b) \/ Verify(b)
  BY <1>1 DEF Begin, Free, Choose, Verify
<1>2. CASE Open(b)
  <2>1. CASE Lock(b) = None /\ lock' = [lock EXCEPT ![home[b]] = b] /\ Go(b, "choose")
    <3>1. \A c \in Broker : home[c] = home[b] => pc[c] \in {"off", "open", "gone"}
      BY <2>1, Names
    <3>2. /\ UNCHANGED home /\ home[b] \in Home /\ lock'[home[b]] = b /\ pc'[b] = "choose"
          /\ \A h \in Home \ {home[b]} : lock'[h] = lock[h]
          /\ \A c \in Broker \ {b} : pc'[c] = pc[c]
      BY <1>2, <2>1 DEF Open
    <3>3. \A h \in Home : lock[h] # None /\ h # home[b] => lock[h] # b
      OBVIOUS
    <3> QED
      BY <3>1, <3>2, <3>3, Names
  <2>2. CASE \E code \in {"failure", "configuration"} : EndNow(b, code)
    BY <1>2, <2>2 DEF Open
  <2> QED
    BY <1>2, <2>1, <2>2 DEF Open
<1>3. CASE Prepare(b) \/ Spawn(b) \/ Spawned(b)
  BY <1>3 DEF Prepare, Spawn, Spawned
<1>4. CASE WaitReady(b) \/ Ready(b) \/ WarmUp(b)
  BY <1>4 DEF WaitReady, Ready, WarmUp
<1>5. CASE Look(b) \/ Recheck(b) \/ Unlink(b) \/ Bind(b)
  BY <1>5 DEF Look, Recheck, Unlink, Bind
<1>6. CASE Signalled(b) \/ ProviderExits(b) \/ Drained(b)
  BY <1>6 DEF Signalled, ProviderExits, Drained
<1>7. CASE Terminate(b) \/ Reap(b) \/ Kill(b)
  BY <1>7 DEF Terminate, Reap, Kill, Finish
<1>8. CASE Helper(b) \/ ChildExit(b)
  BY <1>8 DEF Helper, HelperArm, HelperCheck, HelperExec, ChildBind, ChildExit
<1>9. CASE Crash(b)
  BY <1>9 DEF Crash, Up
<1> QED
  BY <1>1, <1>2, <1>3, <1>4, <1>5, <1>6, <1>7, <1>8, <1>9 DEF Act, Starting, Ending

LEMMA PathsKept == ASSUME IInv, NEW b \in Broker, Act(b) PROVE Paths'
<1> USE DEF IInv, TypeOK, Locks, Paths, ServesItsSocket, Go, Leave, EndNow, Lock, Main
<1>1. CASE Begin(b) \/ Choose(b) \/ Verify(b) \/ Open(b)
  BY <1>1 DEF Begin, Free, Choose, Verify, Open
<1>2. CASE Prepare(b) \/ Spawn(b) \/ Spawned(b)
  BY <1>2 DEF Prepare, Spawn, Spawned
<1>3. CASE WaitReady(b) \/ Ready(b) \/ WarmUp(b)
  BY <1>3 DEF WaitReady, Ready, WarmUp
<1>4. CASE Look(b) \/ Recheck(b)
  BY <1>4 DEF Look, Recheck
<1>5. CASE Unlink(b)
  <2>1. /\ \A c \in Broker : pc[c] = "serve" => home[c] # home[b]
        /\ home[b] \in Home
    BY <1>5 DEF Unlink
  <2>2. /\ UNCHANGED <<home, exit>> /\ pc' = [pc EXCEPT ![b] = "bind"]
        /\ main' = [main EXCEPT ![home[b]] = None] /\ pc[b] = "unlink"
    BY <1>5 DEF Unlink
  <2> QED
    BY <2>1, <2>2, Names
<1>6. CASE Bind(b)
  BY <1>6 DEF Bind
<1>7. CASE Signalled(b) \/ ProviderExits(b)
  BY <1>7 DEF Signalled, ProviderExits
<1>8. CASE Drained(b)
  <2>1. /\ \A c \in Broker : pc[c] = "serve" => home[c] # home[b] \/ c = b
        /\ home[b] \in Home
    BY <1>8 DEF Drained
  <2>2. /\ UNCHANGED <<home, exit>> /\ pc' = [pc EXCEPT ![b] = "stop"] /\ pc[b] = "drain"
        /\ main' = [main EXCEPT ![home[b]] = IF @ = b THEN None ELSE @]
    BY <1>8 DEF Drained
  <2>3. \A h \in Home : main[h] = b => h = home[b]
    OBVIOUS
  <2> QED
    BY <2>1, <2>2, <2>3, Names
<1>9. CASE Terminate(b) \/ Reap(b) \/ Kill(b)
  BY <1>9 DEF Terminate, Reap, Kill, Finish
<1>10. CASE Helper(b) \/ ChildExit(b)
  BY <1>10 DEF Helper, HelperArm, HelperCheck, HelperExec, ChildBind, ChildExit
<1>11. CASE Crash(b)
  BY <1>11 DEF Crash, Up
<1> QED
  BY <1>1, <1>2, <1>3, <1>4, <1>5, <1>6, <1>7, <1>8, <1>9, <1>10, <1>11
     DEF Act, Starting, Ending

LEMMA OwnKept == ASSUME IInv, NEW b \in Broker, Act(b) PROVE Own(b)'
<1> USE DEF IInv, TypeOK, Own, Before, Checking, Running, Unchanged, Up, Go, Leave, EndNow
<1>1. CASE Begin(b) \/ Open(b) \/ Choose(b)
  BY <1>1 DEF Begin, Free, Open, Choose
<1>2. CASE Verify(b)
  BY <1>2 DEF Verify, Keep
<1>3. CASE Prepare(b) \/ Spawn(b) \/ Spawned(b)
  BY <1>3 DEF Prepare, Spawn, Spawned
<1>4. CASE WaitReady(b)
  BY <1>4 DEF WaitReady
<1>5. CASE Ready(b) \/ WarmUp(b)
  BY <1>5 DEF Ready, WarmUp
<1>6. CASE Look(b) \/ Recheck(b) \/ Unlink(b) \/ Bind(b)
  BY <1>6 DEF Look, Recheck, Unlink, Bind
<1>7. CASE Signalled(b) \/ ProviderExits(b) \/ Drained(b)
  BY <1>7 DEF Signalled, ProviderExits, Drained
<1>8. CASE Terminate(b) \/ Reap(b) \/ Kill(b)
  BY <1>8 DEF Terminate, Reap, Kill, Finish, Exited
<1>9. CASE HelperArm(b) \/ HelperCheck(b) \/ HelperExec(b)
  BY <1>9 DEF HelperArm, HelperCheck, HelperExec, Died
<1>10. CASE ChildBind(b) \/ ChildExit(b)
  BY <1>10 DEF ChildBind, ChildExit, Died
<1>11. CASE Crash(b)
  BY <1>11 DEF Crash
<1> QED
  BY <1>1, <1>2, <1>3, <1>4, <1>5, <1>6, <1>7, <1>8, <1>9, <1>10, <1>11
     DEF Act, Starting, Ending, Helper

LEMMA DiskStays == \A b \in Broker : Act(b) => UNCHANGED <<disk, home, struck>>
  BY DEF Act, Starting, Ending, Helper, Begin, Open, Choose, Verify, Prepare, Spawn, Spawned,
         WaitReady, Ready, WarmUp, Look, Recheck, Unlink, Bind, Signalled, ProviderExits,
         Drained, Terminate, Reap, Kill, HelperArm, HelperCheck, HelperExec, ChildBind,
         ChildExit, Crash

LEMMA NextKeeps == IInv /\ [Next]_vars => IInv'
<1> SUFFICES ASSUME IInv, [Next]_vars PROVE IInv'
  OBVIOUS
<1>1. ASSUME NEW b \in Broker, Act(b) PROVE IInv'
  <2>1. UNCHANGED <<disk, home, struck>>
    BY <1>1, DiskStays
  <2>2. ASSUME NEW c \in Broker \ {b} PROVE Own(c)'
    BY <1>1, <2>1, OthersKept
       DEF IInv, Own, Before, Checking, Running, Unchanged, Up
  <2> QED
    BY <1>1, <2>1, <2>2, TypeKept, LocksKept, PathsKept, OwnKept DEF IInv
<1>2. CASE Change
  <2>1. /\ disk' \in [stamp : 0 .. MaxChange, right : BOOLEAN] /\ disk'.stamp = disk.stamp + 1
        /\ UNCHANGED <<home, pc, exit, lock, kept, os, ran, sock, main, looked, struck>>
    BY <1>2, ServiceAssumption DEF Change, IInv, TypeOK
  <2>2. TypeOK' /\ ~struck'
    BY <2>1 DEF IInv, TypeOK
  <2>3. Locks' /\ Paths'
    BY <2>1 DEF IInv, Locks, Paths, ServesItsSocket, Lock, Main
  <2>4. ASSUME NEW b \in Broker PROVE Own(b)'
    BY <2>1, <2>2 DEF IInv, TypeOK, Own, Running, Unchanged
  <2> QED
    BY <2>2, <2>3, <2>4 DEF IInv
<1>3. CASE UNCHANGED vars
  BY <1>3 DEF vars, IInv, TypeOK, Locks, Paths, ServesItsSocket, Lock, Main, Own, Before,
              Checking, Running, Unchanged
<1> QED
  BY <1>1, <1>2, <1>3 DEF Next, Act

LEMMA Reached == Spec => []IInv
  BY InitHolds, NextKeeps, PTL DEF Spec

LEMMA SafeFollows == IInv => ProcessesSafe
<1> SUFFICES ASSUME IInv PROVE ProcessesSafe
  OBVIOUS
<1>1. LeavesNothing
  <2> SUFFICES ASSUME NEW b \in Broker, pc[b] = "gone", exit[b] # "crash"
               PROVE  /\ os[b] \in {"none", "reaped"} /\ b \notin sock
                      /\ Main(b) # b /\ Lock(b) # b
    BY DEF LeavesNothing
  <2>1. Main(b) # b /\ Lock(b) # b
    BY Names DEF IInv, TypeOK, Locks, Paths, Lock, Main
  <2> QED
    BY <2>1 DEF IInv, Own
<1> QED
  BY <1>1 DEF IInv, Paths, Own, ProcessesSafe, RunsVerified, RuntimeReachable, NeverStruck

\* However many brokers start, are killed or end, and whenever the installed
\* files change: a broker uses the bytes it verified, serves on its own path
\* with its own model process's socket, and leaves nothing if it was not
\* killed (main.rs, server.rs bind_secure, semantic/runtime.rs).
THEOREM ProcessesAreSafe == Spec => []ProcessesSafe
  BY Reached, SafeFollows, PTL

-----------------------------------------------------------------------------
(* Which model a start loads                                               *)

\* What an advice that was followed says of the host.
Advised ==
    /\ host.total \in Nat \ {0} /\ host.arch \in {"x86_64", "aarch64"} /\ host.cpus >= 4
    /\ advice \in installed
    /\ M!Required(M!WRITING_MODELS[advice].mib) <= M!Less(host.total, M!HOST_RESERVE_MIB)

\* An advice is of the host, not of the moment.
StartInv ==
    /\ host \in Hosts /\ available \in Memory \cup {Unknown}
    /\ installed \subseteq DOMAIN M!WRITING_MODELS
    /\ M!TypeOK /\ M!AdviceHolds /\ M!ChoiceWins /\ M!ReserveKept
    /\ phase = "advise" => advice = M!NoModel
    /\ phase \in {"advise", "select"} => model = M!NoModel
    /\ phase = "select" /\ advice # M!NoModel => Advised

\* What the catalog holds and what its artifacts need.
LEMMA Catalog ==
    /\ DOMAIN M!WRITING_MODELS = {"qwen3-0.6b", "qwen3-1.7b", "llama-3.2-1b", "gemma-3-1b"}
    /\ M!NoModel \notin DOMAIN M!WRITING_MODELS
    /\ \A id \in DOMAIN M!WRITING_MODELS :
        /\ M!WRITING_MODELS[id].mib \in 610 .. 1224
        /\ M!Required(M!WRITING_MODELS[id].mib) \in Nat
        /\ M!Required(M!WRITING_MODELS[id].mib) >= 1531
    /\ M!WRITING_MODELS["qwen3-0.6b"].tier = 1
    /\ M!Required(M!WRITING_MODELS["qwen3-0.6b"].mib) = 1531
<1>1. /\ DOMAIN M!WRITING_MODELS = {"qwen3-0.6b", "qwen3-1.7b", "llama-3.2-1b", "gemma-3-1b"}
      /\ M!WRITING_MODELS["qwen3-0.6b"] = [tier |-> 1, mib |-> 610, screen |-> 0]
      /\ M!WRITING_MODELS["qwen3-1.7b"] = [tier |-> 2, mib |-> 1224, screen |-> 33]
      /\ M!WRITING_MODELS["llama-3.2-1b"] = [tier |-> 2, mib |-> 771, screen |-> 41]
      /\ M!WRITING_MODELS["gemma-3-1b"] = [tier |-> 2, mib |-> 769, screen |-> 46]
  BY DEF M!WRITING_MODELS
<1>2. M!Required(610) = 1531 /\ \A mib \in 610 .. 1224 : M!Required(mib) \in Nat /\ M!Required(mib) >= 1531
  BY DEF M!Required, M!RUNTIME_BASE_MIB
<1> QED
  BY <1>1, <1>2 DEF M!NoModel

\* Of any artifacts one is preferred: no two have one screen score.
LEMMA BestIn ==
    ASSUME NEW ids \in SUBSET DOMAIN M!WRITING_MODELS, ids # {}
    PROVE  M!Best(ids) \in ids
<1>1. /\ M!WRITING_MODELS["qwen3-0.6b"].screen = 0 /\ M!WRITING_MODELS["qwen3-1.7b"].screen = 33
      /\ M!WRITING_MODELS["llama-3.2-1b"].screen = 41 /\ M!WRITING_MODELS["gemma-3-1b"].screen = 46
  BY DEF M!WRITING_MODELS
<1>2. \A id \in ids : id \in {"qwen3-0.6b", "qwen3-1.7b", "llama-3.2-1b", "gemma-3-1b"}
  BY Catalog
<1>3. \E a \in ids : \A b \in ids \ {a} :
        M!WRITING_MODELS[a].screen > M!WRITING_MODELS[b].screen
  <2>1. CASE "gemma-3-1b" \in ids
    BY <1>1, <1>2, <2>1
  <2>2. CASE "gemma-3-1b" \notin ids /\ "llama-3.2-1b" \in ids
    BY <1>1, <1>2, <2>2
  <2>3. CASE "gemma-3-1b" \notin ids /\ "llama-3.2-1b" \notin ids /\ "qwen3-1.7b" \in ids
    BY <1>1, <1>2, <2>3
  <2>4. CASE ids = {"qwen3-0.6b"}
    BY <2>4
  <2> QED
    BY <1>2, <2>1, <2>2, <2>3, <2>4
<1>4. \E a \in ids : \A b \in ids \ {a} : M!Preferred(a, b)
  BY <1>3 DEF M!Preferred
<1> QED
  BY <1>4 DEF M!Best

\* The host as the selection sees it: all its memory is available.
LEMMA CapacityRight ==
    ASSUME NEW h \in Hosts, NEW set,
           LET p == [M!Profile(h, available, set) EXCEPT !.available = h.total]
           IN  M!Recommend(p).model # M!NoModel
    PROVE  h.total \in Nat \ {0}
<1> DEFINE p == [M!Profile(h, available, set) EXCEPT !.available = h.total]
<1>1. p.total = h.total
  BY DEF M!Profile
<1>2. M!Refusal(p) = "none"
  BY DEF M!Recommend
<1>3. h.total # Unknown /\ h.total # 0
  BY <1>1, <1>2 DEF M!Refusal
<1> QED
  BY <1>3, RuntimeAssumption

\* An installed model that is chosen fits, and the user's choice comes first.
LEMMA InstalledRight ==
    ASSUME NEW h \in Hosts, NEW set, NEW ids \in SUBSET DOMAIN M!WRITING_MODELS, NEW choice
    PROVE  LET picked == M!Installed(M!Profile(h, available, set), ids, choice)
               Fits(id) == M!Required(M!WRITING_MODELS[id].mib) <= M!Less(h.total, M!HOST_RESERVE_MIB)
           IN  picked # M!NoModel =>
                 /\ picked \in ids /\ Fits(picked) /\ h.total \in Nat \ {0}
                 /\ choice \in ids /\ Fits(choice) => picked = choice
<1> DEFINE now == M!Profile(h, available, set)
           p == [now EXCEPT !.available = now.total]
           advised == M!Recommend(p).model
           Fits(id) == M!Required(M!WRITING_MODELS[id].mib) <= M!Less(h.total, M!HOST_RESERVE_MIB)
           fit == {id \in ids : M!Required(M!WRITING_MODELS[id].mib) <= M!Usable(p)}
           tier == {id \in fit : M!WRITING_MODELS[id].tier <= M!WRITING_MODELS[advised].tier}
           picked == M!Installed(now, ids, choice)
<1> SUFFICES ASSUME picked # M!NoModel
             PROVE  /\ picked \in ids /\ Fits(picked) /\ h.total \in Nat \ {0}
                    /\ choice \in ids /\ Fits(choice) => picked = choice
  OBVIOUS
<1>1. now.total = h.total /\ p.total = h.total /\ p.available = h.total
      /\ p = [now EXCEPT !.available = h.total]
  BY DEF M!Profile
<1>2. picked = IF advised = M!NoModel \/ fit = {} THEN M!NoModel
              ELSE IF choice \in fit THEN choice
              ELSE M!Best(IF tier # {} THEN tier ELSE fit)
  BY DEF M!Installed
<1>3. M!Usable(p) = M!Less(h.total, M!HOST_RESERVE_MIB)
  BY <1>1 DEF M!Usable
<1>4. fit = {id \in ids : Fits(id)}
  BY <1>3
<1> HIDE DEF picked, Fits
<1>5. h.total \in Nat \ {0}
  BY <1>1, <1>2, CapacityRight
<1> HIDE DEF fit, advised, now, p
<1>6. fit \subseteq DOMAIN M!WRITING_MODELS /\ tier \subseteq fit /\ fit # {}
  BY <1>2, <1>4
<1> HIDE DEF tier
<1>7. picked \in fit /\ (choice \in fit => picked = choice)
  <2>1. \A S \in SUBSET fit : S # {} => M!Best(S) \in fit
    BY <1>6, BestIn
  <2> QED
    BY <1>2, <1>6, <2>1
<1> QED
  BY <1>4, <1>5, <1>7

\* Where an advice held once, some installed model starts.
LEMMA AdvisedStarts ==
    ASSUME Advised, host \in Hosts, installed \subseteq DOMAIN M!WRITING_MODELS
    PROVE  M!Installed(M!Now, installed, chosen) # M!NoModel
<1> DEFINE p == [M!Now EXCEPT !.available = M!Now.total]
           advised == M!Recommend(p).model
           fit == {id \in installed : M!Required(M!WRITING_MODELS[id].mib) <= M!Usable(p)}
           tier == {id \in fit : M!WRITING_MODELS[id].tier <= M!WRITING_MODELS[advised].tier}
<1>1. /\ p.total = host.total /\ p.available = host.total /\ p.arch = host.arch
      /\ p.cpus = host.cpus /\ host.total \in Nat \ {0}
  BY DEF M!Now, M!Profile, Advised
<1>2. M!Installed(M!Now, installed, chosen) =
          IF advised = M!NoModel \/ fit = {} THEN M!NoModel
          ELSE IF chosen \in fit THEN chosen
          ELSE M!Best(IF tier # {} THEN tier ELSE fit)
  BY DEF M!Installed
<1> DEFINE usable == M!Usable(p)
<1>3. usable = M!Less(host.total, M!HOST_RESERVE_MIB) /\ usable \in Nat
  BY <1>1 DEF M!Usable, M!Less, M!HOST_RESERVE_MIB
<1>4. M!Refusal(p) = "none"
  <2>1. Unknown \notin {p.total, p.available} /\ ~(p.total = 0 \/ p.available > p.total)
    BY <1>1, RuntimeAssumption
  <2>2. p.arch \in {"x86_64", "aarch64"} /\ ~(p.cpus < 4)
    BY <1>1, RuntimeAssumption DEF Advised
  <2> QED
    BY <2>1, <2>2 DEF M!Refusal
<1>5. M!TierCeiling(p) \in {1, 2, 3}
  BY DEF M!TierCeiling
<1>6. "qwen3-0.6b" \in M!Fitting(p)
  <2>1. M!Required(M!WRITING_MODELS[advice].mib) <= usable
    BY <1>3 DEF Advised
  <2>2. 1531 <= usable
    BY <1>3, <2>1, Catalog DEF Advised
  <2> QED
    BY <1>5, <2>2, Catalog DEF M!Fitting
<1>7. advised # M!NoModel
  <2>1. M!Fitting(p) # {} /\ M!Fitting(p) \subseteq DOMAIN M!WRITING_MODELS
    BY <1>6 DEF M!Fitting
  <2>2. M!Best(M!Fitting(p)) \in DOMAIN M!WRITING_MODELS
    BY <2>1, BestIn
  <2> QED
    BY <1>4, <2>1, <2>2, Catalog DEF M!Recommend
<1>8. advice \in fit
  BY <1>3 DEF Advised
<1> HIDE DEF advised, p
<1>9. fit \subseteq DOMAIN M!WRITING_MODELS /\ tier \subseteq fit
  OBVIOUS
<1> HIDE DEF fit, tier
<1>10. \A S \in SUBSET fit : S # {} => M!Best(S) \in fit
  BY <1>9, BestIn
<1> QED
  BY <1>2, <1>7, <1>8, <1>9, <1>10, Catalog

LEMMA StartInit == M!Init => StartInv
<1> SUFFICES ASSUME M!Init PROVE StartInv
  OBVIOUS
<1>1. installed \subseteq DOMAIN M!WRITING_MODELS
  BY RuntimeAssumption DEF M!Init
<1> QED
  BY <1>1 DEF M!Init, StartInv, M!TypeOK, M!AdviceHolds, M!ChoiceWins, M!ReserveKept

LEMMA AdviseKeeps ==
    ASSUME StartInv, NEW follows \in BOOLEAN, M!Advise(follows)
    PROVE  StartInv'
<1>1. /\ phase = "advise" /\ phase' = "select"
      /\ advice' = (IF follows THEN M!Recommend(M!Now).model ELSE M!NoModel)
      /\ installed' = installed \cup ({advice'} \ {M!NoModel})
      /\ UNCHANGED <<host, available, supplies, chosen, model>>
  BY DEF M!Advise
<1>2. ASSUME advice' # M!NoModel
      PROVE  advice' \in DOMAIN M!WRITING_MODELS /\ Advised'
  <2> DEFINE p == M!Now
             need == M!Required(M!WRITING_MODELS[advice'].mib)
  <2>1. M!Refusal(p) = "none" /\ M!Fitting(p) # {} /\ advice' = M!Best(M!Fitting(p))
    BY <1>1, <1>2 DEF M!Recommend
  <2>2. p.total = host.total /\ p.available = available /\ p.arch = host.arch /\ p.cpus = host.cpus
    BY DEF M!Now, M!Profile
  <2>3. /\ host.total # Unknown /\ available # Unknown /\ host.total # 0
        /\ ~(available > host.total) /\ host.arch \in {"x86_64", "aarch64"} /\ ~(host.cpus < 4)
    BY <2>1, <2>2 DEF M!Refusal
  <2>4. host.total \in Nat \ {0} /\ available \in Nat /\ host.cpus >= 4
    BY <2>3, RuntimeAssumption DEF StartInv
  <2>5. advice' \in M!Fitting(p)
    BY <2>1, BestIn DEF M!Fitting
  <2>6. advice' \in DOMAIN M!WRITING_MODELS /\ need <= M!Usable(p)
    BY <2>5 DEF M!Fitting
  <2>7. M!Usable(p) <= M!Less(host.total, M!HOST_RESERVE_MIB)
        /\ M!Usable(p) \in Nat /\ M!Less(host.total, M!HOST_RESERVE_MIB) \in Nat
    BY <2>2, <2>4 DEF M!Usable, M!Less, M!HOST_RESERVE_MIB
  <2>8. need \in Nat
    BY <2>6, Catalog
  <2> HIDE DEF p, need
  <2>9. need <= M!Less(host.total, M!HOST_RESERVE_MIB)
    BY <2>6, <2>7, <2>8
  <2> QED
    BY <1>1, <1>2, <2>3, <2>4, <2>6, <2>9 DEF Advised, need
<1>3. advice' \in DOMAIN M!WRITING_MODELS \cup {M!NoModel}
  BY <1>2
<1>4. installed' \subseteq DOMAIN M!WRITING_MODELS
  BY <1>1, <1>3 DEF StartInv
<1> QED
  BY <1>1, <1>2, <1>3, <1>4
  DEF StartInv, M!TypeOK, M!AdviceHolds, M!ChoiceWins, M!ReserveKept

LEMMA SelectKeeps ==
    ASSUME StartInv, M!Select
    PROVE  StartInv'
<1> DEFINE picked == M!Installed(M!Now, installed, chosen)
           Fits(id) == M!Required(M!WRITING_MODELS[id].mib) <= M!Less(host.total, M!HOST_RESERVE_MIB)
<1>1. /\ phase = "select"
      /\ model' = (IF M!Supported(host) THEN picked ELSE M!NoModel)
      /\ phase' = (IF ~M!Supported(host) THEN "unsupported"
                   ELSE IF model' = M!NoModel THEN "none" ELSE "wait")
      /\ UNCHANGED <<host, available, supplies, installed, chosen, advice>>
  BY DEF M!Select
<1>2. /\ picked # M!NoModel =>
            /\ picked \in installed /\ Fits(picked) /\ host.total \in Nat \ {0}
            /\ chosen \in installed /\ Fits(chosen) => picked = chosen
      /\ advice # M!NoModel => picked # M!NoModel
  BY <1>1, InstalledRight, AdvisedStarts DEF StartInv, M!Now
<1> HIDE DEF picked
<1>3. model' # M!NoModel => model' = picked /\ picked # M!NoModel
  BY <1>1
<1>4. M!TypeOK'
  BY <1>1, <1>2, <1>3 DEF StartInv, M!TypeOK
<1>5. M!AdviceHolds'
  BY <1>1, <1>2 DEF M!AdviceHolds
<1>6. M!ChoiceWins'
  BY <1>1, <1>2, <1>3 DEF M!ChoiceWins
<1>7. M!ReserveKept'
  <2>1. ASSUME model' # M!NoModel
        PROVE  M!Required(M!WRITING_MODELS[model'].mib) + M!HOST_RESERVE_MIB <= host.total
    <3> DEFINE need == M!Required(M!WRITING_MODELS[model'].mib)
    <3>1. need \in Nat /\ need >= 1531 /\ host.total \in Nat
      BY <1>2, <1>3, <2>1, Catalog DEF StartInv
    <3>2. need <= M!Less(host.total, M!HOST_RESERVE_MIB)
      BY <1>2, <1>3, <2>1
    <3> HIDE DEF need
    <3> QED
      BY <3>1, <3>2 DEF M!Less, M!HOST_RESERVE_MIB, need
  <2> QED
    BY <1>1, <2>1 DEF M!ReserveKept
<1> QED
  BY <1>1, <1>4, <1>5, <1>6, <1>7 DEF StartInv

\* The other steps choose nothing.
LEMMA StartKeeps == StartInv /\ M!Next => StartInv'
<1> SUFFICES ASSUME StartInv, M!Next PROVE StartInv'
  OBVIOUS
<1>1. CASE \E follows \in BOOLEAN : M!Advise(follows)
  BY <1>1, AdviseKeeps
<1>2. CASE M!Select
  BY <1>2, SelectKeeps
<1>3. CASE M!Look
  BY <1>3 DEF M!Look, StartInv, M!TypeOK, M!AdviceHolds, M!ChoiceWins, M!ReserveKept
<1>4. CASE M!Launch
  BY <1>4 DEF M!Launch, StartInv, M!TypeOK, M!AdviceHolds, M!ChoiceWins, M!ReserveKept
<1>5. CASE \E avail \in Memory \cup {Unknown} : M!Dip(avail)
  BY <1>5 DEF M!Dip, StartInv, Advised, M!TypeOK, M!AdviceHolds, M!ChoiceWins, M!ReserveKept
<1>6. CASE \E set \in Supplies : M!Plug(set)
  BY <1>6 DEF M!Plug, StartInv, Advised, M!TypeOK, M!AdviceHolds, M!ChoiceWins, M!ReserveKept
<1>7. CASE \E id \in installed : M!Remove(id)
  BY <1>7 DEF M!Remove, StartInv, M!TypeOK, M!AdviceHolds, M!ChoiceWins, M!ReserveKept
<1> QED
  BY <1>1, <1>2, <1>3, <1>4, <1>5, <1>6, <1>7 DEF M!Next

-----------------------------------------------------------------------------
(* The files a start verified                                              *)

\* An identity stands for bytes as long as its stamp is the inode's: every
\* write is newer.
Fresh(x) == x.ino # P!None =>
    /\ x.ino \in DOMAIN inode /\ x.stamp <= inode[x.ino].stamp
    /\ x.good /\ x.stamp = inode[x.ino].stamp => inode[x.ino].good

Scanning == {"stat", "open", "read", "recheck"}
Confirming == {"confirm dir", "confirm", "confirmed"}
Later == {"model", "hash", "digest", "after"} \cup Confirming

\* Where the verifier is, and what it has seen by then.
Verifier ==
    /\ step \in Scanning \cup {"restat"} => at \in Entry
    /\ step = "confirm" => at \in P!File
    /\ step \in {"open", "read", "recheck"} => noted[at].ino # P!None
    /\ step = "read" => open = noted[at].ino
    /\ step \in {"hash", "digest", "after"} => noted[Weights].ino # P!None
    /\ step = "digest" => open = noted[Weights].ino
    /\ step = "after" => noted[Weights].good
    /\ step \in Later => \A f \in Entry : first[f].good
    /\ step \in Confirming => first[Weights].good
    /\ step = "confirm" => \A f \in Entry : at = Weights \/ f < at => found[f]
    /\ step = "confirmed" => \A f \in P!File : found[f]

\* While nothing changes, what it has seen is what is there.
Calm == clock = 0 /\ \A i \in DOMAIN inode : inode[i].good
Sees(f) == noted[f] = P!Look(f)
Undisturbed ==
    /\ step # "failed" /\ \A f \in P!File : files[f] # P!None
    /\ step # "list" => Sees(P!None)
    /\ step \in Scanning => \A f \in Entry : f < at => Sees(f)
    /\ step \in {"open", "read", "recheck"} => P!Same(P!Look(at), noted[at])
    /\ step = "recheck" => Sees(at)
    /\ step \in {"again", "restat"} => \A f \in Entry : Sees(f)
    /\ step \in {"hash", "digest", "after"} => P!Same(P!Look(Weights), noted[Weights])
    /\ step \in {"digest", "after"} => open = files[Weights]
    /\ step \in Later => \A f \in Entry \cup {P!None} : P!Same(P!Look(f), first[f])
    /\ step \in Confirming => P!Same(P!Look(Weights), first[Weights])

BundleInv ==
    /\ P!TypeOK /\ Cardinality(DOMAIN inode) \in Nat
    /\ DOMAIN inode = 1 .. Cardinality(DOMAIN inode)
    /\ \A f \in P!File : Fresh(noted[f]) /\ Fresh(first[f])
    /\ Verifier
    /\ Calm => Undisturbed

RuntimeInv == (part = "startup" => StartInv) /\ (part = "bundle" => BundleInv)

LEMMA SameNumber == \A S : P!Cardinality(S) = Cardinality(S)
  BY DEF P!Cardinality, Cardinality

LEMMA Entries ==
    /\ IsFiniteSet(Entry) /\ Entry # {} /\ Entry \subseteq Nat /\ P!None \notin Entry
    /\ Weights \in Nat /\ Weights \notin Entry /\ Weights # P!None
    /\ P!File = Entry \cup {Weights} /\ P!None = 0 /\ MaxTouch \in Nat
  BY RuntimeAssumption DEF P!None, P!File

\* The first of some names.
LEMMA FirstOf ==
    ASSUME NEW S \in SUBSET Nat, S # {}
    PROVE  P!First(S) \in S /\ \A g \in S : P!First(S) <= g
<1>1. PICK x \in S : \A y \in S : ~(<<y, x>> \in OpToRel(<, Nat))
  BY NatLessThanWellFounded, WFMin
<1>2. ASSUME NEW y \in S PROVE x <= y
  <2> DEFINE p == <<y, x>>
  <2>1. y \in Nat /\ x \in Nat /\ p \in Nat \X Nat /\ p[1] = y /\ p[2] = x
    OBVIOUS
  <2>2. p \notin OpToRel(<, Nat)
    BY <1>1
  <2> HIDE DEF p
  <2>3. ~(y < x)
    BY <2>1, <2>2 DEF OpToRel
  <2> QED
    BY <2>1, <2>3
<1> QED
  BY <1>2 DEF P!First

\* The places of the entries, in their order, are all there are.
LEMMA Places ==
    LET place(f) == Cardinality({g \in Entry : g <= f}) IN
    /\ \A f \in Entry : place(f) \in 1 .. Cardinality(Entry)
    /\ \A i \in 1 .. Cardinality(Entry) : \E f \in Entry : place(f) = i
    /\ Cardinality(P!File) = Cardinality(Entry) + 1 /\ Cardinality(Entry) \in Nat
<1> DEFINE upTo(f) == {g \in Entry : g <= f}
           n == Cardinality(Entry)
           rank == [f \in Entry |-> Cardinality(upTo(f))]
<1>1. n \in Nat /\ Cardinality(P!File) = n + 1
  BY Entries, FS_AddElement, FS_CardinalityType
<1>2. \A f \in Entry : IsFiniteSet(upTo(f)) /\ Cardinality(upTo(f)) \in 1 .. n
  <2> TAKE f \in Entry
  <2>1. upTo(f) \in SUBSET Entry /\ f \in upTo(f)
    BY Entries
  <2> HIDE DEF upTo
  <2>2. IsFiniteSet(upTo(f)) /\ Cardinality(upTo(f)) <= n /\ Cardinality(upTo(f)) \in Nat
    BY <2>1, Entries, FS_Subset, FS_CardinalityType
  <2>3. Cardinality(upTo(f)) # 0
    BY <2>1, <2>2, FS_EmptySet
  <2> QED
    BY <1>1, <2>2, <2>3
<1>3. \A f, g \in Entry : f < g => Cardinality(upTo(f)) < Cardinality(upTo(g))
  <2> SUFFICES ASSUME NEW f \in Entry, NEW g \in Entry, f < g
               PROVE  Cardinality(upTo(f)) < Cardinality(upTo(g))
    OBVIOUS
  <2>1. \A h \in Entry : h \in Nat
    BY Entries
  <2>2. \A h \in Entry : h <= f => h <= g
    BY <2>1
  <2>3. g <= g /\ ~(g <= f)
    BY <2>1
  <2>4. upTo(f) \subseteq upTo(g) /\ g \in upTo(g) /\ g \notin upTo(f)
    BY <2>2, <2>3
  <2> HIDE DEF upTo
  <2> QED
    BY <1>2, <2>4, FS_Subset, FS_CardinalityType
<1>4. rank \in Injection(Entry, 1 .. n)
  <2>1. rank \in [Entry -> 1 .. n] /\ \A f \in Entry : rank[f] = Cardinality(upTo(f))
    BY <1>2
  <2> HIDE DEF rank, n, upTo
  <2>2. \A f, g \in Entry : rank[f] = rank[g] => f = g
    <3> SUFFICES ASSUME NEW f \in Entry, NEW g \in Entry, rank[f] = rank[g] PROVE f = g
      OBVIOUS
    <3>1. ~(f < g) /\ ~(g < f)
      BY <1>2, <1>3, <2>1
    <3> QED
      BY <3>1, Entries
  <2> QED
    BY <2>1, <2>2 DEF Injection, IsInjective
<1>5. IsFiniteSet(1 .. n) /\ Cardinality(1 .. n) = n
  BY <1>1, FS_Interval
<1>6. \A f \in Entry : rank[f] = Cardinality(upTo(f))
  OBVIOUS
<1> HIDE DEF rank, upTo
<1>7. rank \in Surjection(Entry, 1 .. n)
  BY <1>4, <1>5, Entries, FS_Injection
<1>8. \A i \in 1 .. n : \E f \in Entry : rank[f] = i
  BY <1>7 DEF Surjection
<1> QED
  BY <1>1, <1>2, <1>6, <1>8 DEF upTo

LEMMA BundleInit == P!Init => BundleInv
<1> SUFFICES ASSUME P!Init PROVE BundleInv
  OBVIOUS
<1> DEFINE place(f) == Cardinality({g \in Entry : g <= f})
           n == Cardinality(P!File)
<1>1. /\ files = [f \in P!File |-> IF f = Weights THEN n ELSE place(f)]
      /\ dir = 0 /\ clock = 0 /\ step = "list" /\ at = P!None /\ open = P!None
      /\ noted = [f \in P!File \cup {P!None} |-> P!Nothing] /\ first = noted
      /\ found = [f \in P!File |-> FALSE]
  BY SameNumber DEF P!Init
<1>2. PICK good \in [P!File -> BOOLEAN] :
        inode = [i \in 1 .. n |-> [stamp |-> 0, good |->
                    good[CHOOSE f \in P!File : IF f = Weights THEN i = n ELSE place(f) = i]]]
  BY SameNumber DEF P!Init
<1>3. /\ \A f \in Entry : place(f) \in 1 .. Cardinality(Entry)
      /\ \A i \in 1 .. Cardinality(Entry) : \E f \in Entry : place(f) = i
      /\ n = Cardinality(Entry) + 1 /\ Cardinality(Entry) \in Nat
  BY Places
<1> HIDE DEF place, n
<1>4. \A i \in 1 .. n : \E f \in P!File : IF f = Weights THEN i = n ELSE place(f) = i
  <2> TAKE i \in 1 .. n
  <2>1. CASE i = n
    BY <2>1, Entries
  <2>2. CASE i \in 1 .. Cardinality(Entry)
    BY <1>3, <2>2, Entries
  <2> QED
    BY <1>3, <2>1, <2>2
<1>5. \A i \in 1 .. n : inode[i] \in [stamp : 0 .. clock, good : BOOLEAN]
  <2> TAKE i \in 1 .. n
  <2> DEFINE f == CHOOSE f \in P!File : IF f = Weights THEN i = n ELSE place(f) = i
  <2>1. f \in P!File
    BY <1>4
  <2> HIDE DEF f
  <2>2. good[f] \in BOOLEAN
    BY <2>1
  <2>3. inode[i] = [stamp |-> 0, good |-> good[f]]
    BY <1>2 DEF f
  <2> QED
    BY <1>1, <2>2, <2>3
<1>6. n \in Nat /\ DOMAIN inode = 1 .. n /\ P!Cardinality(DOMAIN inode) = n
  <2>1. n \in Nat /\ n >= 1 /\ DOMAIN inode = 1 .. n
    BY <1>2, <1>3
  <2>2. Cardinality(1 .. n) = n
    BY <2>1, FS_Interval
  <2> QED
    BY <2>1, <2>2, SameNumber
<1>7. \A f \in P!File : files[f] \in 1 .. n
  BY <1>1, <1>3, Entries
<1>8. P!Nothing \in P!Seen /\ P!Nothing.ino = P!None
  BY DEF P!Nothing, P!Seen, P!None
<1>9. P!TypeOK
  <2>1. files \in [P!File -> 0 .. P!Cardinality(DOMAIN inode)]
    BY <1>1, <1>6, <1>7
  <2>2. /\ noted \in [P!File \cup {P!None} -> P!Seen] /\ first \in [P!File \cup {P!None} -> P!Seen]
        /\ found \in [P!File -> BOOLEAN]
    BY <1>1, <1>8
  <2> QED
    BY <1>1, <1>5, <1>6, <2>1, <2>2, Entries DEF P!TypeOK, P!Steps
<1>11. Cardinality(DOMAIN inode) = n
  BY <1>6, SameNumber
<1>10. Verifier /\ (Calm => Undisturbed)
  BY <1>1, <1>7, Entries DEF Verifier, Undisturbed, Scanning, Later, Confirming
<1> QED
  BY <1>1, <1>6, <1>8, <1>9, <1>10, <1>11 DEF BundleInv, Fresh

\* What a path shows.
LEMMA Shows ==
    ASSUME BundleInv, NEW f \in P!File \cup {P!None}
    PROVE  /\ P!Look(f) \in P!Seen
           /\ f = P!None => P!Look(f) = [ino |-> 0, stamp |-> dir, good |-> TRUE]
           /\ f # P!None => /\ P!Look(f).ino = files[f] /\ Fresh(P!Look(f))
                            /\ files[f] = P!None \/ files[f] \in DOMAIN inode
                            /\ P!Look(f) = P!Nothing <=> files[f] = P!None
                            /\ files[f] # P!None => P!Look(f) = [ino |-> files[f],
                                  stamp |-> inode[files[f]].stamp, good |-> inode[files[f]].good]
<1>1. /\ files \in [P!File -> 0 .. Cardinality(DOMAIN inode)]
      /\ DOMAIN inode = 1 .. Cardinality(DOMAIN inode) /\ Cardinality(DOMAIN inode) \in Nat
      /\ \A i \in DOMAIN inode : inode[i] \in [stamp : 0 .. clock, good : BOOLEAN]
      /\ dir \in 0 .. clock /\ clock \in 0 .. MaxTouch
  BY SameNumber DEF BundleInv, P!TypeOK
<1>2. clock \in Nat /\ dir \in Nat /\ P!None = 0 /\ MaxTouch \in Nat
  BY <1>1, Entries
<1>3. CASE f = P!None
  BY <1>2, <1>3 DEF P!Look, P!Seen
<1>4. CASE f # P!None
  <2>1. f \in P!File /\ (files[f] = 0 \/ files[f] \in DOMAIN inode)
    BY <1>1, <1>4
  <2>2. CASE files[f] = 0
    BY <1>2, <1>4, <2>2 DEF P!Look, P!Seen, P!Nothing, Fresh
  <2>3. CASE files[f] \in DOMAIN inode
    <3>1. files[f] \in Nat /\ files[f] # P!None
      BY <1>1, <1>2, <2>3
    <3>2. P!Look(f) = [ino |-> files[f], stamp |-> inode[files[f]].stamp,
                       good |-> inode[files[f]].good]
      BY <1>4, <3>1 DEF P!Look
    <3>3. inode[files[f]].stamp \in 0 .. clock /\ inode[files[f]].good \in BOOLEAN
      BY <1>1, <2>3
    <3>4. inode[files[f]].stamp \in Nat
      BY <1>2, <3>3
    <3> QED
      BY <1>2, <1>4, <2>3, <3>1, <3>2, <3>3, <3>4 DEF P!Seen, P!Nothing, Fresh
  <2> QED
    BY <2>1, <2>2, <2>3
<1> QED
  BY <1>3, <1>4

\* A step of the verifier leaves the files.
LEMMA Passes ==
    ASSUME BundleInv, UNCHANGED P!files,
           step' \in P!Steps, at' \in P!File \cup {P!None}, open' \in {P!None} \cup DOMAIN inode,
           noted' \in [P!File \cup {P!None} -> P!Seen],
           first' \in [P!File \cup {P!None} -> P!Seen], found' \in [P!File -> BOOLEAN],
           \A f \in P!File : Fresh(noted'[f]) /\ Fresh(first'[f]),
           Verifier', Calm => Undisturbed'
    PROVE  BundleInv'
<1>1. UNCHANGED <<files, inode, dir, clock>>
  BY DEF P!files
<1>2. P!TypeOK'
  BY <1>1 DEF BundleInv, P!TypeOK
<1>3. \A f \in P!File : Fresh(noted[f])' /\ Fresh(first[f])'
  BY <1>1 DEF Fresh
<1>4. Calm' => Calm
  BY <1>1 DEF Calm
<1> QED
  BY <1>1, <1>2, <1>3, <1>4 DEF BundleInv

LEMMA Typed ==
    ASSUME BundleInv
    PROVE  /\ noted \in [P!File \cup {P!None} -> P!Seen] /\ first \in [P!File \cup {P!None} -> P!Seen]
           /\ found \in [P!File -> BOOLEAN] /\ step \in P!Steps /\ at \in P!File \cup {P!None}
           /\ open \in {P!None} \cup DOMAIN inode
           /\ \A f \in P!File : Fresh(noted[f]) /\ Fresh(first[f])
           /\ Verifier /\ (Calm => Undisturbed)
  BY DEF BundleInv, P!TypeOK

\* A refusal, of what is not as it was.
LEMMA Refuses ==
    ASSUME BundleInv, P!Fail, ~Calm
    PROVE  BundleInv'
<1>1. step' = "failed" /\ UNCHANGED <<at, open, noted, first, found>> /\ UNCHANGED P!files
  BY DEF P!Fail
<1>2. Verifier'
  BY <1>1 DEF Verifier, Scanning, Later, Confirming
<1>3. "failed" \in P!Steps
  BY DEF P!Steps
<1> QED
  BY <1>1, <1>2, <1>3, Passes, Typed

\* While nothing changes every entry is listed.
LEMMA Listing ==
    ASSUME BundleInv
    PROVE  /\ P!Listed \subseteq Entry /\ (Calm => P!Listed = Entry)
           /\ \A f : P!After(f) = {g \in P!Listed : g > f}
  BY Typed, Entries DEF P!Listed, P!After, Undisturbed

LEMMA ListKeeps ==
    ASSUME BundleInv, P!List
    PROVE  BundleInv'
<1>1. /\ step = "list" /\ noted' = [noted EXCEPT ![P!None] = P!Look(P!None)]
      /\ UNCHANGED <<open, first, found>> /\ UNCHANGED P!files
      /\ IF P!Listed = {} THEN step' = "again" /\ at' = P!None
         ELSE step' = "stat" /\ at' = P!First(P!Listed)
  BY DEF P!List, P!Hold, P!Go
<1>2. P!Listed # {} => at' \in P!Listed /\ \A g \in P!Listed : at' <= g
  BY <1>1, FirstOf, Listing, Entries
<1>3. noted' \in [P!File \cup {P!None} -> P!Seen] /\ noted'[P!None] = P!Look(P!None)
      /\ \A f \in P!File : noted'[f] = noted[f]
  BY <1>1, Shows, Typed, Entries
<1>4. step' \in {"again", "stat"} /\ (step' = "stat" => at' \in Entry) /\ at' \in P!File \cup {P!None}
  BY <1>1, <1>2, Listing, Entries
<1>5. Verifier'
  BY <1>4 DEF Verifier, Scanning, Later, Confirming
<1>6. ASSUME Calm PROVE Undisturbed'
  <2>1. P!Listed = Entry /\ Undisturbed
    BY <1>6, Listing, Typed
  <2>5. step' = "stat" /\ at' \in Entry /\ \A f \in Entry : at' <= f
    BY <1>1, <1>2, <2>1, Entries
  <2>6. \A f \in Entry : f \in Nat /\ at' \in Nat
    BY <2>5, Entries
  <2>2. step' = "stat" /\ at' \in Entry /\ \A f \in Entry : ~(f < at')
    BY <2>5, <2>6
  <2>3. Sees(P!None)'
    BY <1>1, <1>3 DEF Sees, P!Look, P!files
  <2>4. \A f \in P!File : files'[f] # P!None
    BY <1>1, <2>1 DEF P!files, Undisturbed
  <2> QED
    BY <2>2, <2>3, <2>4 DEF Undisturbed, Scanning, Later, Confirming
<1> QED
  BY <1>1, <1>3, <1>4, <1>5, <1>6, Typed, Passes DEF P!Steps

LEMMA StatKeeps ==
    ASSUME BundleInv, P!Stat
    PROVE  BundleInv'
<1>1. step = "stat" /\ at \in Entry
  BY Typed DEF P!Stat, Verifier, Scanning
<1>2. CASE P!Look(at) = P!Nothing /\ P!Fail
  <2>1. ~Calm
    BY <1>1, <1>2, Shows, Typed, Entries DEF Undisturbed
  <2> QED
    BY <1>2, <2>1, Refuses
<1>3. CASE P!Look(at) # P!Nothing
           /\ noted' = [noted EXCEPT ![at] = [P!Look(at) EXCEPT !.good = FALSE]]
           /\ step' = "open" /\ UNCHANGED <<at, open, first, found>> /\ UNCHANGED P!files
  <2> DEFINE x == [P!Look(at) EXCEPT !.good = FALSE]
  <2>1. /\ P!Look(at) \in P!Seen /\ files[at] # P!None /\ P!Look(at).ino = files[at]
        /\ Fresh(P!Look(at)) /\ at # P!None /\ at \in P!File
    BY <1>1, <1>3, Shows, Entries
  <2>2. /\ x \in P!Seen /\ x.ino = P!Look(at).ino /\ x.stamp = P!Look(at).stamp /\ x.good = FALSE
    BY <2>1 DEF P!Seen
  <2>3. Fresh(x)
    BY <2>1, <2>2 DEF Fresh
  <2> HIDE DEF x
  <2>4. /\ noted' \in [P!File \cup {P!None} -> P!Seen] /\ noted'[at] = x
        /\ \A f \in P!File \cup {P!None} : f # at => noted'[f] = noted[f]
    BY <1>3, <2>1, <2>2, Typed DEF x
  <2>5. \A f \in P!File : Fresh(noted'[f]) /\ Fresh(first'[f])
    BY <1>3, <2>3, <2>4, Typed
  <2>6. Verifier'
    BY <1>1, <1>3, <2>1, <2>2, <2>4 DEF Verifier, Scanning, Later, Confirming
  <2>7. ASSUME Calm PROVE Undisturbed'
    <3>1. Undisturbed
      BY <2>7, Typed
    <3>2. P!Same(P!Look(at), noted[at])'
      BY <1>3, <2>2, <2>4 DEF P!Same, P!Look, P!files
    <3>3. Sees(P!None)'
      BY <1>1, <1>3, <2>1, <2>4, <3>1, Entries DEF Undisturbed, Sees, P!Look, P!files
    <3>4. \A f \in Entry : f < at => Sees(f)'
      BY <1>1, <1>3, <2>4, <3>1, Entries DEF Undisturbed, Scanning, Sees, P!Look, P!files
    <3>5. \A f \in P!File : files'[f] # P!None
      BY <1>3, <3>1 DEF P!files, Undisturbed
    <3> QED
      BY <1>3, <3>2, <3>3, <3>4, <3>5 DEF Undisturbed, Scanning, Later, Confirming
  <2> QED
    BY <1>3, <2>4, <2>5, <2>6, <2>7, Typed, Passes DEF P!Steps
<1> QED
  BY <1>2, <1>3 DEF P!Stat, P!Go, P!Hold

\* While the files stay they look as they did.
LEMMA Still ==
    ASSUME UNCHANGED P!files
    PROVE  /\ \A f : P!Look(f)' = P!Look(f) /\ files'[f] = files[f]
           /\ P!Listed' = P!Listed /\ inode' = inode
  BY DEF P!files, P!Look, P!Listed

LEMMA OpenKeeps ==
    ASSUME BundleInv, P!Open
    PROVE  BundleInv'
<1>1. step = "open" /\ at \in Entry /\ noted[at].ino # P!None
  BY Typed DEF P!Open, Verifier, Scanning
<1>2. CASE ~P!Same(P!Look(at), noted[at]) /\ P!Fail
  BY <1>1, <1>2, Refuses, Typed DEF Undisturbed
<1>3. CASE P!Same(P!Look(at), noted[at]) /\ open' = files[at] /\ step' = "read"
           /\ UNCHANGED <<at, noted, first, found>> /\ UNCHANGED P!files
  <2>1. P!Look(at).ino = files[at] /\ (files[at] # P!None => files[at] \in DOMAIN inode)
    BY <1>1, Shows, Entries
  <2>2. open' = noted[at].ino /\ open' \in {P!None} \cup DOMAIN inode
    BY <1>3, <2>1 DEF P!Same
  <2>3. Verifier'
    BY <1>1, <1>3, <2>2 DEF Verifier, Scanning, Later, Confirming
  <2>4. ASSUME Calm PROVE Undisturbed'
    <3>1. Undisturbed
      BY <2>4, Typed
    <3>2. \A f : Sees(f)' = Sees(f)
      BY <1>3, Still DEF Sees
    <3>3. P!Same(P!Look(at), noted[at])'
      BY <1>3, Still DEF P!Same
    <3> QED
      BY <1>1, <1>3, <3>1, <3>2, <3>3, Still DEF Undisturbed, Scanning, Later, Confirming
  <2> QED
    BY <1>3, <2>2, <2>3, <2>4, Typed, Passes DEF P!Steps
<1> QED
  BY <1>2, <1>3 DEF P!Open, P!Go, P!Hold

LEMMA ReadKeeps ==
    ASSUME BundleInv, P!Read
    PROVE  BundleInv'
<1>1. /\ step = "read" /\ at \in Entry /\ noted[at].ino # P!None /\ open = noted[at].ino
      /\ at \in P!File /\ at # P!None
  BY Typed, Entries DEF P!Read, Verifier, Scanning
<1>2. /\ noted' = [noted EXCEPT ![at].good = inode[open].good] /\ step' = "recheck"
      /\ UNCHANGED <<at, open, first, found>> /\ UNCHANGED P!files
  BY DEF P!Read, P!Go, P!Hold
<1>3. noted[at] \in P!Seen /\ open \in DOMAIN inode /\ inode[open].good \in BOOLEAN
  BY <1>1, Typed DEF BundleInv, P!TypeOK
<1> DEFINE x == [noted[at] EXCEPT !.good = inode[open].good]
<1>4. x = [ino |-> noted[at].ino, stamp |-> noted[at].stamp, good |-> inode[open].good]
  BY <1>3 DEF P!Seen
<1>5. x \in P!Seen
  BY <1>3, <1>4 DEF P!Seen
<1>6. Fresh(x)
  BY <1>1, <1>3, <1>4, Typed DEF Fresh
<1>7. /\ noted' \in [P!File \cup {P!None} -> P!Seen] /\ noted'[at] = x
      /\ \A f \in P!File \cup {P!None} : f # at => noted'[f] = noted[f]
  <2> HIDE DEF x
  <2>1. noted' = [noted EXCEPT ![at] = x]
    BY <1>2 DEF x
  <2> QED
    BY <1>1, <1>5, <2>1, Typed
<1> HIDE DEF x
<1>8. \A f \in P!File : Fresh(noted'[f]) /\ Fresh(first'[f])
  BY <1>2, <1>6, <1>7, Typed
<1>9. Verifier'
  BY <1>1, <1>2, <1>4, <1>7 DEF Verifier, Scanning, Later, Confirming
<1>10. ASSUME Calm PROVE Undisturbed'
  <2>1. Undisturbed /\ files[at] # P!None
    BY <1>1, <1>10, Typed DEF Undisturbed
  <2>2. P!Look(at) = [ino |-> files[at], stamp |-> inode[files[at]].stamp,
                      good |-> inode[files[at]].good]
    BY <1>1, <2>1, Shows
  <2>3. P!Look(at).ino = noted[at].ino /\ P!Look(at).stamp = noted[at].stamp
    BY <1>1, <2>1 DEF Undisturbed, P!Same
  <2>4. P!Look(at) = x
    BY <1>1, <1>4, <2>2, <2>3
  <2>5. Sees(at)' /\ P!Same(P!Look(at), noted[at])'
    BY <1>2, <1>7, <2>4, Still DEF Sees, P!Same
  <2>6. \A f \in Entry \cup {P!None} : f # at => Sees(f)' = Sees(f)
    BY <1>2, <1>7, Still, Entries DEF Sees
  <2>7. Sees(P!None)' /\ \A f \in Entry : f < at => Sees(f)'
    <3>1. \A f \in Entry : f < at => f # at
      BY <1>1, Entries
    <3> QED
      BY <1>1, <2>1, <2>6, <3>1 DEF Undisturbed, Scanning
  <2> QED
    BY <1>2, <2>1, <2>5, <2>7, Still DEF Undisturbed, Scanning, Later, Confirming
<1> QED
  BY <1>2, <1>7, <1>8, <1>9, <1>10, Typed, Passes DEF P!Steps

\* The entry that follows leaves none between.
LEMMA NextEntry ==
    ASSUME BundleInv, at \in Entry, P!After(at) # {}
    PROVE  /\ P!First(P!After(at)) \in Entry
           /\ Calm => \A f \in Entry : f < P!First(P!After(at)) => f < at \/ f = at
<1> DEFINE g == P!First(P!After(at))
<1>1. P!After(at) \subseteq Entry /\ P!After(at) = {h \in P!Listed : h > at}
  BY Listing
<1>2. g \in P!After(at) /\ \A h \in P!After(at) : g <= h
  BY <1>1, FirstOf, Entries
<1> HIDE DEF g
<1>3. ASSUME Calm, NEW f \in Entry, f < g PROVE f < at \/ f = at
  <2>1. f \in P!Listed
    BY <1>3, Listing
  <2>2. f \in Nat /\ g \in Nat /\ at \in Nat
    BY <1>1, <1>2, Entries
  <2>3. f > at => g <= f
    BY <1>1, <1>2, <2>1
  <2> QED
    BY <1>3, <2>2, <2>3
<1> QED
  BY <1>1, <1>2, <1>3 DEF g

\* While nothing changes, past the last entry is past every entry.
LEMMA LastEntry ==
    ASSUME BundleInv, Calm, at \in Entry, P!After(at) = {}
    PROVE  \A f \in Entry : f < at \/ f = at
<1> SUFFICES ASSUME NEW f \in Entry PROVE f < at \/ f = at
  OBVIOUS
<1>1. ~(f > at)
  BY Listing
<1> QED
  BY <1>1, Entries

LEMMA RecheckKeeps ==
    ASSUME BundleInv, P!Recheck
    PROVE  BundleInv'
<1>1. step = "recheck" /\ at \in Entry
  BY Typed DEF P!Recheck, Verifier, Scanning
<1>2. CASE ~P!Same(P!Look(at), noted[at]) /\ P!Fail
  BY <1>1, <1>2, Refuses, Typed DEF Undisturbed
<1>3. CASE P!Onward("stat", "again") /\ UNCHANGED <<open, noted, first, found>> /\ UNCHANGED P!files
  <2>1. \/ P!After(at) # {} /\ step' = "stat" /\ at' = P!First(P!After(at))
        \/ P!After(at) = {} /\ step' = "again" /\ at' = P!None
    BY <1>3 DEF P!Onward, P!Go
  <2>2. (step' = "stat" => at' \in Entry) /\ at' \in P!File \cup {P!None} /\ step' \in {"stat", "again"}
    BY <1>1, <2>1, NextEntry, Entries
  <2>3. Verifier'
    BY <2>2 DEF Verifier, Scanning, Later, Confirming
  <2>4. ASSUME Calm PROVE Undisturbed'
    <3>1. Undisturbed /\ Sees(at) /\ Sees(P!None) /\ \A f \in Entry : f < at => Sees(f)
      BY <1>1, <2>4, Typed DEF Undisturbed, Scanning
    <3>2. \A f : Sees(f)' = Sees(f)
      BY <1>3, Still DEF Sees
    <3>3. step' = "stat" => \A f \in Entry : f < at' => Sees(f)
      BY <1>1, <2>1, <2>4, <3>1, NextEntry
    <3>4. step' = "again" => \A f \in Entry : Sees(f)
      BY <1>1, <2>1, <2>4, <3>1, LastEntry
    <3> QED
      BY <2>2, <3>1, <3>2, <3>3, <3>4, Still, <1>3 DEF Undisturbed, Scanning, Later, Confirming
  <2> QED
    BY <1>3, <2>2, <2>3, <2>4, Typed, Passes DEF P!Steps
<1> QED
  BY <1>2, <1>3 DEF P!Recheck, P!Hold

LEMMA AgainKeeps ==
    ASSUME BundleInv, P!Again
    PROVE  BundleInv'
<1>1. step = "again"
  BY DEF P!Again
<1>2. CASE (~P!Same(P!Look(P!None), noted[P!None]) \/ P!Listed = {}) /\ P!Fail
  <2>1. ~Calm
    BY <1>1, <1>2, Typed, Listing, Entries DEF Undisturbed, Sees, P!Same
  <2> QED
    BY <1>2, <2>1, Refuses
<1>3. CASE P!Listed # {} /\ step' = "restat" /\ at' = P!First(P!Listed)
           /\ UNCHANGED <<open, noted, first, found>> /\ UNCHANGED P!files
  <2>1. at' \in Entry /\ at' \in P!File \cup {P!None}
    BY <1>3, FirstOf, Listing, Entries
  <2>2. Verifier'
    BY <1>3, <2>1 DEF Verifier, Scanning, Later, Confirming
  <2>3. ASSUME Calm PROVE Undisturbed'
    <3>1. Undisturbed
      BY <2>3, Typed
    <3>2. \A f : Sees(f)' = Sees(f)
      BY <1>3, Still DEF Sees
    <3> QED
      BY <1>1, <1>3, <3>1, <3>2, Still DEF Undisturbed, Scanning, Later, Confirming
  <2> QED
    BY <1>3, <2>1, <2>2, <2>3, Typed, Passes DEF P!Steps
<1> QED
  BY <1>2, <1>3 DEF P!Again, P!Go, P!Hold

LEMMA RestatKeeps ==
    ASSUME BundleInv, P!Restat
    PROVE  BundleInv'
<1>1. step = "restat" /\ at \in Entry
  BY Typed DEF P!Restat, Verifier, Scanning
<1>2. CASE (~P!Agrees(at) \/ (P!After(at) = {}
              /\ ~(P!Same(P!Look(P!None), noted[P!None]) /\ P!Expected))) /\ P!Fail
  <2>1. ASSUME Calm PROVE FALSE
    <3>1. /\ \A f \in Entry : Sees(f) /\ files[f] # P!None
          /\ Sees(P!None) /\ P!Listed = Entry
      BY <1>1, <2>1, Typed, Listing, Entries DEF Undisturbed
    <3>2. \A f \in Entry : P!Look(f).good
      <4> TAKE f \in Entry
      <4>1. /\ P!Look(f) = [ino |-> files[f], stamp |-> inode[files[f]].stamp,
                            good |-> inode[files[f]].good]
            /\ files[f] \in DOMAIN inode
        BY <3>1, Shows, Entries
      <4>2. inode[files[f]].good
        BY <2>1, <4>1 DEF Calm
      <4> QED
        BY <4>1, <4>2
    <3>3. P!Agrees(at) /\ P!Same(P!Look(P!None), noted[P!None])
      BY <1>1, <3>1 DEF P!Agrees, P!Same, Sees
    <3>4. P!Expected
      BY <3>1, <3>2 DEF P!Expected, Sees
    <3> QED
      BY <1>2, <3>3, <3>4
  <2> QED
    BY <1>2, <2>1, Refuses
<1>3. CASE P!After(at) # {} /\ at' = P!First(P!After(at))
           /\ UNCHANGED <<step, open, noted, first, found>> /\ UNCHANGED P!files
  <2>1. at' \in Entry
    BY <1>1, <1>3, NextEntry
  <2>2. Verifier'
    BY <1>1, <1>3, <2>1 DEF Verifier, Scanning, Later, Confirming
  <2>3. ASSUME Calm PROVE Undisturbed'
    <3>1. Undisturbed /\ \A f : Sees(f)' = Sees(f)
      BY <1>3, <2>3, Still, Typed DEF Sees
    <3> QED
      BY <1>1, <1>3, <3>1, Still DEF Undisturbed, Scanning, Later, Confirming
  <2> QED
    BY <1>3, <2>1, <2>2, <2>3, Typed, Passes, Entries
<1>4. CASE /\ P!Agrees(at) /\ P!After(at) = {} /\ P!Same(P!Look(P!None), noted[P!None]) /\ P!Expected
           /\ first' = [f \in P!File \cup {P!None} |-> IF f = Weights THEN P!Nothing ELSE noted[f]]
           /\ step' = "model" /\ at' = Weights /\ UNCHANGED <<open, noted, found>> /\ UNCHANGED P!files
  <2>1. P!Nothing \in P!Seen /\ Fresh(P!Nothing)
    BY DEF P!Nothing, P!Seen, P!None, Fresh
  <2>2. /\ first' \in [P!File \cup {P!None} -> P!Seen] /\ at' \in P!File
        /\ \A f \in P!File : Fresh(noted'[f]) /\ Fresh(first'[f])
    BY <1>4, <2>1, Typed, Entries
  <2>3. \A f \in Entry \cup {P!None} : first'[f] = noted[f]
    BY <1>4, Entries
  <2>4. Verifier'
    BY <1>4, <2>3 DEF Verifier, Scanning, Later, Confirming, P!Expected
  <2>5. ASSUME Calm PROVE Undisturbed'
    <3>1. Undisturbed /\ (\A f : Sees(f)' = Sees(f)) /\ (\A f \in Entry \cup {P!None} : Sees(f))
      BY <1>1, <1>4, <2>5, Still, Typed DEF Sees, Undisturbed
    <3>2. \A f \in Entry \cup {P!None} : P!Same(P!Look(f), first[f])'
      BY <1>4, <2>3, <3>1, Still DEF Sees, P!Same
    <3> QED
      BY <1>1, <1>4, <3>1, <3>2, Still DEF Undisturbed, Scanning, Later, Confirming
  <2> QED
    BY <1>4, <2>2, <2>4, <2>5, Typed, Passes DEF P!Steps
<1> QED
  BY <1>2, <1>3, <1>4 DEF P!Restat, P!Go, P!Hold

LEMMA VerifyStatKeeps ==
    ASSUME BundleInv, P!VerifyStat
    PROVE  BundleInv'
<1>1. step = "model" /\ Weights \in P!File /\ Weights # P!None
  BY Entries DEF P!VerifyStat
<1>2. CASE P!Look(Weights) = P!Nothing /\ P!Fail
  <2>1. ~Calm
    BY <1>1, <1>2, Shows, Typed DEF Undisturbed
  <2> QED
    BY <1>2, <2>1, Refuses
<1>3. CASE P!Look(Weights) # P!Nothing
           /\ noted' = [noted EXCEPT ![Weights] = [P!Look(Weights) EXCEPT !.good = FALSE]]
           /\ step' = "hash" /\ UNCHANGED <<at, open, first, found>> /\ UNCHANGED P!files
  <2> DEFINE x == [P!Look(Weights) EXCEPT !.good = FALSE]
  <2>1. /\ P!Look(Weights) \in P!Seen /\ files[Weights] # P!None
        /\ P!Look(Weights).ino = files[Weights] /\ Fresh(P!Look(Weights))
    BY <1>1, <1>3, Shows
  <2>2. /\ x \in P!Seen /\ x.ino = P!Look(Weights).ino /\ x.stamp = P!Look(Weights).stamp
        /\ x.good = FALSE
    BY <2>1 DEF P!Seen
  <2>3. Fresh(x)
    BY <2>1, <2>2 DEF Fresh
  <2> HIDE DEF x
  <2>4. /\ noted' \in [P!File \cup {P!None} -> P!Seen] /\ noted'[Weights] = x
        /\ \A f \in P!File \cup {P!None} : f # Weights => noted'[f] = noted[f]
    BY <1>1, <1>3, <2>2, Typed DEF x
  <2>5. \A f \in P!File : Fresh(noted'[f]) /\ Fresh(first'[f])
    BY <1>3, <2>3, <2>4, Typed
  <2>6. Verifier'
    BY <1>1, <1>3, <2>1, <2>2, <2>4, Typed DEF Verifier, Scanning, Later, Confirming
  <2>7. ASSUME Calm PROVE Undisturbed'
    <3>1. Undisturbed
      BY <2>7, Typed
    <3>2. P!Same(P!Look(Weights), noted[Weights])'
      BY <1>3, <2>2, <2>4, Still DEF P!Same
    <3>3. Sees(P!None)'
      BY <1>1, <1>3, <2>4, <3>1, Still, Entries DEF Undisturbed, Sees
    <3>4. \A f \in Entry \cup {P!None} : P!Same(P!Look(f), first[f])'
      BY <1>1, <1>3, <3>1, Still DEF Undisturbed, Later, P!Same
    <3> QED
      BY <1>3, <3>1, <3>2, <3>3, <3>4, Still DEF Undisturbed, Scanning, Later, Confirming
  <2> QED
    BY <1>3, <2>4, <2>5, <2>6, <2>7, Typed, Passes DEF P!Steps
<1> QED
  BY <1>2, <1>3 DEF P!VerifyStat, P!Go, P!Hold

LEMMA VerifyOpenKeeps ==
    ASSUME BundleInv, P!VerifyOpen
    PROVE  BundleInv'
<1>1. step = "hash" /\ Weights \in P!File /\ Weights # P!None /\ noted[Weights].ino # P!None
  BY Typed, Entries DEF P!VerifyOpen, Verifier
<1>2. P!Look(Weights).ino = files[Weights] /\ (files[Weights] # P!None => files[Weights] \in DOMAIN inode)
  BY <1>1, Shows
<1>3. CASE files[Weights] # noted[Weights].ino /\ P!Fail
  <2>1. ~Calm
    BY <1>1, <1>2, <1>3, Typed DEF Undisturbed, P!Same
  <2> QED
    BY <1>3, <2>1, Refuses
<1>4. CASE files[Weights] = noted[Weights].ino /\ open' = files[Weights] /\ step' = "digest"
           /\ UNCHANGED <<at, noted, first, found>> /\ UNCHANGED P!files
  <2>1. Verifier'
    BY <1>1, <1>4, Typed DEF Verifier, Scanning, Later, Confirming
  <2>2. ASSUME Calm PROVE Undisturbed'
    <3>1. Undisturbed /\ \A f : Sees(f)' = Sees(f)
      BY <1>4, <2>2, Typed, Still DEF Sees
    <3>2. P!Same(P!Look(Weights), noted[Weights])'
          /\ \A f \in Entry \cup {P!None} : P!Same(P!Look(f), first[f])'
      BY <1>1, <1>4, <3>1, Still DEF Undisturbed, Later, P!Same
    <3> QED
      BY <1>1, <1>4, <3>1, <3>2, Still DEF Undisturbed, Scanning, Later, Confirming
  <2> QED
    BY <1>1, <1>2, <1>4, <2>1, <2>2, Typed, Passes DEF P!Steps
<1> QED
  BY <1>3, <1>4 DEF P!VerifyOpen, P!Go, P!Hold

LEMMA VerifyHashKeeps ==
    ASSUME BundleInv, P!VerifyHash
    PROVE  BundleInv'
<1>1. /\ step = "digest" /\ Weights \in P!File /\ Weights # P!None
      /\ noted[Weights].ino # P!None /\ open = noted[Weights].ino /\ noted[Weights] \in P!Seen
  BY Typed, Entries DEF P!VerifyHash, Verifier
<1>2. CASE ~inode[open].good /\ P!Fail
  <2>1. open \in DOMAIN inode
    BY <1>1, Typed
  <2>2. ~Calm
    BY <1>2, <2>1 DEF Calm
  <2> QED
    BY <1>2, <2>2, Refuses
<1>3. CASE inode[open].good /\ noted' = [noted EXCEPT ![Weights].good = TRUE]
           /\ step' = "after" /\ UNCHANGED <<at, open, first, found>> /\ UNCHANGED P!files
  <2> DEFINE x == [noted[Weights] EXCEPT !.good = TRUE]
  <2>1. /\ x \in P!Seen /\ x.ino = noted[Weights].ino /\ x.stamp = noted[Weights].stamp
        /\ x.good = TRUE
    BY <1>1 DEF P!Seen
  <2>2. Fresh(x)
    BY <1>1, <1>3, <2>1, Typed DEF Fresh
  <2> HIDE DEF x
  <2>3. /\ noted' \in [P!File \cup {P!None} -> P!Seen] /\ noted'[Weights] = x
        /\ \A f \in P!File \cup {P!None} : f # Weights => noted'[f] = noted[f]
    <3>1. noted' = [noted EXCEPT ![Weights] = x]
      BY <1>3 DEF x
    <3> QED
      BY <1>1, <2>1, <3>1, Typed
  <2>4. \A f \in P!File : Fresh(noted'[f]) /\ Fresh(first'[f])
    BY <1>3, <2>2, <2>3, Typed
  <2>5. Verifier'
    BY <1>1, <1>3, <2>1, <2>3, Typed DEF Verifier, Scanning, Later, Confirming
  <2>6. ASSUME Calm PROVE Undisturbed'
    <3>1. Undisturbed
      BY <2>6, Typed
    <3>2. P!Same(P!Look(Weights), noted[Weights])'
      BY <1>1, <1>3, <2>1, <2>3, <3>1, Still DEF Undisturbed, P!Same
    <3>3. Sees(P!None)'
      BY <1>1, <1>3, <2>3, <3>1, Still, Entries DEF Undisturbed, Sees
    <3>4. \A f \in Entry \cup {P!None} : P!Same(P!Look(f), first[f])'
      BY <1>1, <1>3, <3>1, Still DEF Undisturbed, Later, P!Same
    <3> QED
      BY <1>1, <1>3, <3>1, <3>2, <3>3, <3>4, Still DEF Undisturbed, Scanning, Later, Confirming
  <2> QED
    BY <1>3, <2>3, <2>4, <2>5, <2>6, Typed, Passes DEF P!Steps
<1> QED
  BY <1>2, <1>3 DEF P!VerifyHash, P!Go, P!Hold

LEMMA VerifyAfterKeeps ==
    ASSUME BundleInv, P!VerifyAfter
    PROVE  BundleInv'
<1>1. /\ step = "after" /\ Weights \in P!File /\ Weights # P!None
      /\ noted[Weights] \in P!Seen /\ noted[Weights].good /\ Fresh(noted[Weights])
      /\ \A f \in Entry : first[f].good
  BY Typed, Entries DEF P!VerifyAfter, Verifier, Later
<1>2. CASE files[Weights] # open /\ P!Fail
  BY <1>1, <1>2, Refuses, Typed DEF Undisturbed
<1>3. CASE first' = [first EXCEPT ![Weights] = noted[Weights]] /\ step' = "confirm dir"
           /\ at' = P!None /\ UNCHANGED <<open, noted, found>> /\ UNCHANGED P!files
  <2>1. /\ first' \in [P!File \cup {P!None} -> P!Seen] /\ first'[Weights] = noted[Weights]
        /\ \A f \in P!File \cup {P!None} : f # Weights => first'[f] = first[f]
    BY <1>1, <1>3, Typed
  <2>2. \A f \in P!File : Fresh(noted'[f]) /\ Fresh(first'[f])
    BY <1>1, <1>3, <2>1, Typed
  <2>3. \A f \in Entry \cup {P!None} : first'[f] = first[f]
    BY <2>1, Entries
  <2>4. Verifier'
    BY <1>1, <1>3, <2>1, <2>3 DEF Verifier, Scanning, Later, Confirming
  <2>5. ASSUME Calm PROVE Undisturbed'
    <3>1. Undisturbed /\ \A f : Sees(f)' = Sees(f)
      BY <1>3, <2>5, Typed, Still DEF Sees
    <3>2. \A f \in Entry \cup {P!None} : P!Same(P!Look(f), first[f])'
      BY <1>1, <1>3, <2>3, <3>1, Still DEF Undisturbed, Later, P!Same
    <3>3. P!Same(P!Look(Weights), first[Weights])'
      BY <1>1, <1>3, <2>1, <3>1, Still DEF Undisturbed, P!Same
    <3> QED
      BY <1>1, <1>3, <3>1, <3>2, <3>3, Still DEF Undisturbed, Scanning, Later, Confirming
  <2> QED
    BY <1>3, <2>1, <2>2, <2>4, <2>5, Typed, Passes DEF P!Steps
<1> QED
  BY <1>2, <1>3 DEF P!VerifyAfter, P!KeepFirst, P!Go

\* What a confirmation compares with is compared again at every start: of the
\* verifier's state only its place and `found' change.
LEMMA Compares ==
    ASSUME BundleInv, step \in Confirming, UNCHANGED P!files, UNCHANGED <<open, noted, first>>,
           step' \in Confirming, at' \in P!File \cup {P!None}, found' \in [P!File -> BOOLEAN],
           step' = "confirm" => /\ at' \in P!File
                                /\ \A f \in Entry : at' = Weights \/ f < at' => found'[f],
           step' = "confirmed" => \A f \in P!File : found'[f]
    PROVE  BundleInv'
<1>1. (\A f \in Entry : first[f].good) /\ first[Weights].good
  BY Typed DEF Verifier, Later
<1>2. Verifier'
  BY <1>1 DEF Verifier, Scanning, Later, Confirming
<1>3. ASSUME Calm PROVE Undisturbed'
  <2>1. Undisturbed /\ \A f : Sees(f)' = Sees(f)
    BY <1>3, Typed, Still DEF Sees
  <2>2. /\ \A f \in Entry \cup {P!None} : P!Same(P!Look(f), first[f])'
        /\ P!Same(P!Look(Weights), first[Weights])'
    BY <2>1, Still DEF Undisturbed, Later, P!Same
  <2> QED
    BY <2>1, <2>2, Still DEF Undisturbed, Scanning, Later, Confirming
<1> QED
  BY <1>2, <1>3, Typed, Passes DEF P!Steps, Confirming

LEMMA ConfirmDirectoryKeeps ==
    ASSUME BundleInv, P!ConfirmDirectory
    PROVE  BundleInv'
<1>1. step = "confirm dir" /\ step \in Confirming
  BY DEF P!ConfirmDirectory, Confirming
<1>2. CASE ~(P!Same(P!Look(P!None), first[P!None]) /\ P!Listed = Entry) /\ P!Fail
  BY <1>1, <1>2, Refuses, Typed, Listing DEF Undisturbed, Later
<1>3. CASE step' = "confirm" /\ at' = P!First(Entry)
           /\ UNCHANGED <<open, noted, first, found>> /\ UNCHANGED P!files
  <2>1. at' \in Entry /\ \A g \in Entry : at' <= g
    BY <1>3, FirstOf, Entries
  <2>2. \A f \in Entry : f \in Nat /\ at' \in Nat
    BY <2>1, Entries
  <2>3. at' # Weights /\ \A f \in Entry : ~(f < at')
    BY <2>1, <2>2, Entries
  <2>4. at' \in P!File /\ step' \in Confirming
    BY <1>3, <2>1, Entries DEF Confirming
  <2>5. /\ step' = "confirm" => /\ at' \in P!File
                                /\ \A f \in Entry : at' = Weights \/ f < at' => found'[f]
        /\ step' = "confirmed" => \A f \in P!File : found'[f]
        /\ found' \in [P!File -> BOOLEAN]
    BY <1>3, <2>3, <2>4, Typed
  <2> QED
    BY <1>1, <1>3, <2>4, <2>5, Compares
<1> QED
  BY <1>2, <1>3 DEF P!ConfirmDirectory, P!Go

LEMMA ConfirmKeeps ==
    ASSUME BundleInv, P!Confirm
    PROVE  BundleInv'
<1>1. /\ step = "confirm" /\ step \in Confirming /\ at \in P!File /\ at # P!None
      /\ \A f \in Entry : at = Weights \/ f < at => found[f]
      /\ first[at].good /\ Fresh(first[at])
  BY Typed, Entries DEF P!Confirm, Confirming, Later, Verifier
<1>2. CASE ~P!Confirmable(at) /\ P!Fail
  BY <1>1, <1>2, Refuses, Typed, Entries DEF P!Confirmable, Undisturbed, Later
<1>3. CASE /\ P!Confirmable(at) /\ found' = [found EXCEPT ![at] = P!Look(at).good]
           /\ \/ at = Weights /\ step' = "confirmed" /\ UNCHANGED at
              \/ at # Weights /\ UNCHANGED step /\ at' = IF \E g \in Entry : g > at
                   THEN P!First({g \in Entry : g > at}) ELSE Weights
           /\ UNCHANGED <<open, noted, first>> /\ UNCHANGED P!files
  <2>1. /\ files[at] # P!None /\ files[at] \in DOMAIN inode
        /\ P!Look(at) = [ino |-> files[at], stamp |-> inode[files[at]].stamp,
                         good |-> inode[files[at]].good]
        /\ P!Look(at).ino = first[at].ino /\ P!Look(at).stamp = first[at].stamp
    BY <1>1, <1>3, Shows DEF P!Confirmable, P!Same
  <2>2. inode[files[at]].good = TRUE
    BY <1>1, <2>1, Typed DEF Fresh, BundleInv, P!TypeOK
  <2>3. /\ found' \in [P!File -> BOOLEAN] /\ found'[at]
        /\ \A f \in P!File : f # at => found'[f] = found[f]
    <3>1. P!Look(at).good = TRUE
      BY <2>1, <2>2
    <3>2. found' = [found EXCEPT ![at] = TRUE]
      BY <1>3, <3>1
    <3>3. found \in [P!File -> BOOLEAN] /\ at \in P!File
      BY <1>1, Typed
    <3> QED
      BY <3>2, <3>3
  <2>4. CASE at = Weights
    <3>1. \A f \in P!File : found'[f]
      BY <1>1, <2>3, <2>4, Entries
    <3>2. step' = "confirmed" /\ at' \in P!File \cup {P!None} /\ step' \in Confirming
      BY <1>1, <1>3, <2>4 DEF Confirming
    <3>3. step' = "confirm" => /\ at' \in P!File
                               /\ \A f \in Entry : at' = Weights \/ f < at' => found'[f]
      BY <3>2
    <3> QED
      BY <1>1, <1>3, <2>3, <3>1, <3>2, <3>3, Compares
  <2>5. CASE at # Weights
    <3> DEFINE later == {g \in Entry : g > at}
    <3>1. /\ at \in Entry /\ \A f \in Entry : f < at => found[f]
          /\ step' = "confirm"
          /\ at' = IF \E g \in Entry : g > at THEN P!First(later) ELSE Weights
      BY <1>1, <1>3, <2>5, Entries
    <3>2. at \in Nat /\ \A f \in Entry : f \in Nat
      BY <3>1, Entries
    <3>3. /\ at' \in Entry \/ at' = Weights
          /\ \A f \in Entry : at' = Weights \/ f < at' => ~(f > at)
      <4>1. CASE later # {}
        <5>1. later \in SUBSET Nat
          BY <3>2
        <5> HIDE DEF later
        <5>2. at' \in later /\ \A g \in later : at' <= g
          <6>1. \E g \in Entry : g > at
            BY <4>1 DEF later
          <6> QED
            BY <3>1, <4>1, <5>1, <6>1, FirstOf
        <5>3. at' \in Entry /\ at' \in Nat /\ at' # Weights
          BY <3>2, <5>2, Entries DEF later
        <5>4. ASSUME NEW f \in Entry, f < at' PROVE ~(f > at)
          <6>1. f \in Nat
            BY <3>2
          <6>2. f > at => at' <= f
            BY <5>2 DEF later
          <6> QED
            BY <5>3, <5>4, <6>1, <6>2
        <5> QED
          BY <5>3, <5>4
      <4>2. CASE later = {}
        <5>1. ~\E g \in Entry : g > at
          BY <4>2
        <5>2. at' = Weights
          BY <3>1, <5>1
        <5> QED
          BY <5>1, <5>2
      <4> QED
        BY <4>1, <4>2
    <3> HIDE DEF later
    <3>4. ASSUME NEW f \in Entry, at' = Weights \/ f < at' PROVE found'[f]
      <4>1. ~(f > at)
        BY <3>3, <3>4
      <4>2. f < at \/ f = at
        BY <3>2, <4>1
      <4>3. f \in P!File
        BY Entries
      <4> QED
        BY <2>3, <3>1, <4>2, <4>3
    <3>5. at' \in P!File /\ step' \in Confirming /\ at' \in P!File \cup {P!None}
      BY <3>1, <3>3, Entries DEF Confirming
    <3>6. /\ step' = "confirm" => /\ at' \in P!File
                                  /\ \A f \in Entry : at' = Weights \/ f < at' => found'[f]
          /\ step' = "confirmed" => \A f \in P!File : found'[f]
      BY <3>1, <3>4, <3>5
    <3> QED
      BY <1>1, <1>3, <2>3, <3>5, <3>6, Compares
  <2> QED
    BY <2>4, <2>5
<1> QED
  BY <1>2, <1>3 DEF P!Confirm, P!Go

LEMMA ConfirmLaterKeeps ==
    ASSUME BundleInv, P!ConfirmLater
    PROVE  BundleInv'
  BY Compares DEF P!ConfirmLater, P!Go, Confirming

\* Somebody else's change: every stamp it leaves is new.
LEMMA Changes ==
    ASSUME BundleInv, UNCHANGED P!scan, clock < MaxTouch, clock' = clock + 1,
           NEW n \in Nat, DOMAIN inode' = 1 .. n, Cardinality(DOMAIN inode) <= n,
           \A i \in 1 .. n : \/ i \in DOMAIN inode /\ inode'[i] = inode[i]
                             \/ inode'[i] \in [stamp : {clock + 1}, good : BOOLEAN],
           files' \in [P!File -> 0 .. n], dir' \in {dir, clock + 1}
    PROVE  BundleInv'
<1>1. UNCHANGED <<step, at, open, noted, first, found>>
  BY DEF P!scan
<1>2. /\ Cardinality(DOMAIN inode) \in Nat /\ DOMAIN inode = 1 .. Cardinality(DOMAIN inode)
      /\ \A i \in DOMAIN inode : inode[i] \in [stamp : 0 .. clock, good : BOOLEAN]
      /\ dir \in 0 .. clock /\ clock \in 0 .. MaxTouch /\ MaxTouch \in Nat
  BY Entries DEF BundleInv, P!TypeOK
<1>3. Cardinality(DOMAIN inode') = n /\ P!Cardinality(DOMAIN inode') = n
  BY FS_Interval, SameNumber
<1>4. clock' \in 0 .. MaxTouch /\ dir' \in 0 .. clock' /\ clock' # 0
  BY <1>2
<1>5. DOMAIN inode \subseteq DOMAIN inode'
  <2> DEFINE m == Cardinality(DOMAIN inode)
  <2>1. m \in Nat /\ m <= n /\ DOMAIN inode = 1 .. m
    BY <1>2
  <2> HIDE DEF m
  <2> QED
    BY <2>1
<1>6. \A i \in DOMAIN inode' : inode'[i] \in [stamp : 0 .. clock', good : BOOLEAN]
  <2> SUFFICES ASSUME NEW i \in 1 .. n PROVE inode'[i] \in [stamp : 0 .. clock', good : BOOLEAN]
    OBVIOUS
  <2>1. 0 .. clock \subseteq 0 .. clock' /\ clock + 1 \in 0 .. clock'
    BY <1>2
  <2>2. CASE i \in DOMAIN inode /\ inode'[i] = inode[i]
    BY <1>2, <2>1, <2>2
  <2>3. CASE inode'[i] \in [stamp : {clock + 1}, good : BOOLEAN]
    BY <2>1, <2>3
  <2> QED
    BY <2>2, <2>3
<1>7. P!TypeOK'
  <2>1. open' \in {P!None} \cup DOMAIN inode'
    BY <1>1, <1>5, Typed
  <2> QED
    BY <1>1, <1>3, <1>4, <1>6, <2>1, Typed DEF P!TypeOK
<1>8. ASSUME NEW x \in P!Seen, Fresh(x) PROVE Fresh(x)'
  <2> SUFFICES ASSUME x.ino # P!None PROVE
        /\ x.ino \in DOMAIN inode' /\ x.stamp <= inode'[x.ino].stamp
        /\ x.good /\ x.stamp = inode'[x.ino].stamp => inode'[x.ino].good
    BY DEF Fresh
  <2>1. /\ x.ino \in DOMAIN inode /\ x.stamp <= inode[x.ino].stamp
        /\ x.good /\ x.stamp = inode[x.ino].stamp => inode[x.ino].good
    BY <1>8 DEF Fresh
  <2>2. x.ino \in 1 .. n /\ x.stamp \in Nat /\ inode[x.ino].stamp \in 0 .. clock /\ clock \in Nat
    BY <1>2, <1>5, <2>1 DEF P!Seen
  <2>3. CASE inode'[x.ino] = inode[x.ino]
    BY <1>5, <2>1, <2>3
  <2>4. CASE inode'[x.ino] \in [stamp : {clock + 1}, good : BOOLEAN]
    <3>1. inode'[x.ino].stamp = clock + 1 /\ inode[x.ino].stamp < clock + 1
      BY <2>2, <2>4
    <3>2. x.stamp < inode'[x.ino].stamp
      BY <2>1, <2>2, <3>1
    <3> QED
      BY <2>2, <3>2
  <2> QED
    BY <2>2, <2>3, <2>4
<1>9. \A f \in P!File : Fresh(noted[f])' /\ Fresh(first[f])'
  <2> TAKE f \in P!File
  <2>1. noted[f] \in P!Seen /\ first[f] \in P!Seen /\ Fresh(noted[f]) /\ Fresh(first[f])
    BY Typed
  <2>2. (\A x \in P!Seen : Fresh(x) => Fresh(x)') /\ noted' = noted /\ first' = first
    BY <1>1, <1>8
  <2> QED
    BY <2>1, <2>2 DEF Fresh
<1>10. Verifier' /\ ~Calm'
  BY <1>1, <1>4, Typed DEF Verifier, Calm
<1> QED
  BY <1>3, <1>7, <1>9, <1>10 DEF BundleInv

LEMMA ChangeKeeps ==
    ASSUME BundleInv, P!Change
    PROVE  BundleInv'
<1> DEFINE n == Cardinality(DOMAIN inode)
<1>1. /\ n \in Nat /\ DOMAIN inode = 1 .. n /\ files \in [P!File -> 0 .. n]
      /\ P!Cardinality(DOMAIN inode) = n
  BY SameNumber DEF BundleInv, P!TypeOK
<1> HIDE DEF n
<1>2. PICK f \in P!File : P!Remove(f) \/ \E good \in BOOLEAN : P!Write(f, good) \/ P!Replace(f, good)
  BY DEF P!Change
<1>3. CASE P!Remove(f)
  <2>1. /\ clock < MaxTouch /\ clock' = clock + 1 /\ inode' = inode /\ UNCHANGED P!scan
        /\ files' = [files EXCEPT ![f] = P!None] /\ dir' \in {dir, clock + 1}
    BY <1>3 DEF P!Remove
  <2>2. files' \in [P!File -> 0 .. n] /\ n <= n
    BY <1>1, <2>1, Entries
  <2> QED
    BY <1>1, <2>1, <2>2, Changes DEF n
<1>4. ASSUME NEW good \in BOOLEAN, P!Write(f, good) PROVE BundleInv'
  <2> DEFINE x == [stamp |-> clock + 1, good |-> good]
  <2>1. /\ clock < MaxTouch /\ clock' = clock + 1 /\ files' = files /\ dir' = dir /\ UNCHANGED P!scan
        /\ inode' = [inode EXCEPT ![files[f]] = x]
    BY <1>4 DEF P!Write
  <2>2. x \in [stamp : {clock + 1}, good : BOOLEAN]
    OBVIOUS
  <2> HIDE DEF x
  <2>3. DOMAIN inode' = 1 .. n /\ n <= n
    BY <1>1, <2>1
  <2>4. \A i \in 1 .. n : \/ i \in DOMAIN inode /\ inode'[i] = inode[i]
                          \/ inode'[i] \in [stamp : {clock + 1}, good : BOOLEAN]
    BY <1>1, <2>1, <2>2
  <2> QED
    BY <1>1, <2>1, <2>3, <2>4, Changes DEF n
<1>5. ASSUME NEW good \in BOOLEAN, P!Replace(f, good) PROVE BundleInv'
  <2>1. /\ clock < MaxTouch /\ clock' = clock + 1 /\ UNCHANGED P!scan /\ dir' \in {dir, clock + 1}
        /\ inode' = [i \in 1 .. n + 1 |-> IF i <= n THEN inode[i]
                                          ELSE [stamp |-> clock + 1, good |-> good]]
        /\ files' = [files EXCEPT ![f] = n + 1]
    BY <1>1, <1>5 DEF P!Replace, P!NewInode
  <2>2. n + 1 \in Nat /\ n <= n + 1 /\ 0 .. n \subseteq 0 .. n + 1 /\ n + 1 \in 0 .. n + 1
    BY <1>1
  <2>3. DOMAIN inode' = 1 .. n + 1 /\ files' \in [P!File -> 0 .. n + 1]
    BY <1>1, <2>1, <2>2
  <2>4. \A i \in 1 .. n + 1 : \/ i \in DOMAIN inode /\ inode'[i] = inode[i]
                              \/ inode'[i] \in [stamp : {clock + 1}, good : BOOLEAN]
    <3> TAKE i \in 1 .. n + 1
    <3>1. CASE i <= n
      <4>1. i \in 1 .. n
        BY <1>1, <3>1
      <4> QED
        BY <1>1, <2>1, <3>1, <4>1
    <3>2. CASE ~(i <= n)
      BY <2>1, <3>2
    <3> QED
      BY <3>1, <3>2
  <2> QED
    BY <2>1, <2>2, <2>3, <2>4, Changes DEF n
<1> QED
  BY <1>2, <1>3, <1>4, <1>5

LEMMA BundleKeeps ==
    ASSUME BundleInv, P!Next
    PROVE  BundleInv'
  BY ListKeeps, StatKeeps, OpenKeeps, ReadKeeps, RecheckKeeps, AgainKeeps, RestatKeeps,
     VerifyStatKeeps, VerifyOpenKeeps, VerifyHashKeeps, VerifyAfterKeeps,
     ConfirmDirectoryKeeps, ConfirmKeeps, ConfirmLaterKeeps, ChangeKeeps
     DEF P!Next, P!Verify

LEMMA Stands ==
    ASSUME BundleInv, UNCHANGED P!files, UNCHANGED P!scan
    PROVE  BundleInv'
<1>1. UNCHANGED <<step, at, open, noted, first, found>>
  BY DEF P!scan
<1>2. Verifier'
  BY <1>1, Typed DEF Verifier
<1>3. ASSUME Calm PROVE Undisturbed'
  BY <1>1, <1>3, Typed, Still DEF Undisturbed, Sees, P!Same
<1> QED
  BY <1>1, <1>2, <1>3, Typed, Passes

LEMMA BundleRight == BundleInv => P!TypeOK /\ P!ConfirmedBytes /\ P!UntouchedPasses
<1> SUFFICES ASSUME BundleInv PROVE P!ConfirmedBytes /\ P!UntouchedPasses
  BY DEF BundleInv
<1>1. P!ConfirmedBytes
  BY Typed DEF P!ConfirmedBytes, Verifier
<1>2. P!UntouchedPasses
  BY Typed DEF P!UntouchedPasses, Calm, Undisturbed
<1> QED
  BY <1>1, <1>2

\* The model a start loads is one the host can run and the user chose, and what
\* it confirms without reading has the bytes that were hashed
\* (semantic/model_selection.rs and semantic/provenance.rs): LoadedRight in
\* every state, on every host, for every bundle and for any number of changes.
THEOREM LoadedIsRight == AllSpec => []LoadedRight
<1>1. AllInit => RuntimeInv
  BY StartInit, BundleInit DEF AllInit, RuntimeInv
<1>2. RuntimeInv /\ [AllNext]_all => RuntimeInv'
  <2> SUFFICES ASSUME RuntimeInv, [AllNext]_all PROVE RuntimeInv'
    OBVIOUS
  <2>1. CASE part = "startup" /\ part' = part /\ M!Next
    BY <2>1, StartKeeps DEF RuntimeInv
  <2>2. CASE part = "bundle" /\ part' = part /\ P!Next
    BY <2>2, BundleKeeps DEF RuntimeInv
  <2>3. CASE UNCHANGED <<part, startup, bundle>>
    <3>1. StartInv => StartInv'
      BY <2>3 DEF startup, StartInv, Advised, M!TypeOK, M!AdviceHolds, M!ChoiceWins, M!ReserveKept
    <3>2. BundleInv => BundleInv'
      <4>1. UNCHANGED P!vars
        BY <2>3 DEF bundle, P!vars, P!files, P!scan
      <4>2. ASSUME BundleInv PROVE BundleInv'
        BY <4>1, <4>2, Stands DEF P!vars
      <4> QED
        BY <4>2
    <3> QED
      BY <2>3, <3>1, <3>2 DEF RuntimeInv
  <2>4. CASE part \notin {"startup", "bundle"} /\ part' = part
    BY <2>4 DEF RuntimeInv
  <2> QED
    BY <2>1, <2>2, <2>3, <2>4 DEF AllNext, all
<1>3. RuntimeInv => LoadedRight
  BY BundleRight DEF RuntimeInv, LoadedRight, StartRight, BytesRight, StartInv
<1> QED
  BY <1>1, <1>2, <1>3, PTL DEF AllSpec
=============================================================================
