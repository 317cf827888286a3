------------------------------ MODULE Service ------------------------------
(***************************************************************************)
(* The broker process from its start to its end (broker/src/main.rs,       *)
(* server.rs run and bind_secure, writing.rs start), the model process it  *)
(* owns (semantic/runtime.rs) and the helper that ties that process's life *)
(* to the broker's (semantic/process.rs).  Either may die at any step, the *)
(* installed files may change at any step, a person may start a second     *)
(* broker, and the service manager starts another after a failure.         *)
(*                                                                         *)
(* Abstractions.  A broker is its process number, which is not used again, *)
(* and has a home: its storage and public socket path.  All share the      *)
(* directory of the model sockets.                                         *)
(* The installed files are one object with a change stamp (Provenance has  *)
(* the system calls behind `Unchanged').  The connections of a serving     *)
(* broker are Serving's.  The launch is the contained one that badi-broker *)
(* uses; the direct one is for tools.                                      *)
(***************************************************************************)
EXTENDS Naturals, FiniteSets

CONSTANTS
    MaxBroker, \* bound: brokers started
    MaxChange  \* bound: changes of the installed files

ASSUME ServiceAssumption == MaxBroker \in Nat \ {0} /\ MaxChange \in Nat

Broker == 1 .. MaxBroker
Earlier == MaxBroker + 1 \* one that was killed before
Home == {1, 2}
None == 0

VARIABLES
    pc,     \* where each broker is
    exit,   \* how it ends
    home,   \* each broker's home
    lock,   \* the broker that holds the storage's advisory locks, by home
    disk,   \* the installed files: their change stamp, and whether right
    kept,   \* the stamp each broker's verification keeps
    os,     \* the child each broker started
    ran,    \* whether that child executed the right bytes
    sock,   \* brokers at whose llama-<pid>.sock there is a file
    main,   \* the broker whose socket is at the public path, by home
    looked, \* what bind_secure found there
    struck  \* a signal reached a process number no longer the child's

vars == <<home, pc, exit, lock, disk, kept, os, ran, sock, main, looked, struck>>

Place == {"off", "open", "choose", "verify", "prepare", "spawn", "spawned", "wait",
          "ready", "warm", "look", "recheck", "unlink", "bind", "serve", "drain",
          "stop", "termed", "killed", "gone"}
Child == {"none", "helper", "armed", "checked", "run", "bound", "zombie", "reaped"}

TypeOK ==
    /\ pc \in [Broker -> Place]
    /\ exit \in [Broker -> {"none", "ok", "failure", "configuration", "crash"}]
    /\ home \in [Broker -> Home] /\ lock \in [Home -> Broker \cup {None}]
    /\ disk \in [stamp : 0 .. MaxChange, right : BOOLEAN]
    /\ kept \in [Broker -> 0 .. MaxChange]
    /\ os \in [Broker -> Child] /\ ran \in [Broker -> BOOLEAN]
    /\ sock \subseteq Broker /\ main \in [Home -> Broker \cup {None, Earlier}]
    /\ looked \in [Broker -> Broker \cup {None, Earlier}]
    /\ struck \in BOOLEAN

Init ==
    /\ pc = [b \in Broker |-> "off"] /\ exit = [b \in Broker |-> "none"]
    /\ home \in {h \in [Broker -> Home] : h[1] = 1}
    /\ lock = [h \in Home |-> None] /\ main \in [Home -> {None, Earlier}]
    /\ sock = {} /\ struck = FALSE
    /\ disk \in [stamp : {0}, right : BOOLEAN]
    /\ kept = [b \in Broker |-> 0] /\ looked = [b \in Broker |-> None]
    /\ os = [b \in Broker |-> "none"] /\ ran = [b \in Broker |-> FALSE]

Lock(b) == lock[home[b]]
Main(b) == main[home[b]]
Up(b) == b \in Broker /\ pc[b] \notin {"off", "gone"}
Go(b, place) == pc' = [pc EXCEPT ![b] = place]

\* Leave for the end with this exit code.
Leave(b, code, place) == Go(b, place) /\ exit' = [exit EXCEPT ![b] = code]

-----------------------------------------------------------------------------
(* Start                                                                   *)

Free(b) == pc[b] = "off" /\ \A c \in Broker : c < b => pc[c] # "off"

\* By the service manager, after a failure or a crash, or by a person.
Begin(b) ==
    /\ Free(b) /\ Go(b, "open")
    /\ UNCHANGED <<home, exit, lock, disk, kept, os, ran, sock, main, looked, struck>>

\* The process ends without a child to stop; the kernel frees its locks.
EndNow(b, code) == Leave(b, code, "gone") /\ lock' = [lock EXCEPT ![home[b]] = IF @ = b THEN None ELSE @]

Open(b) ==
    /\ pc[b] = "open"
    /\ \/ Lock(b) = None /\ lock' = [lock EXCEPT ![home[b]] = b] /\ Go(b, "choose") /\ UNCHANGED exit
       \/ \E code \in {"failure", "configuration"} : EndNow(b, code)
    /\ UNCHANGED <<home, disk, kept, os, ran, sock, main, looked, struck>>

\* installed_model and wait_for_memory, which waits as long as it takes.
Choose(b) ==
    /\ pc[b] = "choose"
    /\ \/ Go(b, "verify") /\ UNCHANGED <<exit, lock>>
       \/ EndNow(b, "configuration")
    /\ UNCHANGED <<home, disk, kept, os, ran, sock, main, looked, struck>>

Keep(b) == kept' = [kept EXCEPT ![b] = disk.stamp]

Verify(b) ==
    /\ pc[b] = "verify"
    /\ \/ /\ disk.right /\ Keep(b) /\ Go(b, "prepare")
          /\ UNCHANGED <<exit, lock>>
       \/ ~disk.right /\ EndNow(b, "failure") /\ UNCHANGED kept
    /\ UNCHANGED <<home, disk, os, ran, sock, main, looked, struck>>

\* prepare_runtime_socket: dead brokers' sockets and the own path.
Prepare(b) ==
    /\ pc[b] = "prepare" /\ Go(b, "spawn")
    /\ sock' = {c \in sock \ {b} : Up(c)}
    /\ UNCHANGED <<home, exit, lock, disk, kept, os, ran, main, looked, struck>>

Unchanged(b) == disk.stamp = kept[b]

Spawn(b) ==
    /\ pc[b] = "spawn"
    /\ \/ Unchanged(b) /\ os' = [os EXCEPT ![b] = "helper"] /\ Go(b, "spawned")
          /\ UNCHANGED <<exit, lock>>
       \/ ~Unchanged(b) /\ EndNow(b, "failure") /\ UNCHANGED os
    /\ UNCHANGED <<home, disk, kept, ran, sock, main, looked, struck>>

Spawned(b) ==
    /\ pc[b] = "spawned"
    /\ IF Unchanged(b) THEN Go(b, "wait") /\ UNCHANGED exit ELSE Leave(b, "failure", "stop")
    /\ UNCHANGED <<home, lock, disk, kept, os, ran, sock, main, looked, struck>>

\* wait_until_ready: the poll reaps a child that exited; a challenge that
\* the process at the socket answers; a wrong answer or the deadline.
WaitReady(b) ==
    /\ pc[b] = "wait"
    /\ \/ /\ os[b] = "zombie" /\ os' = [os EXCEPT ![b] = "reaped"]
          /\ Leave(b, "failure", "stop")
       \/ os[b] = "bound" /\ b \in sock /\ Go(b, "ready") /\ UNCHANGED <<exit, os>>
       \/ os[b] # "zombie" /\ Leave(b, "failure", "stop") /\ UNCHANGED os
    /\ UNCHANGED <<home, lock, disk, kept, ran, sock, main, looked, struck>>

\* The helper executes the binary after spawn returned: only now has it.
Ready(b) ==
    /\ pc[b] = "ready"
    /\ IF Unchanged(b) /\ b \in sock THEN Go(b, "warm") /\ UNCHANGED exit
       ELSE Leave(b, "failure", "stop")
    /\ UNCHANGED <<home, lock, disk, kept, os, ran, sock, main, looked, struck>>

\* A failed warm-up is only reported.
WarmUp(b) ==
    /\ pc[b] = "warm" /\ Go(b, "look")
    /\ UNCHANGED <<home, exit, lock, disk, kept, os, ran, sock, main, looked, struck>>

-----------------------------------------------------------------------------
(* The public socket: bind_secure and SocketGuard                          *)

Listening(b) == b \in Broker /\ pc[b] \in {"serve", "drain"}

Look(b) ==
    /\ pc[b] = "look"
    /\ looked' = [looked EXCEPT ![b] = Main(b)]
    /\ \/ Main(b) = None /\ Go(b, "bind") /\ UNCHANGED exit
       \/ Main(b) # None /\ ~Listening(Main(b)) /\ Go(b, "recheck") /\ UNCHANGED exit
       \/ Main(b) # None /\ Listening(Main(b)) /\ Leave(b, "failure", "stop")
    /\ UNCHANGED <<home, lock, disk, kept, os, ran, sock, main, struck>>

Recheck(b) ==
    /\ pc[b] = "recheck"
    /\ IF Main(b) = looked[b] THEN Go(b, "unlink") /\ UNCHANGED exit ELSE Leave(b, "failure", "stop")
    /\ UNCHANGED <<home, lock, disk, kept, os, ran, sock, main, looked, struck>>

Unlink(b) ==
    /\ pc[b] = "unlink" /\ Go(b, "bind") /\ main' = [main EXCEPT ![home[b]] = None]
    /\ UNCHANGED <<home, exit, lock, disk, kept, os, ran, sock, looked, struck>>

Bind(b) ==
    /\ pc[b] = "bind"
    /\ \/ Main(b) = None /\ main' = [main EXCEPT ![home[b]] = b] /\ Go(b, "serve") /\ UNCHANGED exit
       \/ Main(b) # None /\ Leave(b, "failure", "stop") /\ UNCHANGED main
    /\ UNCHANGED <<home, lock, disk, kept, os, ran, sock, looked, struck>>

-----------------------------------------------------------------------------
(* The end                                                                 *)

Exited(b) == os[b] \in {"zombie", "reaped"}

Signalled(b) ==
    /\ pc[b] = "serve" /\ Leave(b, "ok", "drain")
    /\ UNCHANGED <<home, lock, disk, kept, os, ran, sock, main, looked, struck>>

\* The pidfd tells of the exit of a child that nobody has reaped yet.
ProviderExits(b) ==
    /\ pc[b] = "serve" /\ Exited(b) /\ Leave(b, "failure", "drain")
    /\ UNCHANGED <<home, lock, disk, kept, os, ran, sock, main, looked, struck>>

\* The connections have ended; the guard removes the socket it bound.
Drained(b) ==
    /\ pc[b] = "drain" /\ Go(b, "stop")
    /\ main' = [main EXCEPT ![home[b]] = IF @ = b THEN None ELSE @]
    /\ UNCHANGED <<home, exit, lock, disk, kept, os, ran, sock, looked, struck>>

\* The child is reaped: its socket's file goes, and the process ends.
Finish(b) ==
    /\ os' = [os EXCEPT ![b] = "reaped"] /\ sock' = sock \ {b}
    /\ EndNow(b, exit[b])

\* Mutant: the group is signalled before anyone asked whether it is there.
TerminateBlind(b) ==
    /\ pc[b] = "stop"
    /\ struck' = (struck \/ os[b] = "reaped") /\ Go(b, "termed")
    /\ UNCHANGED <<home, exit, lock, disk, kept, os, ran, sock, main, looked>>

\* terminate_child: only a child not yet reaped is signalled.
Terminate(b) ==
    /\ pc[b] = "stop"
    /\ \/ Exited(b) /\ Finish(b)
       \/ ~Exited(b) /\ Go(b, "termed") /\ UNCHANGED <<exit, lock, os, sock>>
    /\ UNCHANGED <<home, disk, kept, ran, main, looked, struck>>

\* Within the grace it exits, or it is killed; a killed one is waited for.
Reap(b) ==
    /\ pc[b] \in {"termed", "killed"} /\ Exited(b) /\ Finish(b)
    /\ UNCHANGED <<home, disk, kept, ran, main, looked, struck>>

Kill(b) ==
    /\ pc[b] = "termed" /\ ~Exited(b)
    /\ Go(b, "killed") /\ os' = [os EXCEPT ![b] = "zombie"]
    /\ UNCHANGED <<home, exit, lock, disk, kept, ran, sock, main, looked, struck>>

-----------------------------------------------------------------------------
(* The child, and the kernel                                               *)

\* It is a zombie while its parent lives, then reaped by init.
Died(b) == IF Up(b) THEN "zombie" ELSE "reaped"

HelperArm(b) ==
    /\ os[b] = "helper" /\ os' = [os EXCEPT ![b] = "armed"]
    /\ UNCHANGED <<home, pc, exit, lock, disk, kept, ran, sock, main, looked, struck>>

\* Mutant: armed once, and its parent not looked for afterwards.
HelperTrusts(b) ==
    /\ os[b] = "armed" /\ os' = [os EXCEPT ![b] = "checked"]
    /\ UNCHANGED <<home, pc, exit, lock, disk, kept, ran, sock, main, looked, struck>>

HelperCheck(b) ==
    /\ os[b] = "armed"
    /\ os' = [os EXCEPT ![b] = IF Up(b) THEN "checked" ELSE Died(b)]
    /\ UNCHANGED <<home, pc, exit, lock, disk, kept, ran, sock, main, looked, struck>>

\* validate_unprivileged_executable, then exec.
HelperExec(b) ==
    /\ os[b] = "checked"
    /\ os' = [os EXCEPT ![b] = "run"] /\ ran' = [ran EXCEPT ![b] = disk.right]
    /\ UNCHANGED <<home, pc, exit, lock, disk, kept, sock, main, looked, struck>>

ChildBind(b) ==
    /\ os[b] = "run" /\ b \notin sock
    /\ sock' = sock \cup {b} /\ os' = [os EXCEPT ![b] = "bound"]
    /\ UNCHANGED <<home, pc, exit, lock, disk, kept, ran, main, looked, struck>>

\* The child exits of itself, of a TERM, or because it cannot go on.
ChildExit(b) ==
    /\ os[b] \in {"helper", "armed", "checked", "run", "bound"}
    /\ os' = [os EXCEPT ![b] = Died(b)]
    /\ UNCHANGED <<home, pc, exit, lock, disk, kept, ran, sock, main, looked, struck>>

\* The broker is killed at any step: the death signal reaches an armed child,
\* its files stay, its locks go.
Crash(b) ==
    /\ Up(b) /\ EndNow(b, "crash")
    /\ os' = [os EXCEPT ![b] = IF @ \in {"none", "helper"} THEN @ ELSE "reaped"]
    /\ UNCHANGED <<home, disk, kept, ran, sock, main, looked, struck>>

Change ==
    /\ disk.stamp < MaxChange
    /\ \E right \in BOOLEAN : disk' = [stamp |-> disk.stamp + 1, right |-> right]
    /\ UNCHANGED <<home, pc, exit, lock, kept, os, ran, sock, main, looked, struck>>

-----------------------------------------------------------------------------
(* The specification                                                       *)

Starting(b) == Open(b) \/ Choose(b) \/ Verify(b) \/ Prepare(b) \/ Spawn(b) \/ Spawned(b)
    \/ WaitReady(b) \/ Ready(b) \/ WarmUp(b) \/ Look(b) \/ Recheck(b) \/ Unlink(b) \/ Bind(b)
Ending(b) == Drained(b) \/ Terminate(b) \/ Reap(b) \/ Kill(b)
Helper(b) == HelperArm(b) \/ HelperCheck(b) \/ HelperExec(b) \/ ChildBind(b)

Next ==
    \/ Change
    \/ \E b \in Broker : \/ Begin(b) \/ Starting(b) \/ Signalled(b) \/ ProviderExits(b) \/ Ending(b)
                         \/ Helper(b) \/ ChildExit(b) \/ Crash(b)

Spec == Init /\ [][Next]_vars

\* Code that runs goes on; the pidfd tells of an exit.  Nothing makes a
\* process die, and no broker need be started.
Fairness == \A b \in Broker :
    /\ WF_vars(Starting(b)) /\ WF_vars(Ending(b)) /\ WF_vars(Helper(b))
    /\ WF_vars(ProviderExits(b))

FairSpec == Spec /\ Fairness

-----------------------------------------------------------------------------
(* Properties                                                              *)

Running(b) == pc[b] \in {"warm", "look", "recheck", "unlink", "bind", "serve"}

\* A model process that the broker uses executed the right bytes, whenever in
\* the start the files changed.
RunsVerified == \A b \in Broker : Running(b) => ran[b]

\* A serving broker is the one at the public path: a second broker neither
\* takes the path from it nor unlinks its socket.
ServesItsSocket == \A b \in Broker : pc[b] = "serve" => Main(b) = b

\* Nobody removes the socket of a model process that its broker uses.
RuntimeReachable == \A b \in Broker : Running(b) => b \in sock

\* No signal goes to a process number that was given back to the kernel.
NeverStruck == ~struck

\* A broker that was not killed leaves nothing behind.
LeavesNothing == \A b \in Broker : pc[b] = "gone" /\ exit[b] # "crash" =>
    os[b] \in {"none", "reaped"} /\ b \notin sock /\ Main(b) # b /\ Lock(b) # b

\* A broker uses what it verified, on sockets that are its own, and leaves
\* nothing: RunsVerified, ServesItsSocket, RuntimeReachable, NeverStruck and
\* LeavesNothing.
ProcessesSafe ==
    TypeOK /\ RunsVerified /\ ServesItsSocket /\ RuntimeReachable /\ NeverStruck /\ LeavesNothing

\* The model process does not outlive its broker, whenever that died.
NoOutlive == \A b \in Broker : (pc[b] = "gone") ~> (os[b] \in {"none", "reaped"})

\* A broker whose model process ended does not serve on.
ModelGoneEnds == \A b \in Broker : (pc[b] = "serve" /\ Exited(b)) ~> (pc[b] = "gone")

\* A broker and its model process end together: NoOutlive and ModelGoneEnds.
ModelsEnd == NoOutlive /\ ModelGoneEnds

=============================================================================
