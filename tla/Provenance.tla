---------------------------- MODULE Provenance ----------------------------
(***************************************************************************)
(* Verification of a runtime bundle and a model file                       *)
(* (broker/src/semantic/provenance.rs) while something else may write or   *)
(* replace them: every system call on the files is a step.  verify_*       *)
(* hashes each object once; confirm_unchanged later compares identities    *)
(* alone, so its answer is worth what the identities kept with the hash    *)
(* are.                                                                    *)
(*                                                                         *)
(* Abstractions.  An inode has a change stamp (mtime and ctime, which      *)
(* every write moves) and `good', whether its bytes are the expected ones. *)
(* A write may keep the size, the worst case for file_identity.  A link is *)
(* an entry whose target is its content; where it leads is left out.       *)
(***************************************************************************)
EXTENDS Naturals, FiniteSets

CONSTANTS
    Entry,    \* names the expected manifest lists; numbers, in their order
    Model,    \* the model file, outside the bundle
    MaxChange \* bound: changes to the files

File == Entry \cup {Model}
None == 0

VARIABLES
    disk,   \* the inode each path names, None if nothing
    inode,  \* the inodes there have been, in order of creation
    dir,    \* the bundle directory's change stamp
    clock,  \* changes so far; the newest stamp
    pc,     \* the verifier's next system call
    at,     \* the file it is at
    open,   \* the inode it holds open
    noted,  \* identities and bytes as the scan in progress sees them
    kept,   \* what verification keeps: the hashed objects' identities
    found   \* bytes at the path when confirm_unchanged looked at it

files == <<disk, inode, dir, clock>>
scan == <<pc, at, open, noted, kept, found>>
vars == <<files, scan>>

Steps == {"list", "stat", "open", "read", "recheck", "again", "restat",
          "model", "hash", "digest", "after", "confirm dir", "confirm", "confirmed", "failed"}

Nothing == [ino |-> None, stamp |-> 0, good |-> FALSE]
Seen == [ino : Nat, stamp : Nat, good : BOOLEAN]

TypeOK ==
    /\ disk \in [File -> 0 .. Cardinality(DOMAIN inode)]
    /\ \A i \in DOMAIN inode : inode[i] \in [stamp : 0 .. clock, good : BOOLEAN]
    /\ dir \in 0 .. clock /\ clock \in 0 .. MaxChange
    /\ pc \in Steps /\ at \in File \cup {None} /\ open \in {None} \cup DOMAIN inode
    /\ noted \in [File \cup {None} -> Seen] /\ kept \in [File \cup {None} -> Seen]
    /\ found \in [File -> BOOLEAN]

Listed == {f \in Entry : disk[f] # None}
First(S) == CHOOSE f \in S : \A g \in S : f <= g
After(f) == {g \in Listed : g > f}

\* The identity and the bytes at a path now; None stands for the directory.
Look(f) == IF f = None THEN [ino |-> 0, stamp |-> dir, good |-> TRUE]
           ELSE IF disk[f] = None THEN Nothing
           ELSE [ino |-> disk[f], stamp |-> inode[disk[f]].stamp, good |-> inode[disk[f]].good]

Same(a, b) == a.ino = b.ino /\ a.stamp = b.stamp

Init ==
    /\ \E good \in [File -> BOOLEAN] :
         inode = [i \in 1 .. Cardinality(File) |-> [stamp |-> 0, good |->
                    good[CHOOSE f \in File : IF f = Model THEN i = Cardinality(File)
                                             ELSE Cardinality({g \in Entry : g <= f}) = i]]]
    /\ disk = [f \in File |-> IF f = Model THEN Cardinality(File)
                              ELSE Cardinality({g \in Entry : g <= f})]
    /\ dir = 0 /\ clock = 0
    /\ pc = "list" /\ at = None /\ open = None
    /\ noted = [f \in File \cup {None} |-> Nothing] /\ kept = noted
    /\ found = [f \in File |-> FALSE]

-----------------------------------------------------------------------------
(* Somebody else changes the files                                         *)

Write(f, good) ==
    /\ clock < MaxChange /\ disk[f] # None
    /\ clock' = clock + 1
    /\ inode' = [inode EXCEPT ![disk[f]] = [stamp |-> clock + 1, good |-> good]]
    /\ UNCHANGED <<disk, dir, scan>>

NewInode(good) == LET n == Cardinality(DOMAIN inode) IN
    [i \in 1 .. n + 1 |-> IF i <= n THEN inode[i] ELSE [stamp |-> clock + 1, good |-> good]]

Replace(f, good) ==
    /\ clock < MaxChange
    /\ clock' = clock + 1
    /\ inode' = NewInode(good)
    /\ disk' = [disk EXCEPT ![f] = Cardinality(DOMAIN inode) + 1]
    /\ dir' = IF f = Model THEN dir ELSE clock + 1
    /\ UNCHANGED scan

Remove(f) ==
    /\ clock < MaxChange /\ disk[f] # None
    /\ clock' = clock + 1
    /\ disk' = [disk EXCEPT ![f] = None]
    /\ dir' = IF f = Model THEN dir ELSE clock + 1
    /\ UNCHANGED <<inode, scan>>

-----------------------------------------------------------------------------
(* observe_directory: the scan, each entry hashed, then the scan again     *)

Go(step) == pc' = step
Fail == pc' = "failed" /\ UNCHANGED <<at, open, noted, kept, found, files>>
Hold == UNCHANGED <<kept, found, files>>

\* The next entry, or what follows the last one.
Onward(step, last) ==
    IF After(at) # {} THEN Go(step) /\ at' = First(After(at)) ELSE Go(last) /\ at' = None

List ==
    /\ pc = "list"
    /\ noted' = [noted EXCEPT ![None] = Look(None)] /\ UNCHANGED open /\ Hold
    /\ IF Listed = {} THEN Go("again") /\ at' = None ELSE Go("stat") /\ at' = First(Listed)

Stat ==
    /\ pc = "stat"
    /\ \/ Look(at) = Nothing /\ Fail
       \/ /\ Look(at) # Nothing
          /\ noted' = [noted EXCEPT ![at] = [Look(at) EXCEPT !.good = FALSE]]
          /\ Go("open") /\ UNCHANGED <<at, open>> /\ Hold

Open ==
    /\ pc = "open"
    /\ \/ ~Same(Look(at), noted[at]) /\ Fail
       \/ /\ Same(Look(at), noted[at])
          /\ open' = disk[at] /\ Go("read") /\ UNCHANGED <<at, noted>> /\ Hold

\* The bytes are those of the inode held open, wherever the path leads now.
Read ==
    /\ pc = "read"
    /\ noted' = [noted EXCEPT ![at].good = inode[open].good]
    /\ Go("recheck") /\ UNCHANGED <<at, open>> /\ Hold

Recheck ==
    /\ pc = "recheck"
    /\ \/ ~Same(Look(at), noted[at]) /\ Fail
       \/ Same(Look(at), noted[at]) /\ Onward("stat", "again") /\ UNCHANGED <<open, noted>> /\ Hold

\* snapshot_directory: a second scan, whose entries must equal the first's.
Again ==
    /\ pc = "again"
    /\ \/ (~Same(Look(None), noted[None]) \/ Listed = {}) /\ Fail
       \/ /\ Same(Look(None), noted[None]) /\ Listed # {}
          /\ Go("restat") /\ at' = First(Listed) /\ UNCHANGED <<open, noted>> /\ Hold

Agrees(f) == Same(Look(f), noted[f]) /\ Look(f).good = noted[f].good

\* The manifest commits to every expected name and its bytes.
Expected == Listed = Entry /\ \A f \in Entry : noted[f].good

Restat ==
    /\ pc = "restat"
    /\ \/ (~Agrees(at) \/ (After(at) = {} /\ ~(Same(Look(None), noted[None]) /\ Expected))) /\ Fail
       \/ /\ Agrees(at) /\ After(at) # {}
          /\ at' = First(After(at)) /\ UNCHANGED <<pc, open, noted>> /\ Hold
       \/ /\ Agrees(at) /\ After(at) = {} /\ Same(Look(None), noted[None]) /\ Expected
          /\ kept' = [f \in File \cup {None} |-> IF f = Model THEN Nothing ELSE noted[f]]
          /\ Go("model") /\ at' = Model /\ UNCHANGED <<open, noted, found, files>>

-----------------------------------------------------------------------------
(* verify_file: the model                                                  *)

VerifyStat ==
    /\ pc = "model"
    /\ \/ Look(Model) = Nothing /\ Fail
       \/ /\ Look(Model) # Nothing
          /\ noted' = [noted EXCEPT ![Model] = [Look(Model) EXCEPT !.good = FALSE]]
          /\ Go("hash") /\ UNCHANGED <<at, open>> /\ Hold

VerifyOpen ==
    /\ pc = "hash"
    /\ \/ disk[Model] # noted[Model].ino /\ Fail
       \/ /\ disk[Model] = noted[Model].ino
          /\ open' = disk[Model] /\ Go("digest") /\ UNCHANGED <<at, noted>> /\ Hold

VerifyHash ==
    /\ pc = "digest"
    /\ \/ ~inode[open].good /\ Fail
       \/ /\ inode[open].good
          /\ noted' = [noted EXCEPT ![Model].good = TRUE]
          /\ Go("after") /\ UNCHANGED <<at, open>> /\ Hold

\* Mutant: the identity kept is the one after the hash.
KeepLast == kept' = [kept EXCEPT ![Model] = Look(Model)]

KeepFirst == kept' = [kept EXCEPT ![Model] = noted[Model]]

\* Inode and size must agree; times are not compared here.
VerifyAfter ==
    /\ pc = "after"
    /\ \/ disk[Model] # open /\ Fail
       \/ /\ disk[Model] = open
          /\ KeepFirst /\ Go("confirm dir") /\ at' = None
          /\ UNCHANGED <<open, noted, found, files>>

-----------------------------------------------------------------------------
(* confirm_unchanged, at a launch                                          *)

Confirmable(f) == disk[f] # None /\ Same(Look(f), kept[f])

ConfirmDirectory ==
    /\ pc = "confirm dir"
    /\ \/ ~(Same(Look(None), kept[None]) /\ Listed = Entry) /\ Fail
       \/ /\ Same(Look(None), kept[None]) /\ Listed = Entry
          /\ Go("confirm") /\ at' = First(Entry)
          /\ UNCHANGED <<open, noted, kept, found, files>>

Confirm ==
    /\ pc = "confirm"
    /\ \/ ~Confirmable(at) /\ Fail
       \/ /\ Confirmable(at)
          /\ found' = [found EXCEPT ![at] = Look(at).good]
          /\ \/ at = Model /\ Go("confirmed") /\ UNCHANGED at
             \/ at # Model /\ UNCHANGED pc /\ at' = IF \E g \in Entry : g > at
                    THEN First({g \in Entry : g > at}) ELSE Model
          /\ UNCHANGED <<open, noted, kept, files>>

\* Every start confirms again what was verified once.
ConfirmLater ==
    /\ pc = "confirmed" /\ Go("confirm dir") /\ at' = None
    /\ found' = [f \in File |-> FALSE] /\ UNCHANGED <<open, noted, kept, files>>

Verify ==
    \/ List \/ Stat \/ Open \/ Read \/ Recheck \/ Again \/ Restat
    \/ VerifyStat \/ VerifyOpen \/ VerifyHash \/ VerifyAfter
    \/ ConfirmDirectory \/ Confirm

Change == \E f \in File : Remove(f) \/ \E good \in BOOLEAN : Write(f, good) \/ Replace(f, good)

Next == Verify \/ ConfirmLater \/ Change

Spec == Init /\ [][Next]_vars

-----------------------------------------------------------------------------
(* Properties                                                              *)

\* A confirmation vouches for bytes: each object that it found unchanged had,
\* when it looked, the bytes the expected digest names, although it read none
\* and a write may have come at any moment since the hash began.
ConfirmedBytes == pc = "confirmed" => \A f \in File : found[f]

\* Files that are right and that nobody touches are never refused.
UntouchedPasses ==
    clock = 0 /\ (\A i \in DOMAIN inode : inode[i].good) => pc # "failed"

=============================================================================
