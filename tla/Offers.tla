-------------------------------- MODULE Offers --------------------------------
(***************************************************************************)
(* What the broker promises about suggestions, whatever its sessions do:   *)
(* each session has one slot; a suggestion enters it once, is granted at   *)
(* most once and only while it is the one shown there, and never returns.  *)
(* Engine implements this (broker/README.md, "Binding").                   *)
(***************************************************************************)
EXTENDS Naturals

CONSTANTS Sid, Ids

VARIABLES
    slot, \* what each session offers
    used  \* suggestions shown so far

Empty == [held |-> "nothing", id |-> 0]
Slot == [held : {"shown", "granted"}, id : Ids] \cup {Empty}

Init ==
    /\ slot = [s \in Sid |-> Empty]
    /\ used = {}

\* A new suggestion takes the slot, withdrawing what was there.
Show(s, i) ==
    /\ i \in Ids \ used
    /\ used' = used \cup {i}
    /\ slot' = [slot EXCEPT ![s] = [held |-> "shown", id |-> i]]

\* The suggestion shown is accepted.
Grant(s) ==
    /\ slot[s].held = "shown"
    /\ slot' = [slot EXCEPT ![s].held = "granted"]
    /\ UNCHANGED used

\* Some sessions lose what they hold.
End(S) ==
    /\ slot' = [s \in Sid |-> IF s \in S THEN Empty ELSE slot[s]]
    /\ UNCHANGED used

Next ==
    \/ \E s \in Sid : Grant(s) \/ \E i \in Ids : Show(s, i)
    \/ \E S \in SUBSET Sid : End(S)

Spec == Init /\ [][Next]_<<slot, used>>

=============================================================================
