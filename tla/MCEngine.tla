------------------------------ MODULE MCEngine ------------------------------
(* Small instances of Engine for TLC.                                      *)
EXTENDS Engine

CONSTANTS s1, s2, a1, a2, c1, c2

\* Every session in one app on one connection, as typing in one field does.
OneConn == [s \in Sid |-> c1]
OneApp == [s \in Sid |-> a1]

\* Two sessions of two adapters, in one app or in two.
TwoConns == [s \in Sid |-> IF s = s1 THEN c1 ELSE c2]
TwoApps == [s \in Sid |-> IF s = s1 THEN a1 ELSE a2]

=============================================================================
