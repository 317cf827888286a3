----------------------------- MODULE MCRevision -----------------------------
(* Small instances of Revision for TLC. *)
EXTENDS Revision

CONSTANTS s1, s2, w1, w2
=============================================================================
