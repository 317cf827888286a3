----------------------------- MODULE MCAuthority -----------------------------
(* Small instances of Authority for TLC.                                   *)
EXTENDS Authority

CONSTANTS c1, c2, h1, h2, e1, s1, s2, a1, a2

\* Sessions s1 of c1 and, where there is one, s2 of c2, in a1 and a2.
Conns == [s \in Sid |-> IF s = s1 THEN c1 ELSE c2]
Apps == [s \in Sid |-> IF s = s1 THEN a1 ELSE a2]
OneConn == [s \in Sid |-> c1]

Plain == [paused |-> FALSE, share |-> "hold", allow |-> App]
Lenient == [paused |-> FALSE, share |-> "suggest", allow |-> App]

OneDoc == {Plain}
ShareDocs == {Plain, Lenient}

=============================================================================
