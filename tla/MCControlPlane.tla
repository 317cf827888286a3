--------------------------- MODULE MCControlPlane ---------------------------
(* Two documents over two sites. Under Keeping the records of site a are     *)
(* durable for one day and those of site b live in memory only; under        *)
(* Reduced site a lives in memory only too and site b is not learned.        *)
(* Keeping to Reduced is a strict reduction, the way back a grant.           *)
EXTENDS ControlPlane

MCSubject == {"a", "b"}
Days(a, b) == [s \in MCSubject |-> IF s = "a" THEN a ELSE b]
Keeping == [paused |-> FALSE, style |-> TRUE, learn |-> {"a", "b"}, days |-> Days(1, 0)]
Reduced == [paused |-> FALSE, style |-> TRUE, learn |-> {"a"}, days |-> Days(0, 0)]
MCDocs == {Keeping, Reduced}
=============================================================================
