------------------------------ MODULE MCServing ------------------------------
(* The server's connections in two parts that share no state: one connection  *)
(* with all it may meet, and a pair that competes for the one permit and asks *)
(* nothing.  `part' says which one a behaviour is about.                      *)
EXTENDS Serving

CONSTANTS c1, c2

VARIABLE part

all == <<part, vars>>

-----------------------------------------------------------------------------

Hello(v, kind, caps) ==
    [type |-> "hello", id |-> 0, min |-> v, max |-> v, kind |-> kind, caps |-> caps]
\* A desktop adapter, a control tool, and one that asks for what it may not.
MCHellos == {Hello(2, "fcitx", <<"context", "suggestion", "policy", "health">>),
             Hello(2, "cli", <<"health", "settings">>),
             Hello(2, "fcitx", <<"context", "editor_focus">>)}

Request(type, sid, sound) ==
    [v |-> 2, type |-> type, sid |-> sid, action |-> "none", sound |-> sound]
MCRequests == {Request("session.open", "s", TRUE), Request("session.close", "s", TRUE),
               Request("health.request", NoSid, TRUE),
               Request("health.request", "s", TRUE)}

P == INSTANCE Serving WITH MaxSent <- 0, MaxEvents <- 0, MaxEpoch <- 1

-----------------------------------------------------------------------------

AllInit == part \in {"one", "pair"} /\ Init

One == part = "one" /\ UNCHANGED part
Pair == part = "pair" /\ UNCHANGED part

AllNext == (One /\ Next /\ peer'[c2] = "absent") \/ (Pair /\ P!Next)

AllSpec ==
    /\ AllInit /\ [][AllNext]_all
    /\ WF_all(One /\ Stops) /\ WF_all(One /\ Passes(c1)) /\ WF_all(One /\ Tasks(c1))
    /\ WF_all(One /\ \E ok \in BOOLEAN : Run(c1, ok))
    /\ SF_all(One /\ (TakeEnd(c1) \/ TakeRequest(c1))) /\ SF_all(One /\ EndLoop(c1))

-----------------------------------------------------------------------------

\* Every request is answered, the stop ends, and permits return.
ServingEnds ==
    /\ \A i \in 1 .. MaxSent :
        (part = "one" /\ Asked(c1, i)) ~> (part = "one" /\ Satisfied(c1, i))
    /\ (part = "one" /\ Stopping) ~> (part = "one" /\ AllStopped)
    /\ (part = "one" /\ HoldsIdly(c1)) ~> (part = "one" /\ GivesBack(c1))
=============================================================================
