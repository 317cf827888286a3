------------------------------- MODULE MCHabits -------------------------------
(* What the broker counts of a user's habits, in two parts that share no      *)
(* state: Learned, the words; Usage, what was shown and accepted. `part' says *)
(* which one a behaviour is about; the variables of the other stay.           *)
EXTENDS Learned

VARIABLES
    part,
    grants, installed, countQueue, countsUsable, days, dirty, countFile, date,
    latest, level, carried, happened, counted, saved, torn, countsAsked, countFaults

counts == <<grants, installed, countQueue, countsUsable, days, dirty, countFile, date,
            latest, level, carried, happened, counted, saved, torn, countsAsked,
            countFaults>>
all == <<part, learnedVars, counts>>

\* A field of each of two subjects, and one visit, word and subject that is
\* remembered: context goes off for subject a, or everywhere, and on again.
MCSubjectOf == [f |-> "a", g |-> "b"]
Rule(on, off) == [on |-> on, off |-> off, paused |-> FALSE]
MCFirst == Rule(TRUE, {})
MCRules == {MCFirst, Rule(TRUE, {"a"}), Rule(FALSE, {})}
MCTexts == {{1}, {1, 2}}

\* What Usage takes, by names of its own where Learned has the same.
CONSTANTS
    Place, Consents, Given, Term, Week, DayLimit, NameLimit, MinShown, Lowest, Low, High,
    Earlier, MaxEvent, MaxCommit, MaxLocalDay, MaxAsk, MaxFailure

\* Identities are ordered as numbers are, rates tighten in steps, and what a
\* broker before counted fits a day.
ASSUME UsageAssumption ==
    /\ IsFiniteSet(Place) /\ Place \subseteq Nat
    /\ Term \in Nat \ {0} /\ Week \in Nat \ {0} /\ MinShown \in Nat \ {0}
    /\ DayLimit \in Nat /\ NameLimit \in Nat
    /\ {Lowest, Low, High} \subseteq Nat /\ Lowest <= Low /\ Low <= High
    /\ Earlier \in Seq(Place) /\ Cardinality({Earlier[i] : i \in DOMAIN Earlier}) <= DayLimit
    /\ {MaxEvent, MaxCommit, MaxLocalDay, MaxAsk, MaxFailure} \subseteq Nat

U == INSTANCE Usage WITH
    Subject <- Place, Grants <- Consents, First <- Given, Retention <- Term,
    SubjectLimit <- DayLimit, MaxRev <- MaxCommit, MaxDay <- MaxLocalDay,
    MaxFault <- MaxFailure,
    engine <- installed, queue <- countQueue, usable <- countsUsable,
    file <- countFile, today <- date, events <- happened, asked <- countsAsked,
    faults <- countFaults

\* Two subjects, of which a day names one, two suggestions shown before and
\* two events more.
MCConsents == {{1, 2}, {2}}
MCEarlier == <<1, 1>>

-----------------------------------------------------------------------------

Off == "off"
NoCounts ==
    /\ grants = Off /\ installed = Off /\ countQueue = Off /\ countsUsable = Off
    /\ days = Off /\ dirty = Off /\ countFile = Off /\ date = Off /\ latest = Off
    /\ level = Off /\ carried = Off /\ happened = Off /\ counted = Off /\ saved = Off
    /\ torn = Off /\ countsAsked = Off /\ countFaults = Off

AllInit ==
    \/ part = "words" /\ Init /\ NoCounts
    \/ part = "counts" /\ Init /\ U!Init

AllNext ==
    /\ UNCHANGED part
    /\ \/ part = "words" /\ Next /\ UNCHANGED counts
       \/ part = "counts" /\ U!Next /\ UNCHANGED learnedVars

AllSpec == AllInit /\ [][AllNext]_all

\* The counts are exact and survive a flush, a summary names the leaders, and
\* the engine is quieted only with a cause (stats.rs, engine/quietness.rs).
CountsKept == part = "counts" => U!UsageSafe
=============================================================================
