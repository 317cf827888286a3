------------------------------ MODULE MCTexts ------------------------------
(* Three parts that share no state: Drafts, the text rules over every short   *)
(* draft; Proposal, one request and its calls, with the same words; and the   *)
(* hello of a policy client whose epochs outrun its queue (Authority), which  *)
(* a client needs before it may ask.  `part' says which one a behaviour is    *)
(* about.                                                                     *)
EXTENDS Proposal, Drafts

VARIABLES
    part,
    paused, condition, settings, memory, disk, job, absent, sharing, grace, focus,
    snoozes, alarms, reached, live, ctx, registered, heard, place, handling, queue,
    lagged, told

hello == <<paused, condition, settings, memory, disk, job, absent, sharing, grace,
           focus, snoozes, alarms, reached, live, ctx, registered, heard, place,
           handling, queue, lagged, told>>
all == <<part, vars, draft, hello>>

-----------------------------------------------------------------------------
(* Requests                                                                *)

MCLexicon == {<<"a", "b">>, <<"a", "b", "b">>, <<"b", "b">>, <<"b", "a", "a">>, <<"a", "b", "a">>, <<"a", "b", "b", "a">>}
MCFunctionWords == {<<"b", "b">>}

Text(kind, typed, next) ==
    [kind |-> kind, before |-> typed, after |-> next, language |-> "en", spelling |-> "en",
     explicit |-> FALSE, replaces |-> TRUE, context |-> FALSE, vocabulary |-> {}, heals |-> TRUE,
     newWord |-> FALSE, excluded |-> {}, desired |-> None]

Proposes ==
    \* a corrected word, one that is still typed, one to heal, one before text
    {Text("propose", b, <<>>) : b \in {<<"b", "b", "b", "a">>, <<"a", "a", "a", " ">>,
        <<"b", "b", " ", "a", "b">>, <<"b", "b", " ", "b">>, <<"b", "1", " ">>}}
    \cup {Text("propose", <<"b", "b", " ", "a">>, a) :
             a \in {<<" ", "b", "b">>, <<"b">>, <<".">>, <<".", "a", " ", "b">>}}
    \cup {[Text("propose", <<"b", "b", " ", "b", "a">>, <<>>) EXCEPT
             !.context = TRUE, !.vocabulary = {<<"b", "a", "a">>}]}
    \cup {[Text("propose", b, <<>>) EXCEPT !.language = "de", !.spelling = "dictionary", !.explicit = e] :
             b \in {<<"a", "a", "a">>, <<"b", "b", " ">>, <<"b", "b", " ", "a", "a", " ">>}, e \in BOOLEAN}
    \cup {[Text("propose", <<"a", "a", "a", " ">>, <<>>) EXCEPT !.language = l] : l \in {"bad", "pl"}}

AlternativeAsks ==
    {[Text("alternative", b, a) EXCEPT !.excluded = {<<"a", "b">>}, !.newWord = n] :
        b \in {<<"b", "b", " ", "a">>, <<"b", "b">>}, a \in {<<>>, <<" ", "a">>}, n \in BOOLEAN}
    \cup {[Text("alternative", <<"b", "b", " ">>, <<>>) EXCEPT !.desired = w] :
             w \in {<<"a", "b", "b">>, <<"b", "b">>}}
    \cup {[Text("words", b, <<>>) EXCEPT !.excluded = {<<"b", "b">>}] :
             b \in {<<"b", "b", " ">>, <<"b", "b", " ", "b">>}}

MCAsks == Proposes \cup AlternativeAsks

Seen(output, raw, first) == [end |-> "suggested", output |-> output, raw |-> raw, first |-> first]

\* Answers: a word's rest, a word, a number, a word and a second one, the word
\* a correction names, nothing, and what is no output.
MCObserved ==
    {Seen(o, o, f) : o \in {<<"b">>, <<"b", "b">>, <<" ", "a", "b">>, <<" ", "b", "1">>, <<"b", " ", "b", "b">>, <<"a", "b", "a">>},
                     f \in {<<"a">>, <<" ", "a", "b", "b">>}}
    \* the line comes back up to the mark, and up to the word after it
    \cup {Seen(o, o, None) : o \in {<<"b", " ", "b", "b", ".", "b">>, <<"b", " ", "b", "b", ".", "a", " ", "b">>}}
    \cup {Seen(None, <<"b", "b", "a", ".">>, None), [Seen(None, None, None) EXCEPT !.end = "invalid"]}

\* A word of which a part after a mark is missing, before the whole word.
JoinedAsks == {[Text("propose", <<"b", "b", " ", "a">>, <<" ", "a", ".", "b">>) EXCEPT !.language = l] : l \in WritingLanguages}
JoinedObserved == {Seen(<<".", "b", " ", "a", ".", "b">>, <<".", "b", " ", "a", ".", "b">>, None)}

MCFirsts == {<<>>,
    <<<<" ", "a">>, <<" ", "b", "b">>, <<" ", "a", "b">>>>,
    <<<<" ", "b">>, <<" ", "b", "b">>, <<" ", "1">>, <<" ", "a", "b">>, <<"<">>, <<" ", "a">>>>,
    <<<<" ", "a">>, <<" ", "a", "b">>, <<" ", "a", "b", "b">>>>,
    <<<<"b">>, <<"a">>, <<"b", "a">>>>}

MCSuggestions == {<<>>, <<<<"a", "b", "a">>>>,
    <<<<"b", "b">>, <<"b", "a", "b">>, <<"a", "b", "b">>, <<"a", "a", "b">>, <<"a", "b">>, <<"a", "a", "a", "a">>>>}
MCDictWords == {<<"b", "b">>}


-----------------------------------------------------------------------------
(* The parts                                                               *)

H == INSTANCE Authority WITH
    Conn <- {1}, Policy <- {1}, Helper <- {}, Editor <- {}, Sid <- {1, 2},
    App <- {1, 2}, ConnOf <- <<1, 1>>, AppOf <- <<1, 2>>, Native <- {},
    Docs <- {[paused |-> FALSE, share |-> "hold", allow |-> {1, 2}]},
    Capacity <- 2, MaxEpoch <- 5, MaxAlarm <- 0, MaxRev <- 0,
    away <- absent, epoch <- reached, acked <- heard, pc <- place, request <- handling

\* Longer drafts: a mark, a word of one letter and another one stand after the
\* caret, and the answer reaches some of them again.
LongInit == \E x, y \in Letter, mark \in Mark :
    /\ before \in {<<>>, <<x>>, <<Blank>>}
    /\ after \in {<<mark, x, Blank, y>>, <<Blank, mark, Blank, x, Blank, y>>}
    /\ text \in {<<y, mark, y>>, <<y, mark, x, y>>, <<y, mark, x, Blank, y>>,
          <<y, mark, x, Blank, y, y>>, <<y, Blank, y, mark, y>>, <<y, Blank, mark, Blank, y>>,
          <<y, Blank, y, mark, x, Blank, y>>, <<y, Blank, mark, Blank, x, Blank, y>>}

Off == "off"
NoRequest ==
    /\ ask = Off /\ read = Off /\ weighed = Off /\ pc = Off /\ away = Off
    /\ plan = Off /\ tokens = Off /\ tries = Off /\ token = Off /\ words = Off
    /\ choices = Off /\ on = Off /\ prefers = Off /\ everOn = Off /\ cancelled = Off
    /\ late = Off /\ sent = Off /\ result = Off
NoHello ==
    /\ paused = Off /\ condition = Off /\ settings = Off /\ memory = Off /\ disk = Off
    /\ job = Off /\ absent = Off /\ sharing = Off /\ grace = Off /\ focus = Off
    /\ snoozes = Off /\ alarms = Off /\ reached = Off /\ live = Off /\ ctx = Off
    /\ registered = Off /\ heard = Off /\ place = Off /\ handling = Off /\ queue = Off
    /\ lagged = Off /\ told = Off
NoDraft == before = Off /\ after = Off /\ text = Off

AllInit ==
    \/ part = "request" /\ Init /\ NoDraft /\ NoHello
    \/ part = "draft" /\ (DraftInit \/ LongInit) /\ NoRequest /\ NoHello
    \/ part = "hello" /\ H!Init /\ NoDraft /\ NoRequest

Asking == part = "request" /\ UNCHANGED <<part, draft, hello>>
Drafting == part = "draft" /\ UNCHANGED <<part, vars, hello>>
Greeting == part = "hello" /\ UNCHANGED <<part, vars, draft>>

AllNext == (Asking /\ Next) \/ (Drafting /\ DraftNext) \/ (Greeting /\ H!Next)

AllSpec ==
    /\ AllInit /\ [][AllNext]_all
    /\ WF_all(Asking /\ BudgetEnds) /\ WF_all(Asking /\ Waitless)
    /\ WF_all(Greeting /\ \E kept \in BOOLEAN : H!Handle(1, kept))
    /\ SF_all(Greeting /\ \E sending \in BOOLEAN : H!Forward(1, sending))
    /\ SF_all(Greeting /\ 1 \in lagged /\ H!EndLoop(1))
    /\ WF_all(Greeting /\ H!Leave(1))

-----------------------------------------------------------------------------

\* What a request answers fits the draft, is new, keeps what was found, and
\* respects the language that is off.
RequestRight == part = "request" =>
    /\ TypeOK /\ CorrectionFits /\ InsertionFits /\ AlternativeNew
    /\ ListDistinct /\ WordsKept /\ OffLanguageSilent

\* What the text rules let pass reads well, the echo is exact, the lookup and
\* the notions of an edit agree, and a completion is the only reading.
DraftRight == part = "draft" =>
    /\ DraftTyped /\ ProposalReads /\ EchoExact /\ LookupExact
    /\ EditsAgree /\ OneReading

\* An insertion never finishes the typed word into the first word of the line
\* it is put in, which it would repeat (writing.rs:225).
FinishNeverRepeats == part = "request" =>
    (Proposed /\ result.replaces = None /\ LineRest(ask.after) # None =>
        Stem(ask.before) = <<>> \/ Stem(ask.before) \o result.text # FirstWord(LineRest(ask.after)))

\* No call is sent after the budget or the cancellation (writing.rs), and a
\* prompt only grows while its window stays, so that its cache is reused.
StepsRight ==
    /\ [][part = "request" /\ sent' # sent => ~late /\ ~cancelled]_all
    /\ PromptExtends

\* Every request is answered, though the model may never answer, and every
\* client learns the epoch in force or is gone.
AnswerComes ==
    /\ (part = "request" /\ pc = "begin") ~> (part = "request" /\ pc = "done")
    /\ (part = "hello" /\ place[1] = "up" /\ told[1] # reached)
           ~> (part = "hello" /\ (told[1] = reached \/ place[1] # "up"))
=============================================================================
