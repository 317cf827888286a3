------------------------------ MODULE Answers ------------------------------
(***************************************************************************)
(* What a request to the writing provider comes to, one answer of the      *)
(* model at a time (broker/src/semantic/client.rs): which prompt it is,    *)
(* whether a call is needed at all, and what of an answer is returned.     *)
(* A request is a record: its kind, the text before and after the caret,   *)
(* the language and the spelling that applies, what the engine allows, and *)
(* for an alternative the words not wanted or the one that is.             *)
(***************************************************************************)
EXTENDS Prompts

CONSTANTS
    DictWords, \* the words the dictionary knows
    MaxShown,  \* words of the length setting
    MaxChosen  \* MAX_CANDIDATES of a dictionary

Offer(text, replaces) == [kind |-> "proposal", text |-> text, replaces |-> replaces]
Nothing(why) == [kind |-> why]

WritingLanguages == {"en", "de"}

\* validate_request: the wire's bounds hold, so only a bad tag is invalid.
Valid(a) == a.language # "bad"
Eligible(a) ==
    /\ a.language \in WritingLanguages /\ a.before # <<>>
    /\ ~CaretInsideWord(a.before, a.after)

\* completion_plan: spaces are healed in a healed language, words in English.
PlanFor(a) ==
    LET context == InferenceContext(a.before)
        trimmed == TrimSpaces(context)
    IN IF a.language = "en" THEN HealedBoundary(context, a.heals)
       ELSE IF a.heals /\ trimmed # context
       THEN Healed(trimmed, Echo(context, Len(trimmed)), FALSE)
       ELSE Healed(context, None, FALSE)

\* finished_word, next_word_plan: the context as it is.
UnhealedFor(a) == Healed(InferenceContext(a.before), None, FALSE)

\* accepts_output of a Latin language.
Accepts(text) ==
    /\ ~Ends(text, Space) /\ Some(text, Letter)
    /\ Only(text, Letter \cup Digit \cup Mark \cup {Blank})

FirstRun(text) ==
    LET t == TrimStart(text)
        run == Part(t, 1, Least({i \in 1 .. Len(t) + 1 : i > Len(t) \/ t[i] \in Space}) - 1)
    IN Part(run, 1, Greatest({0} \cup {i \in DOMAIN run : run[i] \in Alnum}))

-----------------------------------------------------------------------------
(* A proposal                                                              *)

\* The local answer: the word the writer's own words finish.
VocabularyFor(a) ==
    IF a.context /\ Eligible(a) THEN VocabularyCompletion(a.before, a.after, a.vocabulary) ELSE None

MayCorrect(a) == a.replaces /\ a.after = <<>> /\ a.before # <<>> /\ Valid(a)

\* Mutant: a word is looked up while it is typed.
LocateTyped(a) ==
    LET dict == DictionaryTarget(a.before) IN
    IF a.spelling = "en" THEN CorrectionTarget(a.before)
    ELSE IF a.spelling = "dictionary" /\ dict # None
    THEN [word |-> dict, delimiter |-> IF Ends(a.before, {Blank}) THEN <<Blank>> ELSE <<>>]
    ELSE [word |-> None, delimiter |-> <<>>]

\* What is misspelled: the English rule's word, or one the dictionary lacks,
\* which is checked while it is typed only when asked for.
Locate(a) ==
    LET dict == DictionaryTarget(a.before) IN
    IF a.spelling = "en" THEN CorrectionTarget(a.before)
    ELSE IF /\ a.spelling = "dictionary" /\ dict # None
            /\ (Ends(a.before, {Blank}) \/ a.explicit)
            /\ dict \notin DictWords
    THEN [word |-> dict, delimiter |-> IF Ends(a.before, {Blank}) THEN <<Blank>> ELSE <<>>]
    ELSE [word |-> None, delimiter |-> <<>>]

PlanOf(a) == IF a.newWord THEN UnhealedFor(a) ELSE PlanFor(a)

\* Candidates of the dictionary that are close enough: some, in its order.
PlausibleFew(word, list) ==
    LET close == Select(list, {w \in ToSet(list) : Plausible(word, w)})
    IN Part(close, 1, Least({Len(close), MaxChosen}))

\* Where the answer goes: into the line, or at its end.
Placed(a, text) ==
    LET line == LineRest(a.after)
        shown == IF line = None THEN text ELSE MidLineInsertion(a.before, line, text)
    IN IF shown # None /\ ValidateProposal(a.before, a.after, shown)
       THEN Offer(shown, None) ELSE Nothing("abstained")

Passes(a, text) == text # None /\ Accepts(text) /\ ~UnsupportedFact(a.before, text)

\* What a continuation's answer comes to.
Shown(a, seen) ==
    IF seen.end = "invalid" THEN Nothing("unavailable")
    ELSE IF Passes(a, seen.output) THEN Placed(a, seen.output) ELSE Nothing("abstained")

Trimmed(text) == TrimStart(TrimEnd(text))

\* The word an answer to a spelling prompt gives, if it is one.
Respelled(word, answer) == IF ValidCorrection(word, answer) THEN answer ELSE None

-----------------------------------------------------------------------------
(* Alternatives                                                            *)

Fragment(echo, t) == From(t, Len(echo) + 1)

\* Tokens worth continuing: past the echo, showable, no word already shown.
Admissible(a, echo, t) ==
    /\ IsPrefix(echo, t) /\ t # echo
    /\ ~Some(t, Markup \cup {"\n"}) /\ (Some(a.before, Digit) \/ ~Some(t, Digit))
    /\ LET word == FirstRun(Fragment(echo, t)) IN word = None \/ word \notin a.excluded

\* ... and, for a pick, that can still become its word.
Becomes(a, echo, t) ==
    LET fragment == Trimmed(Fragment(echo, t)) IN
    \/ a.desired = None
    \/ fragment # <<>> /\ (FirstRun(fragment) = a.desired \/ IsPrefix(fragment, a.desired))

Wanted(a, echo, list) ==
    Select(list, {t \in ToSet(list) :
        Admissible(a, echo, t) /\ (a.kind = "words" \/ Becomes(a, echo, t))})

\* The token and what the model made of it, complete words only.
Composed(a, echo, t) == CompleteWordPrefix(Fragment(echo, t), IF a.kind = "words" THEN 1 ELSE MaxShown, TRUE)

\* An alternative ends the line, is of the language, and reads like any other.
OfferedAlternative(a, text) ==
    IF /\ LineRest(a.after) = None /\ Accepts(text)
       /\ ~UnsupportedFact(a.before, text) /\ ValidateProposal(a.before, a.after, text)
    THEN Offer(text, None) ELSE Nothing("abstained")

\* The text an alternative has, and what it comes to.
Grown(a, echo, t) ==
    {[text |-> text, offer |-> IF text = None THEN Nothing("abstained") ELSE OfferedAlternative(a, text)] :
        text \in {Composed(a, echo, t)}}

=============================================================================
