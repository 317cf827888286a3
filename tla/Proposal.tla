------------------------------ MODULE Proposal ------------------------------
(***************************************************************************)
(* One request of the engine to the writing provider                       *)
(* (broker/src/semantic/client.rs: propose_outcome, alternative,           *)
(* alternative_words): what answers without the model, which calls to the  *)
(* model the rest takes, all within one writing budget, and what of the    *)
(* answers is returned.  Module Answers decides on the texts, variables    *)
(* read and weighed hold what it decides; module Stream reads one streamed *)
(* answer: a call here ends in what that leaves.                           *)
(*                                                                         *)
(* Cancellation and the clock run beside the request.  Error kinds other   *)
(* than cancellation are one; counts for the debug trace are left out.     *)
(***************************************************************************)
EXTENDS Answers

CONSTANTS
    Asks,        \* the requests the engine makes
    Observed,    \* what a streamed call leaves
    Firsts,      \* lists of the model's first tokens, best first
    Suggestions, \* lists of words a dictionary suggests
    MaxTries,    \* ALTERNATIVE_ATTEMPTS
    MaxListed,   \* MAX_ALTERNATIVE_LIST_WORDS
    MaxPrefer    \* bound: changes of the language preferences

\* Texts are texts; the bounds are numbers.
ASSUME ProposalAssumption ==
    /\ \A a \in Asks : /\ {a.before, a.after} \cup a.vocabulary \subseteq Seq(Symbol)
                      /\ a.kind \in {"propose", "alternative", "words"}
    /\ \A seen \in Observed : {seen.output, seen.raw} \subseteq Seq(Symbol)
    /\ Firsts \cup Suggestions \subseteq Seq(Seq(Symbol)) /\ <<>> \in Firsts
    /\ {MaxShown, MaxTries, MaxListed, MaxChosen} \subseteq Nat

\* writing_budget_abstention: nothing was shown.
OutOfBudget == [end |-> "abstained", output |-> None, raw |-> None, first |-> None]

Seens == Observed \cup {OutOfBudget}
FirstTokens == UNION {ToSet(list) : list \in Firsts}

\* What module Answers decides on the request alone.
Decided(a) == [valid |-> Valid(a), eligible |-> Eligible(a), plan |-> PlanOf(a),
    unhealed |-> UnhealedFor(a), vocabulary |-> VocabularyFor(a),
    corrects |-> MayCorrect(a), target |-> Locate(a)]

\* ... and on every answer to it.
Weighed(a, word, echo) == [
    single |-> IF a.spelling = "en" THEN Unambiguous(word) ELSE None,
    few |-> [list \in Suggestions |-> IF word = None THEN <<>> ELSE PlausibleFew(word, list)],
    shown |-> [seen \in Seens |-> Shown(a, seen)],
    wanted |-> [list \in Firsts |-> Wanted(a, echo, list)],
    grows |-> [t \in FirstTokens |-> [seen \in Seens |-> Grown(a, echo, t \o seen.output)]]]

VARIABLES
    ask,       \* the request: its text and what it wants
    read,      \* what its text decides
    weighed,   \* and what each answer comes to
    pc,        \* where it is: at a call, or between them
    away,      \* whether the call was sent
    plan,      \* the prompt and echo of the call
    tokens,    \* first tokens not yet tried
    tries,     \* how many were
    token,     \* the one that is continued
    words,     \* words listed
    choices,   \* the dictionary's candidates
    on,        \* whether the language is on in the preferences
    prefers,   \* how often that changed
    everOn,    \* whether it was on at any time since the request began
    cancelled,
    late,      \* the writing budget has ended
    sent,      \* calls made
    result

vars == <<ask, read, weighed, pc, away, plan, tokens, tries, token, words, choices, on, prefers, everOn,
          cancelled, late, sent, result>>
work == <<plan, tokens, tries, token, words, choices>>
clock == <<on, prefers, everOn, cancelled, late>>

Pending == [kind |-> "pending"]
Listed(list) == [kind |-> "list", list |-> list]

Calls == {"spell", "choose", "continue", "finish", "tokens", "follow"}
NoPlan == Healed(<<>>, None, FALSE)

Finish(r) == /\ result' = r /\ pc' = "done" /\ away' = FALSE
             /\ UNCHANGED <<ask, read, weighed, work, clock, sent>>

Go(to, p) == /\ pc' = to /\ plan' = p /\ away' = FALSE
             /\ UNCHANGED <<ask, read, weighed, tokens, tries, token, words, choices, clock, sent, result>>

-----------------------------------------------------------------------------
(* A proposal                                                              *)

Corrected(word) == Offer(word \o read.target.delimiter, read.target.word \o read.target.delimiter)

\* complete_observed_started, up to its call; a language turned off is never
\* sent to the model.
Continue ==
    IF ~read.valid THEN Finish(Nothing("unavailable"))
    ELSE IF ~read.eligible \/ ~on \/ SendsNothing(read.plan) THEN Finish(Nothing("abstained"))
    ELSE Go("continue", read.plan)

Spelled(word) == IF cancelled THEN Finish(Nothing("cancelled"))
                 ELSE IF word # None THEN Finish(Corrected(word)) ELSE Continue

Begin ==
    /\ pc = "begin" /\ ask.kind = "propose"
    /\ IF cancelled THEN Finish(Nothing("cancelled"))
       ELSE IF on /\ read.vocabulary # None THEN Finish(Offer(read.vocabulary, None))
       ELSE IF ~read.corrects \/ read.target.word = None THEN Continue
       ELSE IF ask.spelling = "dictionary" THEN Go("lookup", NoPlan)
       ELSE IF weighed.single # None THEN Spelled(weighed.single)
       ELSE Go("spell", NoPlan)

\* The dictionary looks for candidates on a thread of its own.
Lookup(list) ==
    /\ pc = "lookup"
    /\ LET few == weighed.few[list] IN
       IF Len(few) > 1
       THEN /\ choices' = few /\ pc' = "choose"
            /\ UNCHANGED <<ask, read, weighed, away, plan, tokens, tries, token, words, clock, sent, result>>
       ELSE Spelled(IF few = <<>> THEN None ELSE few[1])

\* What an answer to a spelling prompt or a continuation comes to; a checked
\* continuation whose word was finished is asked for once more.
Answered(seen) ==
    \/ pc = "spell" /\ Spelled(Respelled(read.target.word, Trimmed(seen.output)))
    \/ pc = "choose" /\ Spelled(Chosen(Trimmed(seen.raw), ToSet(choices)))
    \/ pc = "continue" /\ IF FinishedWord(plan, seen.first) THEN Go("finish", read.unhealed)
                          ELSE Finish(weighed.shown[seen])
    \/ pc = "finish" /\ Finish(weighed.shown[seen])

-----------------------------------------------------------------------------
(* Alternatives                                                            *)

\* alternative_candidates, up to its call.
BeginAlternative ==
    /\ pc = "begin" /\ ask.kind # "propose"
    /\ IF cancelled THEN Finish(Nothing("cancelled"))
       ELSE IF ~read.valid THEN Finish(Nothing("unavailable"))
       ELSE IF ~read.eligible \/ ~on \/ SendsNothing(read.plan)
       THEN Finish(IF ask.kind = "words" THEN Listed(<<>>) ELSE Nothing("abstained"))
       ELSE Go("tokens", read.plan)

\* The next token to continue, or the end of the search.
NextToken(rest, tried, listed) ==
    IF \/ rest = <<>>
       \/ ask.kind = "alternative" /\ tried = MaxTries
       \/ ask.kind = "words" /\ Len(listed) = MaxListed
    THEN /\ result' = IF ask.kind = "words" THEN Listed(listed) ELSE Nothing("abstained")
         /\ pc' = "done" /\ tokens' = rest /\ tries' = tried /\ words' = listed
         /\ away' = FALSE /\ UNCHANGED <<ask, read, weighed, plan, token, choices, clock, sent>>
    ELSE /\ pc' = "follow" /\ token' = rest[1] /\ tokens' = From(rest, 2)
         /\ tries' = tried + 1 /\ words' = listed
         /\ away' = FALSE /\ UNCHANGED <<ask, read, weighed, plan, choices, clock, sent, result>>

\* Mutant: the token's own word was checked, and that is taken to be enough.
FitsTokenOnly(text) == ask.desired # None => FirstRun(text) = ask.desired

\* The finished word is checked again: the token may have grown into one shown.
FitsAsk(text) == LET word == FirstRun(text) IN
    /\ word # None
    /\ IF ask.desired = None THEN word \notin ask.excluded ELSE word = ask.desired

\* One more word of the list, unless it is there or was shown.
ListedWith(word) ==
    IF word = None \/ word \in ask.excluded \/ word \in ToSet(words)
    THEN words ELSE Append(words, word)

Followed(seen) ==
    /\ pc = "follow"
    /\ \E grown \in weighed.grows[token][seen] :
       IF ask.kind = "words" THEN NextToken(tokens, tries, ListedWith(FirstRun(grown.text)))
       ELSE IF grown.text # None /\ FitsAsk(grown.text) THEN Finish(grown.offer)
       ELSE NextToken(tokens, tries, words)

-----------------------------------------------------------------------------
(* Calls                                                                   *)

Handle(seen) == Answered(seen) \/ Followed(seen)
HandleTokens(list) == pc = "tokens" /\ NextToken(weighed.wanted[list], 0, <<>>)

\* A request that ends early; of a list, the words found so far are kept.
Stop(why) ==
    Finish(IF pc = "follow" /\ ask.kind = "words" /\ words # <<>> THEN Listed(words) ELSE Nothing(why))

\* Mutant: each call of the request has a budget of its own.
SubmitLate ==
    /\ pc \in Calls /\ ~away /\ ~cancelled
    /\ away' = TRUE /\ sent' = sent + 1
    /\ UNCHANGED <<ask, read, weighed, pc, work, clock, result>>

\* complete_inner, first_token_candidates: nothing is sent once cancelled, nor
\* after the budget, which all calls of the request share.
Submit ==
    /\ pc \in Calls /\ ~away /\ ~cancelled /\ ~late
    /\ away' = TRUE /\ sent' = sent + 1
    /\ UNCHANGED <<ask, read, weighed, pc, work, clock, result>>

\* Mutant: a call that was not sent is left alone.
OutOfTimeSent ==
    /\ pc \in Calls /\ away /\ ~cancelled /\ late
    /\ HandleTokens(<<>>) \/ Handle(OutOfBudget)

\* The budget's end answers a call, sent or not, with nothing.
OutOfTime ==
    /\ pc \in Calls /\ ~cancelled /\ late
    /\ HandleTokens(<<>>) \/ Handle(OutOfBudget)

\* An answer counts only while the request stands; one that the budget cuts
\* has what was shown until then.
Reply(seen) == away /\ ~cancelled /\ Handle(seen)
ReplyTokens(list) == away /\ ~cancelled /\ HandleTokens(list)

\* The call fails, or outlasts the budget and its grace.
Fails == (away \/ pc = "lookup") /\ ~cancelled /\ Stop("unavailable")

Cancelled == cancelled /\ pc \in Calls /\ Stop("cancelled")

-----------------------------------------------------------------------------
(* The engine, the person and the clock                                    *)

Init ==
    /\ ask \in Asks /\ read = Decided(ask)
    /\ weighed = Weighed(ask, read.target.word, read.plan.echo) /\ pc = "idle" /\ away = FALSE /\ plan = NoPlan
    /\ tokens = <<>> /\ tries = 0 /\ token = <<>> /\ words = <<>> /\ choices = <<>>
    /\ on \in BOOLEAN /\ prefers = 0 /\ everOn = FALSE
    /\ cancelled = FALSE /\ late = FALSE /\ sent = 0 /\ result = Pending

Request == /\ pc = "idle" /\ pc' = "begin" /\ everOn' = on
           /\ UNCHANGED <<ask, read, weighed, away, work, on, prefers, cancelled, late, sent, result>>

Cancel == /\ pc # "done" /\ ~cancelled /\ cancelled' = TRUE
          /\ UNCHANGED <<ask, read, weighed, pc, away, work, on, prefers, everOn, late, sent, result>>

BudgetEnds == /\ pc \notin {"idle", "done"} /\ ~late /\ late' = TRUE
              /\ UNCHANGED <<ask, read, weighed, pc, away, work, on, prefers, everOn, cancelled, sent, result>>

\* set_language_preferences, from a change of the settings at any time.
Prefer == /\ pc # "done" /\ prefers < MaxPrefer
          /\ prefers' = prefers + 1 /\ on' = ~on /\ everOn' = (everOn \/ ~on)
          /\ UNCHANGED <<ask, read, weighed, pc, away, work, cancelled, late, sent, result>>

Next ==
    \/ Request \/ Cancel \/ BudgetEnds \/ Prefer
    \/ Begin \/ BeginAlternative \/ Submit \/ OutOfTime \/ Fails \/ Cancelled
    \/ \E list \in Suggestions : Lookup(list)
    \/ \E list \in Firsts : ReplyTokens(list)
    \/ \E seen \in Observed : Reply(seen)

Spec == Init /\ [][Next]_vars

Waitless == Begin \/ BeginAlternative \/ Cancelled \/ OutOfTime \/ \E list \in Suggestions : Lookup(list)

\* The clock runs, what is ready is taken, and a dictionary answers.
FairSpec == Spec /\ WF_vars(BudgetEnds) /\ WF_vars(Waitless)

-----------------------------------------------------------------------------
(* Properties                                                              *)

TypeOK ==
    /\ pc \in Calls \cup {"idle", "begin", "lookup", "done"} /\ away \in BOOLEAN
    /\ away => pc \in Calls
    /\ pc = "follow" => IsPrefix(plan.echo, token) /\ Len(token) > Len(plan.echo)
    /\ ask.kind = "alternative" => tries <= MaxTries
    /\ Len(choices) <= MaxChosen
    /\ (result = Pending) <=> (pc # "done")

Proposed == result.kind = "proposal"
Replaced(text) == Part(ask.before, 1, Len(ask.before) - Len(text))

\* A correction replaces what the field ends in, and nothing but the last
\* word: the word put in its place is known, and keeps the space after it.
CorrectionFits == Proposed /\ result.replaces # None =>
    /\ ask.replaces /\ ask.after = <<>> /\ IsSuffix(result.replaces, ask.before)
    /\ LastWord(ask.before) = TrimEnd(result.replaces)
    /\ TrimEnd(result.text) \in IF ask.spelling = "en" THEN Lexicon ELSE UNION {ToSet(l) : l \in Suggestions}
    /\ Ends(result.replaces, {Blank}) <=> Ends(result.text, {Blank})
    /\ TrimEnd(result.replaces) \notin IF ask.spelling = "en" THEN Lexicon ELSE DictWords

\* Text that is inserted, whichever of the calls it came from, reads well at
\* the caret, states no number the draft lacks, and is not the text after it.
InsertionFits == Proposed /\ result.replaces = None =>
    /\ SuggestionShape(ask.before, ask.after, result.text)
    /\ ~CaretInsideWord(ask.before, ask.after) /\ ~Some(result.text, Markup \cup {"\n"})
    /\ DigitRuns(result.text) \subseteq DigitRuns(ask.before)
    /\ ask.kind # "propose" => LineRest(ask.after) = None

\* An alternative is new: once its first token has grown into a word, that
\* word is still none the person was shown, and a pick is the word picked.
AlternativeNew == Proposed /\ ask.kind = "alternative" =>
    IF ask.desired = None THEN FirstRun(result.text) \notin ask.excluded
    ELSE FirstRun(result.text) = ask.desired

\* A list names no word twice and none the person was shown, whatever tokens
\* the words grew from.
ListDistinct == result.kind = "list" =>
    /\ IsInjective(result.list) /\ Len(result.list) <= MaxListed
    /\ None \notin ToSet(result.list) /\ ToSet(result.list) \cap ask.excluded = {}

\* Words found are not lost: a failure or a cancelled request after them still
\* lists them.
WordsKept == ask.kind = "words" /\ words # <<>> /\ pc = "done" =>
    result.kind = "list" /\ ToSet(words) \subseteq ToSet(result.list)

\* A language that was off while the request ran sends nothing but spelling,
\* and nothing is inserted in it.
OffLanguageSilent == pc # "idle" /\ ~everOn =>
    /\ away => pc \in {"spell", "choose"}
    /\ ~(Proposed /\ result.replaces = None)

\* The calls of one request share its budget: however many it takes, none is
\* made once the budget has ended or the request was cancelled.
OneBudget == [][sent' # sent => ~late /\ ~cancelled]_vars

\* Every request is answered, though the model may never answer.
Answers == pc = "begin" ~> pc = "done"

=============================================================================
