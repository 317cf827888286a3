------------------------------- MODULE Drafts -------------------------------
(***************************************************************************)
(* A draft as it is written, symbol by symbol, the text that stands after  *)
(* the caret and an answer of the model, with what Words and Prompts make  *)
(* of them at every step.                                                  *)
(***************************************************************************)
EXTENDS Prompts

CONSTANTS
    MaxDraft,  \* bound: symbols before the caret
    MaxJoined, \* bound: symbols before it where something else stands too
    MaxAfter,  \* bound: symbols after it
    MaxAnswer, \* bound: symbols of an answer
    Alphabet   \* symbols used

ASSUME DraftsAssumption == Alphabet \subseteq Symbol

VARIABLES before, after, text

draft == <<before, after, text>>

DraftTyped ==
    /\ before \in Seq(Symbol) /\ after \in Seq(Symbol) /\ text \in Seq(Symbol)
    /\ Len(InferenceContext(before)) < Window + CutStep

DraftInit == before = <<>> /\ after = <<>> /\ text = <<>>

Write(c) ==
    /\ after = <<>> /\ text = <<>> /\ Len(before) < MaxDraft
    /\ before' = Append(before, c) /\ UNCHANGED <<after, text>>

Follow(c) ==
    /\ text = <<>> /\ Len(before) <= MaxJoined /\ Len(after) < MaxAfter
    /\ after' = Append(after, c) /\ UNCHANGED <<before, text>>

Answer(c) ==
    /\ Len(before) <= MaxJoined /\ Len(text) < MaxAnswer
    /\ text' = Append(text, c) /\ UNCHANGED <<before, after>>

DraftNext == \E c \in Alphabet : Write(c) \/ Follow(c) \/ Answer(c)

-----------------------------------------------------------------------------
(* Properties                                                              *)

\* What would be shown of the answer at this caret.
DraftInsertion == IF LineRest(after) = None THEN text
            ELSE MidLineInsertion(before, LineRest(after), text)

\* A proposal that passes reads well where it joins: it doubles no space, it
\* fuses with the typed word only to a known one and with the text after it
\* never, and unless a mark may join it to what is typed, it does not end in the
\* word that comes next on the line.
ProposalReads ==
    DraftInsertion # None /\ ValidateProposal(before, after, DraftInsertion) =>
      LET p == DraftInsertion
          joined == before \o p
      IN /\ ~(Ends(before, {Blank}) /\ Starts(p, {Blank})) /\ ~(Ends(p, {Blank}) /\ Starts(after, {Blank}))
         /\ ~(Ends(p, Alnum) /\ Starts(after, Alnum))
         /\ Ends(before, Letter) /\ Starts(p, Letter) =>
              LastWord(before) \o FirstWord(p) \in Lexicon
         /\ /\ LineRest(after) # None /\ Ends(p, Alnum) /\ Starts(TrimStart(after), Alnum)
            /\ ~Ends(before, Mark) /\ ~Starts(p, Mark)
            => LastWord(joined) # FirstWord(after)

\* However the prompt is healed, it and its echo are the context: what an
\* answer adds to the echo continues the text exactly where the caret is.
EchoExact == \A heals \in BOOLEAN :
    LET context == InferenceContext(before)
        plan == HealedBoundary(context, heals)
    IN SendsNothing(plan) \/ plan.prompt \o plan.echo = context

\* The bisection of the embedded lexicon finds what a search of the whole
\* list would: the least word not below the target.
LookupExact == Only(before, Letter) /\ before # <<>> =>
    LET above == {w \in Lexicon : w = before \/ Below(before, w)}
    IN IF above = {} THEN FirstFrom(before) = None
       ELSE FirstFrom(before) \in above /\ \A w \in above : ~Below(w, FirstFrom(before))

\* The two notions of a small edit agree: what the English rule takes for one
\* edit is at distance one by the dictionaries' table, and the reverse.
EditsAgree == Only(before, Letter) /\ Only(text, Letter) /\ before # text =>
    (OneEdit(before, text) <=> EditDistance(before, text) = 1)

\* A word that finishes the typed letters without asking the model is the only
\* reading: whichever fitting word the writer means, these letters come next.
OneReading == LET rest == VocabularyCompletion(before, <<>>, Lexicon) IN
    rest # None => \A w \in Candidates(before, Lexicon) : IsPrefix(Span(before, StemSpan(before)) \o rest, w)

WindowAt(t) == AtWord(t, CutScalars(Len(t)))

\* While a sentence grows within a step, each prompt extends the one before: the
\* runtime reuses what it has evaluated, and the window moves in whole steps.
PromptExtends == [][
    /\ Len(before') = Len(before) + 1
    /\ Len(before') > Window => (Len(before') - Window) % CutStep # 0
    /\ Some(WindowAt(before), Space)
    /\ SentenceEnds(WindowAt(before)) = {} /\ SentenceEnds(WindowAt(before')) = {}
    => IsPrefix(InferenceContext(before), InferenceContext(before'))]_draft

=============================================================================
