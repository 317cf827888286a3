------------------------------- MODULE Words -------------------------------
(***************************************************************************)
(* What the broker does with text: which part of a model's answer may be   *)
(* shown (broker/src/writing.rs, segment.rs), where a prompt is cut and    *)
(* what of it the model must echo, what finishes a typed word              *)
(* (vocabulary.rs) and what corrects one.                                  *)
(*                                                                         *)
(* Abstractions.  A text is a sequence of the symbols below, each standing *)
(* for its class: the letters of the one script a lexicon has, lower case; *)
(* a digit; space and line break; a mark that ends a sentence and one that *)
(* only closes a clause; markup that is never shown.  Joiners, combining   *)
(* marks, other scripts and letter case are left out.                      *)
(***************************************************************************)
EXTENDS Naturals, Sequences, FiniteSets, SequencesExt

CONSTANTS
    Lexicon,    \* the words of data/writing-lexicon/en.txt
    MaxChars,   \* MAX_SUGGESTION_CHARS
    MaxWords,   \* MAX_SUGGESTION_WORDS
    MinHealed,  \* letters of the shortest word healed (2)
    MinFixed,   \* letters of the shortest word corrected (3)
    MaxWordLen, \* letters of the longest of either (24)
    ShortWord,  \* letters of a word that comes back by chance (3)
    Window,     \* CONTEXT_WINDOW_SCALARS
    CutStep,    \* CONTEXT_CUT_STEP_SCALARS
    MinContext, \* MIN_SENTENCE_CONTEXT_WORDS
    MinStem     \* MIN_STEM_SCALARS

Blank == " "
Letter == {"a", "b"}
Digit == {"1"}
Space == {Blank, "\n"}
Mark == {".", "!"}
Markup == {"<"}
Symbol == Letter \cup Digit \cup Space \cup Mark \cup Markup
Alnum == Letter \cup Digit

ASSUME WordsAssumption ==
    /\ IsFiniteSet(Lexicon) /\ Lexicon \subseteq Seq(Letter) \ {<<>>}
    /\ {MaxChars, MaxWords, MinHealed, MinFixed, MaxWordLen, ShortWord, Window,
        CutStep, MinContext, MinStem} \subseteq Nat \ {0}

-----------------------------------------------------------------------------
(* Words of a text                                                         *)

Greatest(S) == CHOOSE n \in S : \A m \in S : m <= n
Least(S) == CHOOSE n \in S : \A m \in S : n <= m

Nth(S, n) == CHOOSE e \in S : Cardinality({d \in S : d <= e}) = n

\* The members of a list that are in S, in their order.
Select(list, S) == LET kept == {i \in DOMAIN list : list[i] \in S}
                   IN [n \in 1 .. Cardinality(kept) |-> list[Nth(kept, n)]]

None == <<>> \* no text: what is shown is never empty
Part(t, i, j) == SubSeq(t, i, j)
From(t, i) == SubSeq(t, i, Len(t))
Some(t, S) == \E i \in DOMAIN t : t[i] \in S
Only(t, S) == \A i \in DOMAIN t : t[i] \in S
Starts(t, S) == t # <<>> /\ t[1] \in S
Ends(t, S) == t # <<>> /\ t[Len(t)] \in S

\* A dot inside a word belongs to it, as UAX #29 has it.
InWord(t, i) == i \in DOMAIN t /\
    \/ t[i] \in Alnum
    \/ t[i] = "." /\ i - 1 \in DOMAIN t /\ i + 1 \in DOMAIN t
       /\ \E S \in {Letter, Digit} : {t[i - 1], t[i + 1]} \subseteq S

Spans(t) == (1 .. Len(t)) \X (1 .. Len(t))

WordSpans(t) == {s \in Spans(t) :
    /\ s[1] <= s[2] /\ \A k \in s[1] .. s[2] : InWord(t, k)
    /\ ~InWord(t, s[1] - 1) /\ ~InWord(t, s[2] + 1)}

Span(t, s) == Part(t, s[1], s[2])
FirstSpan(t) == CHOOSE s \in WordSpans(t) : \A r \in WordSpans(t) : s[1] <= r[1]
LastSpan(t) == CHOOSE s \in WordSpans(t) : \A r \in WordSpans(t) : s[1] >= r[1]
FirstWord(t) == IF WordSpans(t) = {} THEN None ELSE Span(t, FirstSpan(t))
LastWord(t) == IF WordSpans(t) = {} THEN None ELSE Span(t, LastSpan(t))

TrimStart(t) == From(t, Least({i \in 1 .. Len(t) + 1 : i > Len(t) \/ t[i] \notin Space}))
TrimEnd(t) == Part(t, 1, Greatest({0} \cup {i \in DOMAIN t : t[i] \notin Space}))
TrimSpaces(t) == Part(t, 1, Greatest({0} \cup {i \in DOMAIN t : t[i] # Blank}))

\* The letters a text ends in, as rsplit at a non-letter gives them.
Stem(t) == From(t, 1 + Greatest({0} \cup {i \in DOMAIN t : t[i] \notin Letter}))
Opening(t) == Part(t, 1, Least({i \in 1 .. Len(t) + 1 : i > Len(t) \/ t[i] \notin Letter}) - 1)

\* The last whitespace-separated run, if the text ends in it.
Typed(t) == From(t, 1 + Greatest({0} \cup {i \in DOMAIN t : t[i] \in Space}))

-----------------------------------------------------------------------------
(* Which part of an answer may be shown                                    *)

InvalidSpacing(t) == Some(t, Space \ {Blank})
    \/ \E i \in 1 .. Len(t) - 1 : t[i] = Blank /\ t[i + 1] = Blank

Sanitary(t) ==
    /\ Some(t, Symbol \ Space) /\ ~InvalidSpacing(t)
    /\ Len(t) <= MaxChars /\ Cardinality(WordSpans(t)) <= MaxWords

\* spaced_words: the runs between spaces that hold a word, by their end.
WordRuns(t) == {e \in DOMAIN t : t[e] # Blank /\ (e = Len(t) \/ t[e + 1] = Blank)
    /\ \E s \in WordSpans(t) : s[2] <= e /\ \A k \in s[2] .. e : t[k] # Blank}
RunWordEnd(t, e) == Greatest({s[2] : s \in {r \in WordSpans(t) : r[2] <= e}})

LastSpace(t) == Greatest({0} \cup {i \in DOMAIN t : t[i] = Blank})
CompleteRuns(t, finished) == {e \in WordRuns(t) : finished \/ e < LastSpace(t)}

CompleteWordPrefix(raw, limit, finished) ==
    LET complete == CompleteRuns(raw, finished)
        all == Cardinality(complete)
        count == IF all < limit THEN all ELSE limit
        shown == IF finished /\ count = all THEN TrimEnd(raw)
                 ELSE Part(raw, 1, RunWordEnd(raw, Nth(complete, count)))
    IN IF \/ Some(raw, Markup \cup {"\n"})
          \/ all = 0 \/ (~finished /\ all < limit)
       THEN None
       ELSE IF Sanitary(shown) THEN shown ELSE None

AvailableCompleteWords(raw, limit) ==
    LET all == Cardinality(CompleteRuns(raw, FALSE))
        count == IF all < limit THEN all ELSE limit
    IN IF count = 0 THEN None ELSE CompleteWordPrefix(raw, count, FALSE)

NeedsSeparator(left, right) == left \in Alnum /\ right \in Alnum

BoundarySuffix(value, candidate) ==
    /\ IsSuffix(candidate, value)
    /\ LET start == Len(value) - Len(candidate) IN
       start = 0 \/ value[start] \notin Alnum \/ candidate[1] \notin Alnum

BoundaryPrefix(value, candidate) ==
    /\ IsPrefix(candidate, value)
    /\ LET rest == From(value, Len(candidate) + 1) IN
       rest = <<>> \/ ~Ends(candidate, Alnum) \/ rest[1] \notin Alnum

RepeatsBefore(before, text) ==
    Ends(before, Alnum) /\ FirstWord(text) # None /\ LastWord(before) = FirstWord(text)

RepeatsAfter(after, text) ==
    /\ Ends(text, Alnum) /\ Starts(TrimStart(after), Alnum)
    /\ LastWord(text) = FirstWord(after)

CompletionShape(before, after, text, suffix) ==
    /\ text # <<>> /\ ~(before = <<>> /\ text[1] \in Space)
    /\ ~InvalidSpacing(text)
    /\ ~(Ends(before, {Blank}) /\ text[1] = Blank)
    /\ before # <<>> => suffix \/ ~NeedsSeparator(Last(before), text[1])
    /\ after # <<>> => ~NeedsSeparator(Last(text), after[1])
    /\ LET candidate == TrimStart(text) IN
         /\ candidate # <<>>
         /\ ~BoundarySuffix(TrimEnd(before), candidate)
         /\ ~BoundaryPrefix(TrimStart(after), candidate)
    /\ ~RepeatsBefore(before, text) /\ ~RepeatsAfter(after, text)
    /\ Last(text) = Blank => Starts(after, Alnum)
         /\ (Ends(before, Space) \/ (suffix /\ Ends(before, Alnum) /\ text[1] \in Alnum))

SuggestionShape(before, after, text) ==
    CompletionShape(before, after, text,
        ~Starts(after, Alnum) /\ Ends(before, Letter) /\ Starts(text, Letter))

Known(word) == word \in Lexicon

ValidateProposal(before, after, text) ==
    /\ SuggestionShape(before, after, text)
    /\ Ends(before, Letter) /\ Starts(text, Letter) => Known(LastWord(before) \o FirstWord(text))

CaretInsideWord(before, after) == Ends(before, Alnum) /\ Starts(after, Alnum)

\* The rest of the caret's line, None when it is blank.
LineRest(after) ==
    LET line == Part(after, 1, Least({i \in 1 .. Len(after) + 1 :
                                        i > Len(after) \/ after[i] = "\n"}) - 1)
    IN IF Only(line, Space) THEN None ELSE line

WordFollowsCaret(after) == Starts(TrimStart(LineRest(after)), Alnum)

\* What a continuation reproduces of the line: its first word or mark, and the
\* word after it too when the first is short. The code compares lengths in
\* bytes, so a mark before a one-letter word counts as that word does.
LineHead(line) ==
    LET start == Len(line) - Len(TrimStart(line))
        spans == {s \in WordSpans(line) : s[1] > start}
        first == CHOOSE s \in spans : \A r \in spans : s[1] <= r[1]
        later == {s \in spans : \E r \in spans : r[1] < s[1]}
        second == CHOOSE s \in later : \A r \in later : s[1] <= r[1]
        end == IF line[start + 1] \in Alnum THEN first[2] ELSE start + 1
        length == first[2] - first[1] + 1
    IN IF later # {} /\ end - start = length /\ length <= ShortWord
       THEN Part(line, 1, second[2]) ELSE Part(line, 1, end)

\* Where the continuation meets the line again, at a word boundary.
Rejoins(head, text) == {i \in 2 .. Len(text) :
    /\ i + Len(head) - 1 <= Len(text) /\ Part(text, i, i + Len(head) - 1) = head
    /\ (text[i - 1] \in Space) <=> (head[1] \in Alnum)
    /\ ~Starts(From(text, i + Len(head)), Alnum)}

\* Mutant: whatever the line begins with.
FitsAny(before, line, insertion) == insertion

Fits(before, line, insertion) ==
    LET repeats == Stem(before) # <<>> /\ Only(insertion, Letter)
                   /\ FirstWord(line) = Stem(before) \o insertion
    IN IF repeats THEN None ELSE insertion

MidLineInsertion(before, line, text) ==
    LET rejoin == Rejoins(LineHead(line), text)
        closed == TrimEnd(text)
        phrase == Part(closed, 1, Len(closed) - 1)
    IN IF rejoin # {} THEN Fits(before, line, Part(text, 1, Least(rejoin) - 1))
       ELSE IF Starts(TrimStart(line), Mark) /\ Ends(closed, Mark) /\ Ends(phrase, Alnum) THEN phrase
       ELSE IF Opening(text) # <<>> /\ Ends(before, Letter) THEN Fits(before, line, Opening(text))
       ELSE None

DigitRuns(t) == {Part(t, s[1], s[2]) : s \in {r \in Spans(t) :
    /\ r[1] <= r[2] /\ \A k \in r[1] .. r[2] : t[k] \in Digit
    /\ (r[1] - 1 \in DOMAIN t => t[r[1] - 1] \notin Digit)
    /\ (r[2] + 1 \in DOMAIN t => t[r[2] + 1] \notin Digit)}}

UnsupportedFact(context, text) ==
    \/ Len(text) > 1 /\ Ends(text, {"."}) /\ text[Len(text) - 1] \in Digit
    \/ ~(DigitRuns(text) \subseteq DigitRuns(context))

\* accept_word: how much of a suggestion one word acceptance takes.
AcceptedLen(text) ==
    LET lead == Len(text) - Len(TrimStart(text))
        tail == From(text, lead + 1)
        part == IF Starts(tail, Alnum) THEN FirstSpan(tail)[2] ELSE IF tail = <<>> THEN 0 ELSE 1
    IN IF From(text, lead + part + 1) = <<Blank>> THEN Len(text) ELSE lead + part

=============================================================================
