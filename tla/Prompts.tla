------------------------------ MODULE Prompts ------------------------------
(***************************************************************************)
(* What is asked before a model is, and what it is asked: the correction   *)
(* of the last word (broker/src/writing.rs, spelling.rs), the word that    *)
(* the writer's own words finish (vocabulary.rs), and the prompt a         *)
(* continuation gets (writing.rs): its window, its healed boundary and the *)
(* echo the answer must begin with.  Texts are those of Words; English is  *)
(* the language, and the dictionaries of others are sets of candidates.    *)
(***************************************************************************)
EXTENDS Words

CONSTANT FunctionWords \* FUNCTION_WORDS: typed whole, they are finished

-----------------------------------------------------------------------------
(* The lexicon, looked up in place                                         *)

Order == [s \in Symbol |-> CASE s = "\n" -> 1 [] s = Blank -> 2 [] s = "!" -> 3 [] s = "." -> 4
                             [] s = "1" -> 5 [] s = "<" -> 6 [] s = "a" -> 7 [] OTHER -> 8]

\* The byte order of two words.
Below(s, t) ==
    \/ s # t /\ IsPrefix(s, t)
    \/ \E k \in DOMAIN s \cap DOMAIN t :
         Order[s[k]] < Order[t[k]] /\ \A j \in 1 .. k - 1 : s[j] = t[j]

\* The words in order, a line each.
Entry(i) == CHOOSE w \in Lexicon : Cardinality({v \in Lexicon : Below(v, w)}) = i - 1
LexiconText == FlattenSeq([i \in 1 .. Cardinality(Lexicon) |-> Append(Entry(i), "\n")])

LineAt(text, i) == Part(text, i, Least({j \in i .. Len(text) + 1 : j > Len(text) \/ text[j] = "\n"}) - 1)

\* The start of the line that holds the middle.
LineStart(text, low, middle) ==
    1 + Greatest({low - 1} \cup {i \in low .. middle - 1 : text[i] = "\n"})

\* The bisection over the text's positions p[1] .. p[2] - 1, both line starts.
Halved(text, target, p) ==
    LET start == LineStart(text, p[1], p[1] + (p[2] - p[1]) \div 2)
        line == LineAt(text, start)
    IN IF Below(line, target) THEN <<start + Len(line) + 1, p[2]>> ELSE <<p[1], start>>

FirstFrom(target) ==
    LET text == LexiconText
        place == 1 .. Len(text) + 1
        search[p \in place \X place] ==
          IF p[1] >= p[2] THEN p[1] ELSE search[Halved(text, target, p)]
        found == search[<<1, Len(text) + 1>>]
    IN IF found > Len(text) THEN None ELSE LineAt(text, found)

KnownWord(word) == word # None /\ FirstFrom(word) = word
WordPrefix(word) == FirstFrom(word) # None /\ IsPrefix(word, FirstFrom(word))
\* The first word above, when any extends it, is one that does.
BeginsLonger(word) == LET next == FirstFrom(Append(word, "\n")) IN next # None /\ IsPrefix(word, next)

-----------------------------------------------------------------------------
(* Corrections                                                             *)

Sized(word, least) == Len(word) \in least .. MaxWordLen

CorrectionWord(before) ==
    LET word == Typed(before) IN
    IF Sized(word, MinFixed) /\ Only(word, Letter) /\ ~KnownWord(word) /\ ~WordPrefix(word)
    THEN word ELSE None

\* The word, with the one space the writer may have put after it.
CorrectionTarget(before) ==
    LET spaced == Ends(before, {Blank})
        word == CorrectionWord(IF spaced THEN Front(before) ELSE before)
    IN [word |-> word, delimiter |-> IF spaced THEN <<Blank>> ELSE <<>>]

\* One insertion, deletion, substitution or swap of neighbours, by where the
\* two words first differ.
Mismatch(a, b) == Least({i \in 1 .. Len(a) + Len(b) + 1 :
    i > Len(a) \/ i > Len(b) \/ (i \in DOMAIN a \cap DOMAIN b /\ a[i] # b[i])})

\* Mutant: a swap is looked for without its tail.
OneEditLoose(a, b) == LET i == Mismatch(a, b) IN
    Len(a) = Len(b) /\ i < Len(a) /\ a[i] = b[i + 1] /\ a[i + 1] = b[i]

OneEdit(a, b) == LET i == Mismatch(a, b) IN
    \/ /\ Len(a) = Len(b)
       /\ \/ From(a, i + 1) = From(b, i + 1)
          \/ i < Len(a) /\ a[i] = b[i + 1] /\ a[i + 1] = b[i] /\ From(a, i + 2) = From(b, i + 2)
    \/ Len(b) = Len(a) + 1 /\ From(a, i) = From(b, i + 1)
    \/ Len(a) = Len(b) + 1 /\ From(a, i + 1) = From(b, i)

ValidCorrection(word, corrected) ==
    /\ word # corrected /\ ~KnownWord(word) /\ KnownWord(corrected)
    /\ word # None /\ word[1] = corrected[1]
    /\ Sized(corrected, MinFixed) /\ OneEdit(word, corrected)

\* The edits that are tried at a letter: without it, another, or swapped.
EditsAt(word, i) ==
    {Part(word, 1, i - 1) \o From(word, i + 1)}
    \cup {[word EXCEPT ![i] = c] : c \in Letter}
    \cup (IF i < Len(word) THEN {[word EXCEPT ![i] = word[i + 1], ![i + 1] = word[i]]} ELSE {})

WithLetter(word, i, c) == Part(word, 1, i) \o <<c>> \o From(word, i + 1)

\* They start at the second letter.
Edits(word) == (UNION {EditsAt(word, i) : i \in 2 .. Len(word)})
    \cup {WithLetter(word, i, c) : i \in 1 .. Len(word), c \in Letter}

Unambiguous(word) ==
    LET candidates == {c \in Edits(word) : ValidCorrection(word, c)} IN
    IF Sized(word, MinFixed) /\ ~KnownWord(word) /\ ~WordPrefix(word)
       /\ Cardinality(candidates) = 1
    THEN CHOOSE c \in candidates : TRUE ELSE None

\* spelling.rs edit_distance: a cell of the table, from those before it.
Cell(d, a, b, i, j) ==
    IF i = 0 THEN j ELSE IF j = 0 THEN i
    ELSE Least({d[<<i - 1, j>>] + 1, d[<<i, j - 1>>] + 1,
                d[<<i - 1, j - 1>>] + IF a[i] = b[j] THEN 0 ELSE 1}
               \cup IF i > 1 /\ j > 1 /\ a[i] = b[j - 1] /\ a[i - 1] = b[j]
                    THEN {d[<<i - 2, j - 2>>] + 1} ELSE {})

EditDistance(a, b) ==
    LET d[p \in (0 .. Len(a)) \X (0 .. Len(b))] == Cell(d, a, b, p[1], p[2])
    IN d[<<Len(a), Len(b)>>]

Plausible(word, candidate) ==
    /\ candidate # word /\ Sized(candidate, MinHealed) /\ Only(candidate, Letter)
    /\ word[1] = candidate[1] /\ EditDistance(word, candidate) <= 2

\* dictionary_target: the last word of letters after whitespace.
DictionaryTarget(before) ==
    LET context == IF Ends(before, {Blank}) THEN Front(before) ELSE before
        word == Stem(context)
        ahead == Part(context, 1, Len(context) - Len(word))
    IN IF Sized(word, MinHealed) /\ (ahead = <<>> \/ Ends(ahead, Space)) THEN word ELSE None

\* The candidate that the model's answer names, marks at its end aside.
Chosen(answer, candidates) ==
    LET bare == Part(answer, 1, Greatest({0} \cup {i \in DOMAIN answer : answer[i] \notin Mark}))
    IN IF bare \in candidates THEN bare ELSE None

-----------------------------------------------------------------------------
(* The writer's own words                                                  *)

Separator == Space \cup Mark

Bounded(text, s) ==
    /\ s[2] - s[1] + 1 \in MinStem + 1 .. MaxWordLen /\ Only(Span(text, s), Letter)
    /\ (s[1] = 1 \/ text[s[1] - 1] \in Separator)
    /\ (s[2] = Len(text) \/ text[s[2] + 1] \in Separator)

VocabularyWords(text) == {Span(text, s) : s \in {r \in WordSpans(text) : Bounded(text, r)}}

\* The words of a draft worth learning: none that is still being typed, nor
\* the first of a draft that the wire may have clipped.
WrittenWords(before, clipped) == {Span(before, s) : s \in {r \in WordSpans(before) :
    (r[1] > 1 \/ ~clipped) /\ r[2] < Len(before) /\ Bounded(before, r)}}

StemSpan(before) ==
    LET s == LastSpan(before) IN
    IF /\ WordSpans(before) # {} /\ s[1] > 1 /\ s[2] = Len(before)
       /\ Len(Span(before, s)) \in MinStem .. MaxWordLen - 1
       /\ before[s[1] - 1] \in Separator /\ Only(Span(before, s), Letter)
    THEN s ELSE None

\* Endings that only turn a finished word into another form of it.
Inflections == {<<"b">>}

Candidates(before, words) ==
    LET s == StemSpan(before)
        stem == Span(before, s)
        draft == Part(before, 1, s[1] - 1)
        drafted == {Span(draft, r) : r \in {q \in WordSpans(draft) : q[1] > 1 /\ Bounded(draft, q)}}
    IN {w \in words \cup drafted : Len(w) > Len(stem) /\ Len(w) <= MaxWordLen
                                    /\ IsPrefix(stem, w) /\ Only(w, Letter)}

BeginsAll(candidates) == {w \in candidates : \A v \in candidates : IsPrefix(w, v)}

\* complete(): the untyped rest of the one word that all others extend.
VocabularyCompletion(before, after, words) ==
    LET s == StemSpan(before)
        stem == Span(before, s)
        fitting == BeginsAll(Candidates(before, words))
        rest == From(CHOOSE w \in fitting : TRUE, Len(stem) + 1)
    IN IF \/ after # <<>> /\ after[1] \notin Separator
          \/ s = None
       THEN None
       ELSE IF \/ fitting = {}
               \/ KnownWord(stem) /\ (stem \in FunctionWords \/ rest \in Inflections)
               \/ ~Sanitary(rest) \/ ~SuggestionShape(before, after, rest)
       THEN None
       ELSE rest

-----------------------------------------------------------------------------
(* The prompt                                                              *)

ContextWords(text) == Cardinality({e \in DOMAIN text :
    /\ text[e] \notin Space /\ (e = Len(text) \/ text[e + 1] \in Space)
    /\ \E k \in 1 .. e : text[k] \in Alnum /\ \A j \in k .. e : text[j] \notin Space})

\* Mutant: a start that slides with every scalar.
CutSliding(length) == IF length <= Window THEN 0 ELSE length - Window

\* Scalars cut off the front: whole steps only.
CutScalars(length) == IF length <= Window THEN 0 ELSE ((length - Window) \div CutStep) * CutStep

\* The window from the cut, at a word; within it the last sentence that has
\* words enough.
AtWord(before, cut) ==
    LET window == From(before, cut + 1)
        spaces == {i \in DOMAIN window : window[i] \in Space}
    IN IF cut = 0 \/ before[cut] \in Space \/ spaces = {} THEN window
       ELSE From(window, Least(spaces) + 1)

SentenceEnds(window) == {i \in DOMAIN window :
    /\ \/ window[i] = "\n"
       \/ window[i] \in Mark /\ i < Len(window) /\ window[i + 1] \in Space
    /\ ContextWords(From(window, i + 1)) >= MinContext}

InferenceContext(before) ==
    LET window == AtWord(before, CutScalars(Len(before)))
    IN IF SentenceEnds(window) = {} THEN window
       ELSE TrimStart(From(window, Greatest(SentenceEnds(window)) + 1))

\* Words that the prompt ends in and that the answer writes again.
HealingPrefix(context) == LET word == Typed(context) IN
    IF Sized(word, MinHealed) /\ Only(word, Letter) /\ ~KnownWord(word) THEN word ELSE None

TypedLexiconWord(context) == LET word == Typed(context) IN
    IF Sized(word, MinHealed) /\ KnownWord(word) /\ BeginsLonger(word) THEN word ELSE None

\* Where the echo of the word that ends the trimmed context starts: at the
\* spaces before it.
EchoStart(context, word) ==
    LET start == Len(TrimSpaces(context)) - Len(word)
    IN Len(TrimSpaces(Part(context, 1, start)))

Healed(prompt, echo, checked) == [prompt |-> prompt, echo |-> echo, checked |-> checked]

Echo(context, start) == From(context, start + 1)

\* healed_boundary for English, healed or not.
HealedBoundary(context, heals) ==
    LET trimmed == TrimSpaces(context)
        partial == HealingPrefix(trimmed)
        whole == TypedLexiconWord(context)
        bare == context = trimmed
        cut(word) == EchoStart(context, word)
        spaces == IF heals /\ ~bare THEN Healed(trimmed, Echo(context, Len(trimmed)), FALSE)
                  ELSE Healed(context, None, FALSE)
    IN IF heals /\ partial # None /\ cut(partial) > 0
       THEN Healed(Part(context, 1, cut(partial)), Echo(context, cut(partial)), FALSE)
       ELSE IF heals /\ partial # None /\ bare THEN Healed(<<>>, None, FALSE)
       ELSE IF heals /\ bare /\ whole # None /\ cut(whole) > 0
       THEN Healed(Part(context, 1, cut(whole)), Echo(context, cut(whole)), TRUE)
       ELSE spaces

SendsNothing(plan) == Only(plan.prompt, Space) \/ Ends(plan.prompt, {Blank})

\* The grammar of an answer: the echo, then nothing that is never shown.
Admits(plan, digits, answer) ==
    /\ IsPrefix(plan.echo, answer)
    /\ \A i \in Len(plan.echo) + 1 .. Len(answer) :
         answer[i] \notin Markup \cup {"\n"} /\ (digits \/ answer[i] \notin Digit)

\* A checked answer whose first token is no extension of the word is asked
\* again with the word taken as finished.
FinishedWord(plan, first) == plan.checked /\ ~IsPrefix(plan.echo, first)

StripHealed(raw, echo) == IF IsPrefix(echo, raw) THEN From(raw, Len(echo) + 1) ELSE None

=============================================================================
