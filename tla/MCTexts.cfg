\* Drafts of seven symbols, or of one with a text of three after it and an answer of three, and longer ones
\* before a line led by a mark; thirty requests.
SPECIFICATION AllSpec
CHECK_DEADLOCK FALSE
CONSTANTS
    Lexicon <- MCLexicon
    FunctionWords <- MCFunctionWords
    MaxChars = 9 MaxWords = 3 MinHealed = 2 MinFixed = 3 MaxWordLen = 5 ShortWord = 1
    Window = 4 CutStep = 2 MinContext = 2 MinStem = 2
    Asks <- MCAsks
    Observed <- MCObserved
    Firsts <- MCFirsts
    Suggestions <- MCSuggestions
    DictWords <- MCDictWords
    MaxShown = 2 MaxTries = 2 MaxListed = 2 MaxChosen = 3 MaxPrefer = 1
    MaxDraft = 7 MaxJoined = 1 MaxAfter = 3 MaxAnswer = 3
    Alphabet = {"a", "b", " ", "."}
INVARIANTS RequestRight DraftRight
PROPERTIES StepsRight AnswerComes
