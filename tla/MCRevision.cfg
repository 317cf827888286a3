\* One session that asks for synonyms twice.
SPECIFICATION FairSpec
CHECK_DEADLOCK FALSE
CONSTANTS
    s1 = s1
    s2 = s2
    w1 = w1
    w2 = w2
    Sid = {s1}
    Asks = {"synonyms"}
    Sel = {1}
    Word = {w1}
    MaxShown = 2
    MaxCoord = 2
    MaxRev = 2
    MaxProc = 1
INVARIANTS ScreenSafe CallsSafe
PROPERTIES SynonymFresh AllEnd
