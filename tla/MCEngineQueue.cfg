\* One session on a connection whose event queue may fill.
SPECIFICATION FairSpec
CHECK_DEADLOCK FALSE
CONSTANTS
    s1 = s1
    s2 = s2
    a1 = a1
    a2 = a2
    c1 = c1
    c2 = c2
    Sid = {s1}
    Conn = {c1, c2}
    App = {a1, a2}
    ConnOf <- OneConn
    AppOf <- OneApp
    Slots = 1
    MaxCoord = 2
    MaxGen = 3
    MaxOffer = 1
    MaxEpoch = 0
    Alternatives = {}
    Blockable = {c1}
    Granters = {c1}
INVARIANT BeliefsHold
PROPERTY HoldsEnd
