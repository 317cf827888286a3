\* One session asking for alternatives and lists.
SPECIFICATION Spec
CHECK_DEADLOCK FALSE
CONSTANTS
    s1 = s1
    s2 = s2
    a1 = a1
    a2 = a2
    c1 = c1
    c2 = c2
    Sid = {s1}
    Conn = {c1, c2}
    App = {a1, a2}
    ConnOf <- OneConn
    AppOf <- OneApp
    Slots = 1
    MaxCoord = 1
    MaxGen = 4
    MaxOffer = 2
    MaxEpoch = 0
    Alternatives = {"show", "generate", "list"}
    Blockable = {}
    Granters = {c1}
INVARIANTS BoundOffers OneAuthority
PROPERTY OffersSpec
