\* One session: leases, timers, holds, controls, type-through and epochs.
SPECIFICATION Spec
CHECK_DEADLOCK FALSE
CONSTANTS
    s1 = s1
    s2 = s2
    a1 = a1
    a2 = a2
    c1 = c1
    c2 = c2
    Sid = {s1}
    Conn = {c1}
    App = {a1}
    ConnOf <- OneConn
    AppOf <- OneApp
    Slots = 1
    MaxCoord = 2
    MaxGen = 4
    MaxOffer = 2
    MaxEpoch = 2
    Alternatives = {}
    Blockable = {}
    Granters = {c1}
INVARIANTS TypeOK FundOnce WithheldSilent CarryAuthority LeasedContext OwnedWork
PROPERTY StepsHaveCause
