\* Every switch over two sessions of one connection, one in a native app.
SPECIFICATION Spec
CHECK_DEADLOCK FALSE
CONSTANTS
    c1 = c1
    c2 = c2
    h1 = h1
    h2 = h2
    e1 = e1
    s1 = s1
    s2 = s2
    a1 = a1
    a2 = a2
    Conn = {c1, h1, e1}
    Policy = {c1}
    Helper = {h1}
    Editor = {e1}
    Sid = {s1, s2}
    App = {a1, a2}
    ConnOf <- OneConn
    AppOf <- Apps
    Native = {a1}
    Docs <- OneDoc
    Capacity = 2
    MaxEpoch = 4
    MaxAlarm = 1
    MaxRev = 0
INVARIANTS TypeOK NoDataWithheld GoneHoldsNothing NothingMissed AckedSessions
PROPERTY EpochTells
