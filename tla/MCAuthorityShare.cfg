\* Two helpers, one app, and one replacement of the settings.
SPECIFICATION FairSpec
CHECK_DEADLOCK FALSE
CONSTANTS
    c1 = c1
    c2 = c2
    h1 = h1
    h2 = h2
    e1 = e1
    s1 = s1
    s2 = s2
    a1 = a1
    a2 = a2
    Conn = {h1, h2}
    Policy = {}
    Helper = {h1, h2}
    Editor = {}
    Sid = {}
    App = {a1}
    ConnOf <- OneConn
    AppOf <- Apps
    Native = {a1}
    Docs <- ShareDocs
    Capacity = 2
    MaxEpoch = 4
    MaxAlarm = 0
    MaxRev = 1
INVARIANT Coherent
PROPERTIES ShareKept RestartSticks AuthorityEnds
