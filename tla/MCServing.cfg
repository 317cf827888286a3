\* One connection, two requests, two events, two epochs; and two connections, one permit.
SPECIFICATION AllSpec
CHECK_DEADLOCK FALSE
CONSTANTS
    c1 = c1 c2 = c2
    Conn = {c1, c2}
    Slots = 1 SessionCap = 1 WireCap = 1 EventCap = 1
    Hellos <- MCHellos Requests <- MCRequests
    MaxSent = 2 MaxEvents = 2 MaxEpoch = 2
INVARIANT ServingSafe
PROPERTY ServingEnds
