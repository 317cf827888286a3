\* Two events, one replacement and two faults around them.
SPECIFICATION Spec
CHECK_DEADLOCK FALSE
CONSTANTS
    Subject <- MCSubject
    Docs <- MCDocs
    MaxDays = 1
    RecordLimit = 1
    SampleLimit = 1
    Capacity = 1
    MaxRev = 1
    MaxDay = 1
    MaxEvent = 2
    MaxFault = 2
INVARIANT StoresKept
PROPERTY HistoryRuns
