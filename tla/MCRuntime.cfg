\* Two brokers and one change of the files; twelve hosts; two files and a model;
\* answers of two or three pieces.
SPECIFICATION AllSpec
CHECK_DEADLOCK FALSE
CONSTANTS
    Unknown = Unknown
    Hosts <- MCHosts
    Memory = {3578, 3579, 8192}
    Supplies <- MCSupplies
    Picks = {"no model", "qwen3-1.7b"}
    Disks <- MCDisks
    Entry = {1, 2}
    Weights = 9
    MaxTouch = 2
    MaxBroker = 2
    MaxChange = 1
INVARIANTS ProcessesSafe LoadedRight StreamRight
PROPERTY RuntimeEnds
