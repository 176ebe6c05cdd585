SPECIFICATION Spec
CONSTANTS
    HeapEnd = 4
    LastData = 5
    ClusterSize = 2
    HeapStart = 10
    MaxSize = 6
    Wrap = 64
INVARIANTS
    LostIsSuffix
    OffsetsExact
PROPERTIES
    GetOffsetsEnds
CHECK_DEADLOCK FALSE
