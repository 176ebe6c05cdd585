SPECIFICATION Spec
CONSTANTS
    Batches <- MCBatches
    Base = 2
    PageSize = 8
INVARIANTS
    FileSound
    LoadIsExact
PROPERTIES
    LoadEnds
