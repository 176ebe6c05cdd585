CONSTANTS
    A = A
    B = B
    Files = {A, B}
    CMAP_SIZE = 4
    CLUSTER_SIZE = 2
    Reserved = {3}
    Beyond = 4
    Media <- InitialMedia
    Sizes = {0, 3, 6, 25}
    MaxCalls = 3
    MaxFaults = 1
SPECIFICATION FairSpec
INVARIANTS
    ClustersAccounted
    BytesOwn
    AnswersExact
    MediumSound
    AbortsOnlyIfFailed
PROPERTIES
    CallEnds
CHECK_DEADLOCK FALSE
