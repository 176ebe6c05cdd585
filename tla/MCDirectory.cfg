CONSTANTS
    R = R
    D = D
    F = F
    G = G
    S = S
    L = L
    X = X
    Root = R
    Ids = {D, F, G}
    Folders = {D}
    Names = {S, L}
    Pieces <- NamePieces
    Labels = {X}
    SLOTS = 4
    Volumes <- InitialVolumes
    MaxClusters = 3
    MaxCalls = 3
    MaxFaults = 1
SPECIFICATION Spec
INVARIANTS
    TreeKept
    OthersReadable
    ReturnedIsDurable
    
PROPERTIES
    LabelOnlyCut
CHECK_DEADLOCK FALSE
