SPECIFICATION Spec
CONSTANTS
    Directories <- MCDirectories
    CLUSTER_SIZE = 2
    EXFAT_NAME_MAX = 4
    EXFAT_ENAME_MAX = 3
INVARIANTS
    ListingExact
    HeapOwned
    FaultsOnlyWithoutInfo
CHECK_DEADLOCK FALSE
