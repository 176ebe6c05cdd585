SPECIFICATION Spec
CONSTANTS
    a = a
    b = b
    Names <- MCNames
    Listings <- MCListings
INVARIANTS
    OnlyGoodLeavesWholeFiles
