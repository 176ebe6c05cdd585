SPECIFICATION FairSpec
CONSTANTS
    a = a
    b = b
    Names <- MCNames
    Listings <- MCListings
INVARIANTS
    TypeOK
    ProcessedIsRestored
    ExitComplete
    StartCoversListing
PROPERTIES
    FinishedUntouched
    Implements
    EventuallyRestored
