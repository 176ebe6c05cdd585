SPECIFICATION Spec
CONSTANTS
    Names <- MCNames
    Strings <- MCStrings
    OutSizes <- MCOutSizes
    EXFAT_NAME_MAX = 3
INVARIANTS
    ConversionExact
    NoOverrun
    LibrarySizeSuffices
CHECK_DEADLOCK FALSE
