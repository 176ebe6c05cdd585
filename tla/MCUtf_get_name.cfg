SPECIFICATION Spec
CONSTANTS
    Names <- MCNames
    Strings <- MCStrings
    OutSizes <- GetNameSize
    EXFAT_NAME_MAX = 3
INVARIANT NameConverts
CHECK_DEADLOCK FALSE
