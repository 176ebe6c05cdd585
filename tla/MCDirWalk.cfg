SPECIFICATION WalkSpec
CONSTANTS
    root = root
    sub = sub
    deep = deep
    empty = empty
    other = other
    inner = inner
    f1 = f1
    f2 = f2
    f3 = f3
    f4 = f4
    f5 = f5
    f6 = f6
    Nodes <- MCNodes
    Root = root
    Entries <- MCEntries
    BadNameSets <- MCBadNameSets
INVARIANTS
    WalkSound
    ListedExactly
PROPERTIES
    WalkEnds
CHECK_DEADLOCK FALSE
