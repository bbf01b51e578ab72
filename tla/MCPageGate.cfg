SPECIFICATION Spec
CONSTANTS
    c1 = c1
    c2 = c2
    c3 = c3
    r = r
    l = l
    Cursor <- MCCursors
    Root = r
    Leaf <- MCLeaf
    DiveMode <- MCModes
    Change <- MCChanges
    NoPage = NoPage
SYMMETRY Symmetry
INVARIANTS
    TypeOK
    GateCounts
    WaitersAwaited
    EntersUnchanged
    DeletedLeft
    NoDeadlock
