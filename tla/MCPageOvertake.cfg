SPECIFICATION FairSpec
CONSTANTS
    c1 = c1
    c2 = c2
    c3 = c3
    r = r
    l = l
    Cursor <- MCCursors
    Root = r
    Leaf <- MCNoLeaf
    DiveMode <- MCReadWrite
    Change <- MCSplit
    NoPage = NoPage
PROPERTIES
    WriteWaitsEnd
