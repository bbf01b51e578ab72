SPECIFICATION Spec
CONSTANTS
    Logical = {l1, l2}
    Remap = {p1, p2}
    Row = {r1, r2}
    None = None
    Deleted = Deleted
    MaxCrashes = 3
SYMMETRY Interchangeable
INVARIANT IncompleteIgnored
