SPECIFICATION Spec
CONSTANTS
    Query = {q1, q2}
    Installer = {}
    Slot = {s1, s2}
    RdfGraph = {}
    TableGraph = {b, c}
    Registered = {b, c}
    PendingMax = 1
    MaxWaits = 1
    MaxCommits = 2
    MaxCommitting = 2
    MaxInstalls = 0
    None = None
SYMMETRY Threads
INVARIANT TypeOK
INVARIANT Fresh
