SPECIFICATION Spec
CONSTANTS
    Query = {q1}
    Installer = {l1}
    Slot = {s1}
    RdfGraph = {}
    TableGraph = {b}
    Registered = {b}
    PendingMax = 1
    MaxWaits = 1
    MaxCommits = 1
    MaxCommitting = 1
    MaxInstalls = 1
    None = None
INVARIANT UnreservedFresh
