SPECIFICATION Spec
CONSTANTS
    Query = {q1, q2}
    Installer = {l1}
    Slot = {s1}
    RdfGraph = {a}
    TableGraph = {b}
    Registered = {b}
    PendingMax = 1
    MaxWaits = 1
    MaxCommits = 1
    MaxCommitting = 2
    MaxInstalls = 1
    None = None
SYMMETRY Threads
INVARIANT Fresh
INVARIANT HandlesPinned
INVARIANT HostToldLive
INVARIANT ReservationsOwned
