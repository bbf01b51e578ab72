SPECIFICATION FairSpec
CONSTANTS
    Trx = {t1, t2}
INVARIANTS
    TypeOK
    NoOtherGpf
    AsleepOnlyPending
PROPERTIES
    
    CheckpointEnds
CHECK_DEADLOCK FALSE
