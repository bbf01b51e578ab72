---------------------------- MODULE DurableStore ----------------------------
(***************************************************************************)
(* What the storage layer promises its transactions: a set of rows that    *)
(* grows by whole transactions, each in one step and only while the server *)
(* runs, and that a process death or a restart leaves as it is.            *)
(* dbs_checkpoint, dbs_cpt_recov and log_init exist to keep this promise;  *)
(* CheckpointRecovery is shown to implement it.                            *)
(***************************************************************************)
CONSTANT Row

VARIABLES
    store,      \* the rows a restart brings back
    up          \* the server takes commits

vars == <<store, up>>

Init ==
    /\ store = {}
    /\ up = TRUE

\* A transaction commits: all of its rows become durable at once.
Commit(rows) ==
    /\ up
    /\ rows # {}
    /\ rows \cap store = {}
    /\ store' = store \cup rows
    /\ UNCHANGED up

\* The server stops taking commits: it dies, or it freezes for a checkpoint.
Stop ==
    /\ up
    /\ up' = FALSE
    /\ UNCHANGED store

\* The server takes commits again.
Resume ==
    /\ ~up
    /\ up' = TRUE
    /\ UNCHANGED store

Next ==
    \/ \E rows \in SUBSET Row : Commit(rows)
    \/ Stop
    \/ Resume

Spec == Init /\ [][Next]_vars
=============================================================================
