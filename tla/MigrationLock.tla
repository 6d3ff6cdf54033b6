---------------------------- MODULE MigrationLock ----------------------------
(***************************************************************************)
(* What acquire_lock and release_lock promise their caller, whatever the   *)
(* engine: at most one process at a time changes the schema, and a process *)
(* that ends, or dies, makes room for the next.                            *)
(***************************************************************************)
CONSTANT Procs    \* Processes that run `dbwarden migrate`.

VARIABLE holders  \* The processes that may change the schema.

Init == holders = {}

(* LockAcquisition.acquired = True.                                        *)
Acquire(p) == holders = {} /\ holders' = {p}

(* release_lock, or the end of the process.                                *)
Release(p) == holders = {p} /\ holders' = {}

Next == \E p \in Procs : Acquire(p) \/ Release(p)

Spec == Init /\ [][Next]_holders
=============================================================================
