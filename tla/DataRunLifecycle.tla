--------------------------- MODULE DataRunLifecycle ---------------------------
(***************************************************************************)
(* What the journal of a data migration promises an operator: which status *)
(* may follow which, and inside which epoch.  An uncertain attempt is      *)
(* never tried again before somebody has decided about it, and a status    *)
(* that is final inside an epoch is final.                                 *)
(***************************************************************************)
EXTENDS Naturals

VARIABLES
  epoch,    (* The latest application epoch; 0 when there is none.         *)
  status    (* Its status in _dbwarden_data_runs.                          *)

vars == <<epoch, status>>

Statuses == {"NOT_STARTED", "APPLYING", "APPLIED_SUCCESS", "FAILED_RETRYABLE",
             "FAILED_FINAL", "UNKNOWN", "ABANDONED", "ROLLED_BACK"}

Init == epoch = 0 /\ status = "NOT_STARTED"

(* A first attempt, a retry of one that was rolled back whole, or a        *)
(* reapplication; on a transactional engine it shows only when it is over. *)
NewEpoch ==
  /\ status \in {"NOT_STARTED", "FAILED_RETRYABLE", "ROLLED_BACK"}
  /\ epoch' = epoch + 1
  /\ status' \in {"APPLYING", "APPLIED_SUCCESS", "FAILED_RETRYABLE"}

(* The retry of a failed attempt, or the rollback of a successful one.     *)
Resume ==
  /\ status \in {"FAILED_RETRYABLE", "APPLIED_SUCCESS"}
  /\ status' = "APPLYING" /\ UNCHANGED epoch

RollBack ==
  /\ status = "APPLIED_SUCCESS"
  /\ status' = "ROLLED_BACK" /\ UNCHANGED epoch

Settle ==
  /\ status = "APPLYING"
  /\ status' \in Statuses \ {"NOT_STARTED", "APPLYING"}
  /\ UNCHANGED epoch

Decide ==
  /\ status = "UNKNOWN"
  /\ status' \in {"FAILED_RETRYABLE", "ABANDONED"} /\ UNCHANGED epoch

Next == NewEpoch \/ Resume \/ RollBack \/ Settle \/ Decide

Spec == Init /\ [][Next]_vars
===============================================================================
