----------------------------- MODULE DataJournal -----------------------------
(***************************************************************************)
(* One data migration on PostgreSQL, SQLite, MySQL or MariaDB: its journal *)
(* row, its checkpoints, the effects of its statements, and the decisions  *)
(* an operator may take after a failure (execute_data_plan and             *)
(* reconcile_data_plan).                                                   *)
(*                                                                         *)
(* In "transactional" mode a run is one transaction.  In "nontransactional"*)
(* mode (MySQL) every statement has a checkpoint that is committed before  *)
(* the statement is executed; a DDL statement commits by itself.           *)
(*                                                                         *)
(* Every command takes the migration lock, so one process at a time is     *)
(* here.  done is the database: the statements whose effect is durable.    *)
(***************************************************************************)
EXTENDS Integers, Sequences

CONSTANTS
  Modes,        (* _backend_mode: what the database may be.                *)
  Body,         (* Body[d][k]: the statements of step k of direction d, as *)
                (* "dml", "ddl" or "insert" (one with an insert proof).    *)
  Checked,      (* Checked[d]: the steps of d with a postcondition.        *)
  MaxRuns,      (* Bound: executions of the plan, in either direction.     *)
  MaxFaults     (* Bound: failures and crashes over all of them.           *)

Directions == {"upgrade", "rollback"}

ASSUME ModesAssumption == Modes \subseteq {"transactional", "nontransactional"}
ASSUME PlanAssumption ==
  /\ Body \in [Directions -> Seq(Seq({"dml", "ddl", "insert"}))]
  /\ Checked \in [Directions -> SUBSET Nat]
ASSUME BoundsAssumption == MaxRuns \in Nat /\ MaxFaults \in Nat

Steps(d) == 1 .. Len(Body[d])
Statements(d, k) == {<<d, k, i>> : i \in 1 .. Len(Body[d][k])}
Effects(d) == UNION {Statements(d, k) : k \in Steps(d)}

(* The checkpoints of a step; one of guards only has a single one, whose   *)
(* statement_index is -1 (0 here).                                         *)
Rows(d, k) == IF Body[d][k] = << >> THEN {<<d, k, 0>>} ELSE Statements(d, k)
AllRows == UNION {UNION {Rows(d, k) : k \in Steps(d)} : d \in Directions}

(* _mysql_lock_queries: a step of the rollback that is DML throughout.     *)
Locked(d, k) ==
  /\ d = "rollback" /\ Body[d][k] # << >>
  /\ \A i \in 1 .. Len(Body[d][k]) : Body[d][k][i] # "ddl"

VARIABLES
  mode,       (* How the engine of the database commits.                   *)
  row,        (* The latest run in _dbwarden_data_runs.                    *)
  ckpt,       (* _dbwarden_data_operations of that epoch.                  *)
  mine,       (* Its checkpoints whose run_id is that of the row.          *)
  history,    (* The migration has its row in _dbwarden_migrations.        *)
  done,       (* Statements whose effect is durable.                       *)
  repeated,   (* Statements whose effect was made durable twice.           *)
  pc,         (* Where the process is.                                     *)
  dir,        (* The direction it executes.                                *)
  base,       (* It was told to record a baseline.                         *)
  step, at,   (* Its step, and the statement in it.                        *)
  possible,   (* possible_effect.                                          *)
  dirty,      (* Statements executed in the open transaction.              *)
  runs, faults

journal == <<row, ckpt, mine, history>>
data == <<done, repeated>>
process == <<dir, base, step, at, possible>>
counters == <<runs, faults>>
vars == <<mode, journal, data, pc, process, dirty, counters>>

PCs == {"idle", "steps", "locked", "checkpoint", "execute", "after"}
Marks == {"none", "PENDING", "WRITE_VERIFIED", "DONE"}
Proofs == {"none", "rolled back", "no effects", "possible effects", "verified"}
NoRun == [epoch |-> 0, status |-> "NOT_STARTED", direction |-> "upgrade",
          proof |-> "none", baseline |-> FALSE]
NoCheckpoints == [s \in AllRows |-> "none"]

Mark(S, m) == [s \in AllRows |-> IF s \in S THEN m ELSE ckpt[s]]

(* connection.commit(): the statements of the transaction, and S with      *)
(* them, become durable.                                                   *)
Flush(S) ==
  /\ done' = done \cup dirty \cup S
  /\ repeated' = repeated \cup (done \cap (dirty \cup S))
  /\ dirty' = {}

(* _has_nontransactional_proof.                                            *)
HasProof == row.proof \in {"no effects", "verified"}
Resumable(d) == row.status = "FAILED_RETRYABLE" /\ row.direction = d /\ HasProof

Init ==
  /\ mode \in Modes
  /\ row = NoRun /\ ckpt = NoCheckpoints /\ mine = {} /\ history = FALSE
  /\ done = {} /\ repeated = {}
  /\ pc = "idle" /\ dir = "upgrade" /\ base = FALSE /\ step = 1 /\ at = 1
  /\ possible = FALSE /\ dirty = {}
  /\ runs = 0 /\ faults = 0

Launch(d, b) ==
  /\ pc = "idle" /\ runs < MaxRuns
  /\ runs' = runs + 1
  /\ pc' = "steps" /\ dir' = d /\ base' = b /\ step' = 1 /\ at' = 1
  /\ UNCHANGED <<mode, history, data, dirty, faults>>

-----------------------------------------------------------------------------
(* Execution in one transaction.                                           *)

(* What _next_epoch and the two checks after it let through.  The row it   *)
(* inserts or updates is not committed before the end.                     *)
StartTransaction(d, b) ==
  /\ mode = "transactional"
  /\ IF d = "upgrade"
       THEN row.status \in {"NOT_STARTED", "FAILED_RETRYABLE", "ROLLED_BACK"}
       ELSE row.status = "APPLIED_SUCCESS" /\ ~row.baseline /\ ~b
  /\ Launch(d, b)
  /\ possible' = FALSE
  /\ UNCHANGED <<row, ckpt, mine>>

ExecuteStep ==
  /\ mode = "transactional" /\ pc = "steps" /\ ~base /\ step \in Steps(dir)
  /\ dirty' = dirty \cup Statements(dir, step)
  /\ step' = step + 1
  /\ UNCHANGED <<mode, journal, data, pc, dir, base, at, possible, counters>>

-----------------------------------------------------------------------------
(* Execution with checkpoints.                                             *)

(* A first run, or migrate --reapply-data after a rollback.                *)
StartEpoch(b) ==
  /\ mode = "nontransactional"
  /\ row.status \in {"NOT_STARTED", "ROLLED_BACK"}
  /\ Launch("upgrade", b)
  /\ row' = [epoch |-> row.epoch + 1, status |-> "APPLYING", direction |-> "upgrade",
             proof |-> "none", baseline |-> b]
  /\ ckpt' = NoCheckpoints /\ mine' = {}
  /\ possible' = FALSE

(* Mutant: an uncertain attempt is restarted like a retryable one.         *)
MutantCanRestart(d, b) ==
  IF d = "upgrade" THEN row.status \in {"FAILED_RETRYABLE", "UNKNOWN"}
                   ELSE row.status = "APPLIED_SUCCESS" /\ ~row.baseline /\ ~b

CanRestart(d, b) ==
  IF d = "upgrade"
    THEN Resumable(d)
    ELSE ~row.baseline /\ ~b /\ (row.status = "APPLIED_SUCCESS" \/ Resumable(d))

(* _restart_run: the same epoch under a new run_id.  possible_effect is    *)
(* read from the checkpoints of the direction.                             *)
Restart(d, b) ==
  /\ mode = "nontransactional" /\ CanRestart(d, b)
  /\ Launch(d, b)
  /\ row' = [row EXCEPT !.status = "APPLYING", !.direction = d, !.proof = "none"]
  /\ mine' = {}
  /\ possible' = (\E k \in Steps(d), s \in AllRows : s \in Rows(d, k) /\ ckpt[s] # "none")
  /\ UNCHANGED ckpt

AtStep == mode = "nontransactional" /\ pc = "steps" /\ ~base /\ step \in Steps(dir)
Complete(d, k) == \A s \in Rows(d, k) : ckpt[s] = "DONE"

(* Mutant: only checkpoints of the current run count.                      *)
MutantUntouched(d, k) == \A s \in Rows(d, k) : s \notin mine

Untouched(d, k) == \A s \in Rows(d, k) : ckpt[s] = "none"

SkipStep ==
  /\ AtStep /\ Complete(dir, step)
  /\ step' = step + 1
  /\ UNCHANGED <<mode, journal, data, pc, dir, base, at, possible, dirty, counters>>

(* A step without statements: its guards pass, and its checkpoint says so. *)
CheckGuards ==
  /\ AtStep /\ Untouched(dir, step) /\ Body[dir][step] = << >>
  /\ ckpt' = Mark(Rows(dir, step), "DONE") /\ mine' = mine \cup Rows(dir, step)
  /\ step' = step + 1
  /\ UNCHANGED <<mode, row, history, data, pc, dir, base, at, possible, dirty, counters>>

(* The checkpoints of a rollback step are committed before its locks are   *)
(* taken ...                                                               *)
IntendLocked ==
  /\ AtStep /\ Untouched(dir, step) /\ Locked(dir, step)
  /\ ckpt' = Mark(Rows(dir, step), "PENDING") /\ mine' = mine \cup Rows(dir, step)
  /\ possible' = TRUE /\ pc' = "locked"
  /\ UNCHANGED <<mode, row, history, data, dir, base, step, at, dirty, counters>>

(* ... and its statements with their DONE in one commit.                   *)
CommitLocked ==
  /\ pc = "locked"
  /\ Flush(Statements(dir, step))
  /\ ckpt' = Mark(Rows(dir, step), "DONE")
  /\ step' = step + 1 /\ pc' = "steps"
  /\ UNCHANGED <<mode, row, mine, history, dir, base, at, possible, counters>>

EnterStep ==
  /\ AtStep /\ Untouched(dir, step)
  /\ Body[dir][step] # << >> /\ ~Locked(dir, step)
  /\ at' = 1 /\ pc' = "checkpoint"
  /\ UNCHANGED <<mode, journal, data, dir, base, step, possible, dirty, counters>>

(* The checkpoint of the next statement; its commit is also that of the    *)
(* statement before it.                                                    *)
WriteCheckpoint ==
  /\ pc = "checkpoint"
  /\ Flush({})
  /\ ckpt' = Mark({<<dir, step, at>>}, "PENDING") /\ mine' = mine \cup {<<dir, step, at>>}
  /\ possible' = TRUE /\ pc' = "execute"
  /\ UNCHANGED <<mode, row, history, dir, base, step, at, counters>>

Execute ==
  /\ pc = "execute"
  /\ LET s == <<dir, step, at>>  kind == Body[dir][step][at] IN
     \/ /\ kind = "dml"
        /\ dirty' = dirty \cup {s} /\ UNCHANGED <<data, ckpt>>
     \/ /\ kind = "ddl"
        /\ Flush({s}) /\ UNCHANGED ckpt
     \/ /\ kind = "insert"
        /\ Flush({s}) /\ ckpt' = Mark({s}, "WRITE_VERIFIED")
  /\ pc' = IF at = Len(Body[dir][step]) THEN "after" ELSE "checkpoint"
  /\ at' = at + 1
  /\ UNCHANGED <<mode, row, mine, history, dir, base, step, possible, counters>>

FinishStep ==
  /\ pc = "after"
  /\ Flush({})
  /\ ckpt' = Mark(Rows(dir, step), "DONE")
  /\ step' = step + 1 /\ pc' = "steps"
  /\ UNCHANGED <<mode, row, mine, history, dir, base, at, possible, counters>>

-----------------------------------------------------------------------------
(* The end of a run, of either mode.                                       *)

(* Mutant: the history row is inserted whatever the direction.             *)
MutantRecorded == TRUE

(* record_success: the history row is inserted, or deleted.                *)
Recorded == dir = "upgrade"

(* record_success and the final status, in one commit.  A whole rollback   *)
(* leaves the database as it was before the migration.                     *)
Finish ==
  /\ pc = "steps" /\ (base \/ step \notin Steps(dir))
  /\ history' = Recorded
  /\ row' = [epoch |-> IF mode = "transactional" /\ dir = "upgrade"
                         THEN row.epoch + 1 ELSE row.epoch,
             status |-> IF dir = "upgrade" THEN "APPLIED_SUCCESS" ELSE "ROLLED_BACK",
             direction |-> dir, proof |-> "none", baseline |-> base]
  /\ done' = IF dir = "rollback" /\ Effects("rollback") \subseteq done \cup dirty
               THEN {} ELSE done \cup dirty
  /\ repeated' = repeated \cup (done \cap dirty)
  /\ dirty' = {} /\ pc' = "idle"
  /\ UNCHANGED <<mode, ckpt, mine, process, counters>>

(* Mutant: whatever failed may be tried again.                             *)
MutantFailureStatus(ownership) ==
  IF ownership THEN "FAILED_FINAL" ELSE "FAILED_RETRYABLE"

FailureStatus(ownership) ==
  IF ownership THEN "FAILED_FINAL"
  ELSE IF possible THEN "UNKNOWN" ELSE "FAILED_RETRYABLE"

(* The row the exception handler writes: _persist_failure adds an epoch,   *)
(* for an upgrade only; the other mode updates the run's own row.          *)
FailureRow(ownership) ==
  IF mode = "transactional"
    THEN IF dir = "rollback" THEN row
         ELSE [epoch |-> row.epoch + 1, status |-> "FAILED_RETRYABLE",
               direction |-> "upgrade", proof |-> "rolled back", baseline |-> base]
    ELSE [row EXCEPT !.status = FailureStatus(ownership), !.baseline = base,
               !.proof = IF FailureStatus(ownership) = "FAILED_RETRYABLE"
                           THEN "no effects" ELSE "possible effects"]

(* `if step_rows: raise`: a checkpoint of the step is not DONE.            *)
Unresolved == AtStep /\ ~Complete(dir, step) /\ ~Untouched(dir, step)

(* A guard, a statement or a commit fails, or the user interrupts: the     *)
(* open transaction is rolled back and the failure written down.  Only a   *)
(* statement with an insert proof can fail for ownership.                  *)
Fail ==
  /\ pc # "idle"
  /\ Unresolved \/ faults < MaxFaults
  /\ faults' = IF Unresolved THEN faults ELSE faults + 1
  /\ \E ownership \in BOOLEAN :
       /\ ownership =>
            /\ mode = "nontransactional"
            /\ \/ pc = "execute" /\ Body[dir][step][at] = "insert"
               \/ pc = "locked" /\ \E i \in 1 .. Len(Body[dir][step]) :
                                     Body[dir][step][i] = "insert"
       /\ row' = FailureRow(ownership)
  /\ dirty' = {} /\ pc' = "idle"
  /\ UNCHANGED <<mode, ckpt, mine, history, data, process, runs>>

(* The process dies, or fails and cannot write that down either: its       *)
(* transaction is gone and the journal as it was.                          *)
Crash ==
  /\ pc # "idle" /\ faults < MaxFaults
  /\ faults' = faults + 1
  /\ dirty' = {} /\ pc' = "idle"
  /\ UNCHANGED <<mode, journal, data, process, runs>>

-----------------------------------------------------------------------------
(* `dbwarden data transition reconcile --apply`, under the lock.           *)

Visible == IF row.status = "APPLYING" THEN "UNKNOWN" ELSE row.status

Abandon ==
  /\ pc = "idle" /\ mode = "nontransactional" /\ Visible = "UNKNOWN"
  /\ row' = [row EXCEPT !.status = "ABANDONED"]
  /\ UNCHANGED <<mode, ckpt, mine, history, data, pc, process, dirty, counters>>

Touched(d, k) == mine \cap Rows(d, k) # {}

(* Mutant: the postcondition is not evaluated.                             *)
MutantVerified(d, k) ==
  IF Body[d][k] = << >> THEN Complete(d, k) ELSE mine \cap Rows(d, k) = Rows(d, k)

(* What has to be shown of a step the last run touched: all its statements *)
(* have their checkpoints, inserts their proof, and its postcondition      *)
(* holds of the database.                                                  *)
Verified(d, k) ==
  IF Body[d][k] = << >>
    THEN Complete(d, k)
    ELSE /\ mine \cap Rows(d, k) = Rows(d, k)
         /\ \A i \in 1 .. Len(Body[d][k]) :
              Body[d][k][i] = "insert" => ckpt[<<d, k, i>>] # "PENDING"
         /\ k \in Checked[d]
         /\ Statements(d, k) \subseteq done

(* Mutant: the run becomes retryable, its checkpoints stay as they are.    *)
MutantVerifiedRetry ==
  /\ pc = "idle" /\ mode = "nontransactional" /\ Visible = "UNKNOWN"
  /\ \A d \in Directions : \A k \in Steps(d) : Touched(d, k) => Verified(d, k)
  /\ row' = [row EXCEPT !.status = "FAILED_RETRYABLE", !.proof = "verified"]
  /\ UNCHANGED <<mode, ckpt, mine, history, data, pc, process, dirty, counters>>

VerifiedRetry ==
  /\ pc = "idle" /\ mode = "nontransactional" /\ Visible = "UNKNOWN"
  /\ \A d \in Directions : \A k \in Steps(d) : Touched(d, k) => Verified(d, k)
  /\ ckpt' = [s \in AllRows |->
                IF \E d \in Directions : \E k \in Steps(d) : Touched(d, k) /\ s \in Rows(d, k)
                  THEN "DONE" ELSE ckpt[s]]
  /\ row' = [row EXCEPT !.status = "FAILED_RETRYABLE", !.proof = "verified"]
  /\ UNCHANGED <<mode, mine, history, data, pc, process, dirty, counters>>

(* The operator completes by hand a step that the last run began, as the   *)
(* documentation asks for before a verified_retry.                         *)
Repair ==
  /\ pc = "idle" /\ Visible = "UNKNOWN"
  /\ \E d \in Directions : \E k \in Steps(d) :
       Touched(d, k) /\ done' = done \cup Statements(d, k)
  /\ UNCHANGED <<mode, journal, repeated, pc, process, dirty, counters>>

-----------------------------------------------------------------------------

Start ==
  \E b \in BOOLEAN :
    \/ StartEpoch(b)
    \/ \E d \in Directions : StartTransaction(d, b) \/ Restart(d, b)
Advance ==
  \/ ExecuteStep \/ SkipStep \/ CheckGuards \/ IntendLocked \/ CommitLocked
  \/ EnterStep \/ WriteCheckpoint \/ Execute \/ FinishStep \/ Finish
Reconcile == Abandon \/ VerifiedRetry \/ Repair

Next == Start \/ Advance \/ Fail \/ Crash \/ Reconcile

Spec == Init /\ [][Next]_vars

(* A run that nothing stops goes on to its end.                            *)
FairSpec == Spec /\ WF_vars(Advance \/ (Fail /\ Unresolved))

-----------------------------------------------------------------------------
(***************************************************************************)
(* Properties.                                                             *)
(***************************************************************************)

(* No statement takes effect twice, over any sequence of failures, crashes,*)
(* retries and decisions, unless the rollback undid it in between          *)
(* (the checkpoints of _execute_nontransactional, the one transaction of   *)
(* _execute_data_plan).                                                    *)
NoEffectTwice == repeated = {}

(* A run that is recorded as successful left every effect of its plan, and *)
(* one recorded as rolled back left none, also when it was resumed after a *)
(* crash and skipped the steps that were already there.                    *)
SuccessIsComplete ==
  /\ row.status = "APPLIED_SUCCESS" /\ ~row.baseline => Effects("upgrade") \subseteq done
  /\ row.status = "ROLLED_BACK" => done = {}

(* An attempt that may be retried left no step half done: each was not     *)
(* begun at all or is DONE and in effect, so the retry knows what to skip. *)
RetryableIsResolved ==
  Resumable(row.direction) =>
    \A k \in Steps(row.direction) :
      \/ Untouched(row.direction, k) /\ Statements(row.direction, k) \cap done = {}
      \/ Complete(row.direction, k) /\ Statements(row.direction, k) \subseteq done

(* The migration history, which decides what `migrate` and `rollback` take *)
(* up, never contradicts the data journal.                                 *)
HistoryAgrees ==
  history <=> \/ row.status = "APPLIED_SUCCESS"
              \/ row.direction = "rollback" /\ row.status # "ROLLED_BACK"

(* The journal goes through the documented life cycle only.                *)
Lifecycle == INSTANCE DataRunLifecycle WITH
  epoch <- row.epoch, status <- IF pc = "idle" THEN Visible ELSE row.status
LifecycleSpec == Lifecycle!Spec

(* Once nothing fails any more, a run that was begun, or resumed, reaches  *)
(* the end of its plan; it never stops at a checkpoint of an earlier run.  *)
RetryCompletes ==
  pc = "steps" /\ faults = MaxFaults ~> row.status \in {"APPLIED_SUCCESS", "ROLLED_BACK"}
=============================================================================
