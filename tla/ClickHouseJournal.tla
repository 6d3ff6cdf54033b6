-------------------------- MODULE ClickHouseJournal --------------------------
(***************************************************************************)
(* One data migration on ClickHouse (_execute_clickhouse and               *)
(* _reconcile_clickhouse).  There are no transactions: every INSERT and    *)
(* every statement is durable by itself.  The journal is append-only: a    *)
(* change of a run is a new record that names its predecessor by checksum, *)
(* followed by an event in another table.  The tables are                  *)
(* ReplacingMergeTree(version), so ClickHouse may at any time drop the     *)
(* records a newer one supersedes, and before anything is executed or      *)
(* decided the chain of checksums is read from what is left.               *)
(***************************************************************************)
EXTENDS Integers, Sequences

CONSTANTS
  Size,         (* Size[d][k]: the number of statements of step k of       *)
                (* direction d.                                            *)
  Checked,      (* Checked[d]: the steps of d with a postcondition.        *)
  MaxRuns,      (* Bound: executions of the plan.                          *)
  MaxFaults,    (* Bound: failures and crashes.                            *)
  MaxLost,      (* Bound: inserts of an event that fail.                   *)
  MaxMerges     (* Bound: merges that drop superseded records.             *)

Directions == {"upgrade", "rollback"}

ASSUME PlanAssumption ==
  /\ Size \in [Directions -> Seq(Nat)]
  /\ Checked \in [Directions -> SUBSET Nat]
ASSUME BoundsAssumption ==
  /\ MaxRuns \in Nat /\ MaxFaults \in Nat /\ MaxLost \in Nat /\ MaxMerges \in Nat

Steps(d) == 1 .. Len(Size[d])
Statements(d, k) == {<<d, k, i>> : i \in 1 .. Size[d][k]}
Effects(d) == UNION {Statements(d, k) : k \in Steps(d)}
AllRows == Effects("upgrade") \cup Effects("rollback")

VARIABLES
  row,        (* The latest run: what SELECT ... FINAL returns.            *)
  log,        (* Its records that exist, oldest first: id and predecessor. *)
  ckpt,       (* The checkpoints of its epoch.                             *)
  merged,     (* Checkpoints whose PENDING record was merged away.         *)
  mine,       (* Checkpoints of the run's run_id.                          *)
  history,    (* The migration has its row in _dbwarden_migrations.        *)
  done,       (* Statements whose effect is there.                         *)
  repeated,   (* Statements that took effect twice.                        *)
  pc, dir, base, step, at, possible,  (* As in DataJournal.                *)
  held,       (* The record the process takes for the latest one.          *)
  runs, faults, lost, merges

journal == <<row, log, ckpt, merged, mine>>
data == <<done, repeated>>
process == <<dir, base, step, at, possible>>
counters == <<runs, faults, lost, merges>>
vars == <<journal, history, data, pc, process, held, counters>>

NoRun == [epoch |-> 0, status |-> "NOT_STARTED", direction |-> "upgrade",
          proof |-> "none", baseline |-> FALSE]
NoCheckpoints == [s \in AllRows |-> "none"]

LastId == IF log = << >> THEN 0 ELSE log[Len(log)].id

(* _ch_append_run, from the record prev: r becomes the latest.             *)
Append1(r, prev) ==
  /\ row' = r
  /\ log' = Append(log, [id |-> LastId + 1, prev |-> prev])

(* _ch_validate_chains: every record names the one before it, and the      *)
(* first one none.                                                         *)
Validated ==
  /\ \A i \in 1 .. Len(log) : log[i].prev = IF i = 1 THEN 0 ELSE log[i - 1].id
  /\ merged = {}

HasProof == row.proof \in {"no effects", "verified"}
Resumable(d) == row.status = "FAILED_RETRYABLE" /\ row.direction = d /\ HasProof

Init ==
  /\ row = NoRun /\ log = << >> /\ ckpt = NoCheckpoints /\ merged = {} /\ mine = {}
  /\ history = FALSE /\ done = {} /\ repeated = {}
  /\ pc = "idle" /\ dir = "upgrade" /\ base = FALSE /\ step = 1 /\ at = 1
  /\ possible = FALSE /\ held = 0
  /\ runs = 0 /\ faults = 0 /\ lost = 0 /\ merges = 0

(* `migrate` takes up what is not in the history, `rollback` what is.      *)
Launch(d, b) ==
  /\ pc = "idle" /\ runs < MaxRuns /\ history = (d = "rollback")
  /\ Validated
  /\ runs' = runs + 1
  /\ pc' = "steps" /\ dir' = d /\ base' = b /\ step' = 1 /\ at' = 1
  /\ UNCHANGED <<history, repeated, faults, lost, merges>>

(* A first run, or a reapplication: a whole rollback has left the database *)
(* as it was before the migration.                                         *)
StartEpoch(b) ==
  /\ row.status \in {"NOT_STARTED", "ROLLED_BACK"}
  /\ Launch("upgrade", b)
  /\ done' = IF Effects("rollback") \subseteq done THEN {} ELSE done
  /\ row' = [epoch |-> row.epoch + 1, status |-> "APPLYING", direction |-> "upgrade",
             proof |-> "none", baseline |-> b]
  /\ log' = <<[id |-> 1, prev |-> 0]>> /\ held' = 1
  /\ ckpt' = NoCheckpoints /\ merged' = {} /\ mine' = {}
  /\ possible' = FALSE

CanRestart(d, b) ==
  IF d = "upgrade"
    THEN Resumable(d)
    ELSE ~row.baseline /\ ~b /\ (row.status = "APPLIED_SUCCESS" \/ Resumable(d))

Restart(d, b) ==
  /\ CanRestart(d, b)
  /\ Launch(d, b)
  /\ Append1([row EXCEPT !.status = "APPLYING", !.direction = d, !.proof = "none"], LastId)
  /\ held' = LastId + 1
  /\ mine' = {}
  /\ possible' = (\E s \in Effects(d) : ckpt[s] # "none")
  /\ UNCHANGED <<ckpt, merged, done>>

(* last_operation is appended to the run, then the guards are evaluated.   *)
BeginStep ==
  /\ pc = "steps" /\ ~base /\ step \in Steps(dir)
  /\ Append1(row, held) /\ held' = LastId + 1
  /\ at' = 1 /\ pc' = "statement"
  /\ UNCHANGED <<ckpt, merged, mine, history, data, dir, base, step, possible, counters>>

AtStatement == pc = "statement" /\ at \in 1 .. Size[dir][step]

(* Mutant: a checkpoint of an earlier run is not looked at.                *)
MutantMark(s) == IF s \in mine THEN ckpt[s] ELSE "none"

(* _ch_checkpoint_rows of the step.                                        *)
MarkOf(s) == ckpt[s]

SkipStatement ==
  /\ AtStatement /\ MarkOf(<<dir, step, at>>) = "DONE"
  /\ at' = at + 1
  /\ UNCHANGED <<journal, history, data, pc, dir, base, step, possible, held, counters>>

WriteCheckpoint ==
  /\ AtStatement /\ MarkOf(<<dir, step, at>>) = "none"
  /\ ckpt' = [ckpt EXCEPT ![<<dir, step, at>>] = "PENDING"]
  /\ mine' = mine \cup {<<dir, step, at>>}
  /\ possible' = TRUE /\ pc' = "execute"
  /\ UNCHANGED <<row, log, merged, history, data, dir, base, step, at, held, counters>>

Execute ==
  /\ pc = "execute"
  /\ done' = done \cup {<<dir, step, at>>}
  /\ repeated' = repeated \cup (done \cap {<<dir, step, at>>})
  /\ at' = at + 1 /\ pc' = "statement"
  /\ UNCHANGED <<journal, history, dir, base, step, possible, held, counters>>

(* The guards after the step pass.                                         *)
CheckAfter ==
  /\ pc = "statement" /\ at \notin 1 .. Size[dir][step]
  /\ pc' = "after"
  /\ UNCHANGED <<journal, history, data, process, held, counters>>

(* The loop over pending: one append per statement, then the next step.    *)
Pending == {s \in mine \cap Statements(dir, step) : ckpt[s] = "PENDING"}
MarkDone ==
  /\ pc = "after" /\ Pending # {}
  /\ \E s \in Pending :
       /\ \A t \in Pending : s[3] <= t[3]
       /\ ckpt' = [ckpt EXCEPT ![s] = "DONE"]
  /\ UNCHANGED <<row, log, merged, mine, history, data, pc, process, held, counters>>
EndStep ==
  /\ pc = "after" /\ Pending = {}
  /\ step' = step + 1 /\ pc' = "steps"
  /\ UNCHANGED <<journal, history, data, dir, base, at, possible, held, counters>>

AtEnd == pc = "steps" /\ (base \/ step \notin Steps(dir))

(* record_success: an INSERT into, or a DELETE from, the history ...       *)
Record ==
  /\ AtEnd
  /\ history' = (dir = "upgrade") /\ pc' = "recorded"
  /\ UNCHANGED <<journal, data, process, held, counters>>

(* ... and the final status, a statement later.                            *)
FinalRow ==
  [row EXCEPT !.status = IF dir = "upgrade" THEN "APPLIED_SUCCESS" ELSE "ROLLED_BACK",
              !.baseline = base]
FinishRun ==
  /\ pc = "recorded"
  /\ Append1(FinalRow, held) /\ held' = LastId + 1
  /\ pc' = "idle"
  /\ UNCHANGED <<ckpt, merged, mine, history, data, process, counters>>

(* `raise`: the statement has a checkpoint that is not DONE.               *)
Unresolved == AtStatement /\ MarkOf(<<dir, step, at>>) \notin {"none", "DONE"}

(* A guard or a statement fails.  A statement that fails after its effect  *)
(* is one that fails in the next state.                                    *)
Fail ==
  /\ pc \notin {"idle", "failing"}
  /\ Unresolved \/ faults < MaxFaults
  /\ faults' = IF Unresolved THEN faults ELSE faults + 1
  /\ pc' = "failing"
  /\ UNCHANGED <<journal, history, data, process, held, runs, lost, merges>>

(* The record of a run is inserted, its event is not: the exception leaves *)
(* _ch_append_run before `run` is assigned.                                *)
LoseEvent ==
  /\ lost < MaxLost
  /\ \/ pc = "steps" /\ ~AtEnd /\ Append1(row, held)
     \/ pc = "recorded" /\ Append1(FinalRow, held)
  /\ lost' = lost + 1 /\ pc' = "failing"
  /\ UNCHANGED <<ckpt, merged, mine, history, data, process, held, runs, faults, merges>>

(* Mutant: a failure is retryable whatever was executed.                   *)
MutantFailureStatus == "FAILED_RETRYABLE"

FailureStatus == IF possible THEN "UNKNOWN" ELSE "FAILED_RETRYABLE"

(* _ch_persist_failure, from the record the process holds.                 *)
PersistFailure ==
  /\ pc = "failing"
  /\ Append1([row EXCEPT !.status = FailureStatus, !.baseline = base,
                !.proof = IF FailureStatus = "UNKNOWN" THEN "possible effects" ELSE "no effects"],
             held)
  /\ held' = LastId + 1 /\ pc' = "idle"
  /\ UNCHANGED <<ckpt, merged, mine, history, data, process, counters>>

Crash ==
  /\ pc # "idle" /\ faults < MaxFaults
  /\ faults' = faults + 1 /\ pc' = "idle"
  /\ UNCHANGED <<journal, history, data, process, held, runs, lost, merges>>

(* Background merge: a superseded record, or the PENDING record of a       *)
(* checkpoint that is DONE, is dropped.                                    *)
Merge ==
  /\ merges < MaxMerges /\ merges' = merges + 1
  /\ \/ \E i \in 1 .. Len(log) - 1 :
          /\ log' = SubSeq(log, 1, i - 1) \o SubSeq(log, i + 1, Len(log))
          /\ UNCHANGED merged
     \/ /\ \E s \in AllRows \ merged : ckpt[s] = "DONE" /\ merged' = merged \cup {s}
        /\ UNCHANGED log
  /\ UNCHANGED <<row, ckpt, mine, history, data, pc, process, held, runs, faults, lost>>

-----------------------------------------------------------------------------
(* `dbwarden data transition reconcile --apply`, under the lock.           *)

Visible == IF row.status = "APPLYING" THEN "UNKNOWN" ELSE row.status
Reconcilable == pc = "idle" /\ Visible = "UNKNOWN" /\ Validated

Abandon ==
  /\ Reconcilable
  /\ Append1([row EXCEPT !.status = "ABANDONED"], LastId)
  /\ UNCHANGED <<ckpt, merged, mine, history, data, pc, process, held, counters>>

(* Mutant: a touched step needs no postcondition.                          *)
MutantVerified(d, k) == TRUE

(* The postcondition of a step the last run touched; it does not hold      *)
(* before the statements with a checkpoint have taken effect.              *)
Verified(d, k) ==
  mine \cap Statements(d, k) = {} \/
    /\ k \in Checked[d]
    /\ mine \cap Statements(d, k) \subseteq done

(* Mutant: the run becomes retryable, its checkpoints stay as they are.    *)
MutantVerifiedRetry ==
  /\ Reconcilable
  /\ \A d \in Directions : \A k \in Steps(d) : Verified(d, k)
  /\ Append1([row EXCEPT !.status = "FAILED_RETRYABLE", !.proof = "verified"], LastId)
  /\ UNCHANGED <<ckpt, merged, mine, history, data, pc, process, held, counters>>

(* The checkpoints become DONE one INSERT at a time, then the run          *)
(* retryable; the command may be cut off in between.                       *)
VerifiedRetry ==
  /\ Reconcilable
  /\ \A d \in Directions : \A k \in Steps(d) : Verified(d, k)
  /\ \/ /\ ckpt' = [s \in AllRows |-> IF s \in mine THEN "DONE" ELSE ckpt[s]]
        /\ Append1([row EXCEPT !.status = "FAILED_RETRYABLE", !.proof = "verified"], LastId)
        /\ UNCHANGED faults
     \/ /\ faults < MaxFaults /\ faults' = faults + 1
        /\ \E S \in SUBSET mine :
             ckpt' = [s \in AllRows |-> IF s \in S THEN "DONE" ELSE ckpt[s]]
        /\ UNCHANGED <<row, log>>
  /\ UNCHANGED <<merged, mine, history, data, pc, process, held, runs, lost, merges>>

-----------------------------------------------------------------------------

Start ==
  \E b \in BOOLEAN : StartEpoch(b) \/ \E d \in Directions : Restart(d, b)
Advance ==
  \/ BeginStep \/ SkipStatement \/ WriteCheckpoint \/ Execute \/ CheckAfter
  \/ MarkDone \/ EndStep \/ Record \/ FinishRun \/ PersistFailure

Next == Start \/ Advance \/ Fail \/ LoseEvent \/ Crash \/ Merge \/ Abandon \/ VerifiedRetry

Spec == Init /\ [][Next]_vars

(* A run that nothing stops goes on to its end.                            *)
FairSpec == Spec /\ WF_vars(Advance \/ (Fail /\ Unresolved))

-----------------------------------------------------------------------------
(***************************************************************************)
(* Properties.                                                             *)
(***************************************************************************)

(* No statement takes effect twice: not after a crash between its          *)
(* checkpoint and its effect, not after a decision, and not when records   *)
(* of the journal are lost or merged away.                                 *)
NoEffectTwice == repeated = {}

(* A run recorded as successful left every effect of its plan, and one     *)
(* recorded as rolled back every effect of the rollback, also when it      *)
(* skipped statements an earlier run had begun.  The history is written    *)
(* before the status: a final status agrees with it whatever failed.       *)
SuccessIsComplete ==
  /\ row.status = "APPLIED_SUCCESS" =>
       history /\ (row.baseline \/ Effects("upgrade") \subseteq done)
  /\ row.status = "ROLLED_BACK" => Effects("rollback") \subseteq done
  /\ row.status \in {"NOT_STARTED", "ROLLED_BACK"} => ~history

(* In an attempt that may be retried every statement is either not begun   *)
(* and without effect, or DONE and in effect.                              *)
RetryableIsResolved ==
  Resumable(row.direction) =>
    \A s \in Effects(row.direction) :
      \/ ckpt[s] = "none" /\ s \notin done
      \/ ckpt[s] = "DONE" /\ s \in done

(* Once nothing fails any more, a run that was begun, or resumed, reaches  *)
(* the end of its plan.                                                    *)
RetryCompletes ==
  pc = "steps" /\ faults = MaxFaults /\ lost = MaxLost
    ~> row.status \in {"APPLIED_SUCCESS", "ROLLED_BACK"}
=============================================================================
