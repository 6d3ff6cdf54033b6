-------------------------- MODULE DataJournalProofs --------------------------
(***************************************************************************)
(* What DataJournal guarantees for every plan, in both modes, over every   *)
(* number of runs and faults: the history agrees with the journal, and the *)
(* journal implements the life cycle an operator is promised.              *)
(***************************************************************************)
EXTENDS DataJournal, TLAPS

Statuses == {"NOT_STARTED", "APPLYING", "APPLIED_SUCCESS", "FAILED_RETRYABLE",
             "FAILED_FINAL", "UNKNOWN", "ABANDONED", "ROLLED_BACK"}

RowRecords == [epoch : Nat, status : Statuses, direction : Directions,
               proof : Proofs, baseline : BOOLEAN]

(* The part of the types that the argument needs.                          *)
JournalType ==
  /\ mode \in {"transactional", "nontransactional"}
  /\ row \in RowRecords
  /\ history \in BOOLEAN
  /\ dir \in Directions /\ base \in BOOLEAN

(* One transaction leaves only settled rows, and a failed rollback leaves  *)
(* none at all.                                                            *)
TransactionalRow ==
  mode = "transactional" =>
    /\ row.status \in {"NOT_STARTED", "APPLIED_SUCCESS", "FAILED_RETRYABLE", "ROLLED_BACK"}
    /\ row.direction = "rollback" => row.status = "ROLLED_BACK"

(* What a process in the middle of a run finds in its row.                 *)
RunningRow ==
  pc # "idle" =>
    IF mode = "transactional"
      THEN IF dir = "upgrade"
             THEN row.status \in {"NOT_STARTED", "FAILED_RETRYABLE", "ROLLED_BACK"}
             ELSE row.status = "APPLIED_SUCCESS"
      ELSE row.status = "APPLYING" /\ row.direction = dir

FreshRow == row.status = "NOT_STARTED" => row.direction = "upgrade"

JournalInv ==
  JournalType /\ TransactionalRow /\ RunningRow /\ FreshRow /\ HistoryAgrees

LEMMA RowMake ==
  ASSUME NEW e \in Nat, NEW s \in Statuses, NEW d \in Directions, NEW p \in Proofs,
         NEW b \in BOOLEAN
  PROVE  [epoch |-> e, status |-> s, direction |-> d, proof |-> p, baseline |-> b]
           \in RowRecords
BY DEF RowRecords

LEMMA RowUpdate ==
  ASSUME row \in RowRecords, NEW s \in Statuses, NEW d \in Directions, NEW p \in Proofs,
         NEW b \in BOOLEAN
  PROVE  /\ [row EXCEPT !.status = s, !.direction = d, !.proof = p] \in RowRecords
         /\ [row EXCEPT !.status = s, !.baseline = b, !.proof = p] \in RowRecords
         /\ [row EXCEPT !.status = s, !.proof = p] \in RowRecords
         /\ [row EXCEPT !.status = s] \in RowRecords
         /\ row.epoch \in Nat /\ row.epoch + 1 \in Nat
<1>1. [row EXCEPT !.status = s, !.direction = d, !.proof = p] \in RowRecords
  BY DEF RowRecords
<1>2. [row EXCEPT !.status = s, !.baseline = b, !.proof = p] \in RowRecords
  BY DEF RowRecords
<1>3. [row EXCEPT !.status = s, !.proof = p] \in RowRecords
  BY DEF RowRecords
<1>4. [row EXCEPT !.status = s] \in RowRecords
  BY DEF RowRecords
<1>5. row.epoch \in Nat
  BY DEF RowRecords
<1> QED BY <1>1, <1>2, <1>3, <1>4, <1>5

(* The actions that neither touch the row nor start or end a run.          *)
Inner ==
  \/ ExecuteStep \/ SkipStep \/ CheckGuards \/ IntendLocked \/ CommitLocked
  \/ EnterStep \/ WriteCheckpoint \/ Execute \/ FinishStep

LEMMA InnerKeepsRow ==
  ASSUME Inner
  PROVE  /\ pc # "idle" /\ pc' # "idle"
         /\ UNCHANGED <<mode, row, history, dir, base>>
<1> USE DEF journal, data, process, counters
<1>1. CASE ExecuteStep
  BY <1>1 DEF ExecuteStep
<1>2. CASE SkipStep
  BY <1>2 DEF SkipStep, AtStep
<1>3. CASE CheckGuards
  BY <1>3 DEF CheckGuards, AtStep
<1>4. CASE IntendLocked
  BY <1>4 DEF IntendLocked, AtStep
<1>5. CASE CommitLocked
  BY <1>5 DEF CommitLocked
<1>6. CASE EnterStep
  BY <1>6 DEF EnterStep, AtStep
<1>7. CASE WriteCheckpoint
  BY <1>7 DEF WriteCheckpoint
<1>8. CASE Execute
  BY <1>8 DEF Execute
<1>9. CASE FinishStep
  BY <1>9 DEF FinishStep
<1> QED BY <1>1, <1>2, <1>3, <1>4, <1>5, <1>6, <1>7, <1>8, <1>9 DEF Inner

(* Next, with the inner actions as one.                                    *)
LEMMA NextSplit ==
  ASSUME Next
  PROVE  \/ Inner \/ Finish \/ Fail \/ Crash \/ Abandon \/ VerifiedRetry \/ Repair
         \/ \E b \in BOOLEAN : \/ StartEpoch(b)
                               \/ \E d \in Directions : StartTransaction(d, b) \/ Restart(d, b)
BY DEF Next, Start, Advance, Reconcile, Inner

LEMMA VisibleUnknown ==
  ASSUME Visible = "UNKNOWN"
  PROVE  row.status \in {"APPLYING", "UNKNOWN"}
BY DEF Visible

(* The row after a failure, by mode and direction.                         *)
LEMMA FailureRowShape ==
  ASSUME JournalInv, NEW ownership \in BOOLEAN, pc # "idle"
  PROVE  \/ mode = "transactional" /\ dir = "rollback" /\ FailureRow(ownership) = row
         \/ /\ mode = "transactional" /\ dir = "upgrade"
            /\ FailureRow(ownership) =
                 [epoch |-> row.epoch + 1, status |-> "FAILED_RETRYABLE",
                  direction |-> "upgrade", proof |-> "rolled back", baseline |-> base]
         \/ /\ mode = "nontransactional"
            /\ \E s \in {"FAILED_FINAL", "UNKNOWN", "FAILED_RETRYABLE"},
                  p \in {"no effects", "possible effects"} :
                 FailureRow(ownership) =
                   [row EXCEPT !.status = s, !.baseline = base, !.proof = p]
<1>1. CASE mode = "transactional"
  BY <1>1 DEF FailureRow, JournalInv, JournalType, Directions
<1>2. CASE mode = "nontransactional"
  <2>1. FailureStatus(ownership) \in {"FAILED_FINAL", "UNKNOWN", "FAILED_RETRYABLE"}
    BY DEF FailureStatus
  <2> QED BY <1>2, <2>1 DEF FailureRow
<1> QED BY <1>1, <1>2 DEF JournalInv, JournalType

LEMMA JournalInvInit == Init => JournalInv
<1> SUFFICES ASSUME Init PROVE JournalInv
  OBVIOUS
<1>1. row.status = "NOT_STARTED" /\ row.direction = "upgrade" /\ pc = "idle"
  BY DEF Init, NoRun
<1>2. JournalType
  BY ModesAssumption DEF Init, NoRun, JournalType, RowRecords, Statuses, Directions, Proofs
<1>3. HistoryAgrees
  BY <1>1 DEF Init, HistoryAgrees
<1> QED
  BY <1>1, <1>2, <1>3 DEF JournalInv, TransactionalRow, RunningRow, FreshRow

LEMMA JournalInvStep == JournalInv /\ [Next]_vars => JournalInv'
<1> SUFFICES ASSUME JournalInv, [Next]_vars PROVE JournalInv'
  OBVIOUS
<1> USE DEF JournalInv, JournalType, TransactionalRow, RunningRow, FreshRow, HistoryAgrees,
            Directions
<1>1. CASE Inner
  BY <1>1, InnerKeepsRow
<1>2. ASSUME NEW b \in BOOLEAN, StartEpoch(b) PROVE JournalInv'
  <2>1. row' \in RowRecords
    <3>1. row.epoch + 1 \in Nat /\ "APPLYING" \in Statuses /\ "none" \in Proofs
      BY RowUpdate DEF Statuses, Proofs
    <3> QED BY <1>2, <3>1, RowMake DEF StartEpoch
  <2>2. row'.status = "APPLYING" /\ row'.direction = "upgrade"
    BY <1>2 DEF StartEpoch
  <2>3. ~history /\ UNCHANGED <<mode, history>> /\ dir' = "upgrade" /\ base' \in BOOLEAN
    BY <1>2 DEF StartEpoch, Launch
  <2> QED BY <2>1, <2>2, <2>3, <1>2 DEF StartEpoch, RowRecords
<1>3. ASSUME NEW b \in BOOLEAN, NEW d \in Directions, StartTransaction(d, b)
      PROVE  JournalInv'
  BY <1>3 DEF StartTransaction, Launch
<1>4. ASSUME NEW b \in BOOLEAN, NEW d \in Directions, Restart(d, b) PROVE JournalInv'
  <2>1. \/ row.status = "FAILED_RETRYABLE" /\ row.direction = d
        \/ d = "rollback" /\ row.status = "APPLIED_SUCCESS"
    <3>1. CanRestart(d, b)
      BY <1>4 DEF Restart
    <3> QED BY <3>1 DEF CanRestart, Resumable
  <2>2. row' \in RowRecords
    <3>1. "APPLYING" \in Statuses /\ "none" \in Proofs
      BY DEF Statuses, Proofs
    <3> QED BY <1>4, <3>1, RowUpdate DEF Restart
  <2>3. row'.status = "APPLYING" /\ row'.direction = d
    BY <1>4 DEF Restart
  <2>4. UNCHANGED <<mode, history>> /\ dir' = d /\ base' \in BOOLEAN
    BY <1>4 DEF Restart, Launch
  <2>5. mode = "nontransactional"
    BY <1>4 DEF Restart
  <2>6. history <=> d = "rollback"
    BY <2>1
  <2>7. HistoryAgrees'
    BY <2>3, <2>4, <2>6
  <2> QED BY <2>2, <2>3, <2>4, <2>5, <2>7 DEF RowRecords
<1>5. CASE Finish
  <2>1. row' \in RowRecords
    <3>1. /\ row.epoch \in Nat /\ row.epoch + 1 \in Nat /\ "none" \in Proofs
          /\ "APPLIED_SUCCESS" \in Statuses /\ "ROLLED_BACK" \in Statuses
      BY RowUpdate DEF Statuses, Proofs
    <3> QED BY <1>5, <3>1, RowMake DEF Finish
  <2>2. /\ row'.status = IF dir = "upgrade" THEN "APPLIED_SUCCESS" ELSE "ROLLED_BACK"
        /\ row'.direction = dir
    BY <1>5 DEF Finish
  <2>3. pc' = "idle" /\ UNCHANGED <<mode, dir, base>>
    BY <1>5 DEF Finish, process
  <2>4. history' \in BOOLEAN /\ (history' <=> dir = "upgrade")
    BY <1>5 DEF Finish, Recorded
  <2> QED BY <2>1, <2>2, <2>3, <2>4 DEF RowRecords
<1>6. CASE Fail
  <2>1. PICK ownership \in BOOLEAN : row' = FailureRow(ownership)
    BY <1>6 DEF Fail
  <2>2. pc # "idle" /\ pc' = "idle" /\ UNCHANGED <<mode, history, dir, base>>
    BY <1>6 DEF Fail, process
  <2>3. CASE row' = row
    BY <2>2, <2>3
  <2>4. CASE /\ mode = "transactional" /\ dir = "upgrade"
             /\ row' = [epoch |-> row.epoch + 1, status |-> "FAILED_RETRYABLE",
                        direction |-> "upgrade", proof |-> "rolled back", baseline |-> base]
    <3>1. row' \in RowRecords
      <4>1. /\ row.epoch + 1 \in Nat /\ "FAILED_RETRYABLE" \in Statuses
            /\ "rolled back" \in Proofs
        BY RowUpdate DEF Statuses, Proofs
      <4> QED BY <2>4, <4>1, RowMake
    <3>2. row'.status = "FAILED_RETRYABLE" /\ row'.direction = "upgrade"
      BY <2>4
    <3> QED BY <2>2, <2>4, <3>1, <3>2 DEF RowRecords
  <2>5. CASE /\ mode = "nontransactional"
             /\ \E s \in {"FAILED_FINAL", "UNKNOWN", "FAILED_RETRYABLE"},
                   p \in {"no effects", "possible effects"} :
                  row' = [row EXCEPT !.status = s, !.baseline = base, !.proof = p]
    <3>1. PICK s \in {"FAILED_FINAL", "UNKNOWN", "FAILED_RETRYABLE"},
               p \in {"no effects", "possible effects"} :
                 row' = [row EXCEPT !.status = s, !.baseline = base, !.proof = p]
      BY <2>5
    <3>2. s \in Statuses /\ p \in Proofs
      BY DEF Statuses, Proofs
    <3>3. row' \in RowRecords
      BY <3>1, <3>2, RowUpdate
    <3>4. row'.status = s /\ row'.direction = dir /\ row.direction = dir /\ row.status = "APPLYING"
      BY <2>2, <2>5, <3>1 DEF RowRecords
    <3> QED BY <2>2, <2>5, <3>3, <3>4
  <2> QED BY <2>1, <2>2, <2>3, <2>4, <2>5, FailureRowShape
<1>7. CASE Crash
  BY <1>7 DEF Crash, journal, process
<1>8. CASE Abandon
  <2>1. row' \in RowRecords
    <3>1. "ABANDONED" \in Statuses /\ row.proof \in Proofs
      BY DEF Statuses, RowRecords
    <3> QED BY <1>8, <3>1, RowUpdate DEF Abandon
  <2>2. row'.status = "ABANDONED" /\ row'.direction = row.direction
    BY <1>8 DEF Abandon, RowRecords
  <2>3. pc' = "idle" /\ UNCHANGED <<mode, history, dir, base>> /\ mode = "nontransactional"
    BY <1>8 DEF Abandon, process
  <2>4. row.status \in {"APPLYING", "UNKNOWN"}
    BY <1>8, VisibleUnknown DEF Abandon
  <2> QED BY <2>1, <2>2, <2>3, <2>4
<1>9. CASE VerifiedRetry
  <2>1. row' \in RowRecords
    BY <1>9, RowUpdate DEF VerifiedRetry, Statuses, Proofs
  <2>2. row'.status = "FAILED_RETRYABLE" /\ row'.direction = row.direction
    BY <1>9 DEF VerifiedRetry, RowRecords
  <2>3. pc' = "idle" /\ UNCHANGED <<mode, history, dir, base>> /\ mode = "nontransactional"
    BY <1>9 DEF VerifiedRetry, process
  <2>4. row.status \in {"APPLYING", "UNKNOWN"}
    BY <1>9, VisibleUnknown DEF VerifiedRetry
  <2> QED BY <2>1, <2>2, <2>3, <2>4
<1>10. CASE Repair
  BY <1>10 DEF Repair, journal, process
<1>11. CASE UNCHANGED vars
  BY <1>11 DEF vars, journal, process
<1> QED
  BY <1>1, <1>2, <1>3, <1>4, <1>5, <1>6, <1>7, <1>8, <1>9, <1>10, <1>11, NextSplit

LEMMA JournalInvariant == Spec => []JournalInv
BY JournalInvInit, JournalInvStep, PTL DEF Spec

(* The row in _dbwarden_migrations never contradicts the data journal:     *)
(* record_success and _finish_run are one commit in both modes, and no     *)
(* failure, crash or decision touches the one without the other.           *)
THEOREM HistoryConsistent == Spec => []HistoryAgrees
<1>1. JournalInv => HistoryAgrees
  BY DEF JournalInv
<1> QED BY <1>1, JournalInvariant, PTL

(* The status an operator sees, as the life cycle is instantiated with.    *)
Shown == IF pc = "idle" THEN Visible ELSE row.status

LEMMA LifecycleStep == JournalInv /\ [Next]_vars => [Lifecycle!Next]_(Lifecycle!vars)
<1> SUFFICES ASSUME JournalInv, [Next]_vars
             PROVE  \/ Lifecycle!Next
                    \/ row.epoch' = row.epoch /\ Shown' = Shown
  BY DEF Lifecycle!vars, Shown
<1> USE DEF JournalInv, JournalType, TransactionalRow, RunningRow, Directions, Visible, Shown
<1> USE DEF Lifecycle!Next, Lifecycle!NewEpoch, Lifecycle!Resume, Lifecycle!RollBack,
            Lifecycle!Settle, Lifecycle!Decide, Lifecycle!Statuses
<1> DEFINE Goal == Lifecycle!Next \/ (row.epoch' = row.epoch /\ Shown' = Shown)
<1>1. CASE Inner
  BY <1>1, InnerKeepsRow
<1>2. ASSUME NEW b \in BOOLEAN, StartEpoch(b) PROVE Goal
  BY <1>2 DEF StartEpoch, Launch
<1>3. ASSUME NEW b \in BOOLEAN, NEW d \in Directions, StartTransaction(d, b) PROVE Goal
  BY <1>3 DEF StartTransaction, Launch
<1>4. ASSUME NEW b \in BOOLEAN, NEW d \in Directions, Restart(d, b) PROVE Goal
  BY <1>4 DEF Restart, CanRestart, Resumable, Launch
<1>5. CASE Finish
  BY <1>5 DEF Finish
<1>6. CASE Fail
  <2>1. PICK ownership \in BOOLEAN : row' = FailureRow(ownership)
    BY <1>6 DEF Fail
  <2>2. pc # "idle" /\ pc' = "idle" /\ UNCHANGED <<mode, history, dir, base>>
    BY <1>6 DEF Fail, process
  <2>3. CASE row' = row /\ mode = "transactional"
    BY <2>2, <2>3
  <2>4. CASE /\ mode = "transactional" /\ dir = "upgrade"
             /\ row' = [epoch |-> row.epoch + 1, status |-> "FAILED_RETRYABLE",
                        direction |-> "upgrade", proof |-> "rolled back", baseline |-> base]
    BY <2>2, <2>4
  <2>5. CASE /\ mode = "nontransactional"
             /\ \E s \in {"FAILED_FINAL", "UNKNOWN", "FAILED_RETRYABLE"},
                   p \in {"no effects", "possible effects"} :
                  row' = [row EXCEPT !.status = s, !.baseline = base, !.proof = p]
    <3>1. PICK s \in {"FAILED_FINAL", "UNKNOWN", "FAILED_RETRYABLE"},
               p \in {"no effects", "possible effects"} :
                 row' = [row EXCEPT !.status = s, !.baseline = base, !.proof = p]
      BY <2>5
    <3>2. row'.status = s /\ row'.epoch = row.epoch /\ row.status = "APPLYING"
      BY <2>2, <2>5, <3>1 DEF RowRecords
    <3> QED BY <2>2, <2>5, <3>2
  <2> QED BY <2>1, <2>2, <2>3, <2>4, <2>5, FailureRowShape
<1>7. CASE Crash
  BY <1>7 DEF Crash, journal
<1>8. CASE Abandon
  BY <1>8 DEF Abandon
<1>9. CASE VerifiedRetry
  BY <1>9 DEF VerifiedRetry
<1>10. CASE Repair
  BY <1>10 DEF Repair, journal
<1>11. CASE UNCHANGED vars
  BY <1>11 DEF vars, journal
<1> QED
  BY <1>1, <1>2, <1>3, <1>4, <1>5, <1>6, <1>7, <1>8, <1>9, <1>10, <1>11, NextSplit

(* The journal implements the documented life cycle: no uncertain attempt  *)
(* is taken up again before a decision, and no status of an epoch follows  *)
(* another one than DataRunLifecycle allows.                               *)
THEOREM LifecycleRefined == Spec => LifecycleSpec
<1>1. Init => Lifecycle!Init
  BY DEF Init, NoRun, Lifecycle!Init, Visible
<1>2. JournalInv /\ [Next]_vars => [Lifecycle!Next]_(Lifecycle!vars)
  BY LifecycleStep
<1> QED BY <1>1, <1>2, JournalInvariant, PTL DEF Spec, LifecycleSpec, Lifecycle!Spec

(***************************************************************************)
(* Every effect exactly once: over any failures, crashes, retries and      *)
(* decisions of an operator no statement takes effect twice, a success is  *)
(* complete, and an attempt that may be retried has no step half done.     *)
(***************************************************************************)

(* A step that was not begun, and one that is over.                        *)
Clean(d, k) == Untouched(d, k) /\ Statements(d, k) \cap done = {}
Kept(d, k) == Complete(d, k) /\ Statements(d, k) \subseteq done
Whole(d, k) == Clean(d, k) \/ Kept(d, k)

EffectType ==
  /\ pc \in PCs
  /\ ckpt \in [AllRows -> Marks]
  /\ mine \subseteq AllRows
  /\ step \in Nat \ {0} /\ at \in Nat \ {0} /\ possible \in BOOLEAN
  /\ dir = "rollback" /\ pc # "idle" => ~base

(* One transaction: nothing is durable but a whole upgrade, and the open   *)
(* transaction has the steps before the cursor.                            *)
OneTransaction ==
  mode = "transactional" =>
    /\ pc \in {"idle", "steps"}
    /\ pc = "idle" => dirty = {}
    /\ dirty \subseteq Effects(dir)
    /\ pc = "steps" => \A k \in Steps(dir) : k < step => Statements(dir, k) \subseteq dirty
    /\ row.status # "APPLIED_SUCCESS" => done = {}
    /\ done \subseteq Effects("upgrade")
    /\ row.proof \in {"none", "rolled back"}

(* With checkpoints: what the row says of them.                            *)
RowMeans ==
  mode = "nontransactional" =>
    /\ row.status = "APPLIED_SUCCESS" => row.direction = "upgrade"
    /\ row.status \in {"NOT_STARTED", "ROLLED_BACK"} => done = {}
    /\ row.direction = "upgrade" => \A k \in Steps("rollback") : Clean("rollback", k)
    /\ \A s \in mine : ckpt[s] # "none" /\ s[1] = row.direction

(* A step that is half done was touched by the last run, whose status is   *)
(* not one from which a run is started.                                    *)
BetweenRuns ==
  mode = "nontransactional" /\ pc = "idle" =>
    /\ dirty = {}
    /\ row.status # "ROLLED_BACK" =>
         \A k \in Steps(row.direction) :
           \/ Whole(row.direction, k)
           \/ /\ row.status \notin {"NOT_STARTED", "APPLIED_SUCCESS", "FAILED_RETRYABLE"}
              /\ Touched(row.direction, k)

Locking ==
  /\ pc = "locked" /\ dirty = {} /\ possible
  /\ Statements(dir, step) \cap done = {} /\ Rows(dir, step) \subseteq mine

(* The cursor separates the statements that were executed from those that  *)
(* are to be.                                                              *)
Stepping ==
  /\ pc \in {"checkpoint", "execute", "after"}
  /\ at <= Len(Body[dir][step]) + 1
  /\ \A i \in 1 .. Len(Body[dir][step]) :
       /\ i < at => <<dir, step, i>> \in done \cup dirty /\ <<dir, step, i>> \in mine
       /\ i >= at => <<dir, step, i>> \notin done \cup dirty
       /\ i > at \/ (i = at /\ pc = "checkpoint") => ckpt[<<dir, step, i>>] = "none"
  /\ dirty \subseteq Statements(dir, step) /\ dirty \cap done = {}
  /\ pc = "checkpoint" => at <= Len(Body[dir][step])
  /\ pc = "execute" =>
       at <= Len(Body[dir][step]) /\ dirty = {} /\ <<dir, step, at>> \in mine
  /\ pc = "after" => at > Len(Body[dir][step])
  /\ possible \/ (pc = "checkpoint" /\ at = 1)

(* During a run the step in hand is the only one that may be half done.    *)
InRun ==
  mode = "nontransactional" /\ pc # "idle" =>
    /\ \A k \in Steps(dir) : k # step => Whole(dir, k)
    /\ \A k \in Steps(dir) : k < step => Kept(dir, k)
    /\ pc = "steps" => dirty = {} /\ (step \in Steps(dir) => Whole(dir, step))
    /\ pc # "steps" =>
         /\ step \in Steps(dir) /\ ~base /\ Body[dir][step] # << >>
         /\ Locking \/ Stepping

EffectInv ==
  /\ EffectType /\ OneTransaction /\ RowMeans /\ BetweenRuns /\ InRun
  /\ NoEffectTwice /\ SuccessIsComplete

-----------------------------------------------------------------------------
(* The rows and the statements of a step are its own.                      *)
LEMMA StepShape ==
  ASSUME NEW d \in Directions, NEW k \in Steps(d)
  PROVE  /\ Len(Body[d][k]) \in Nat
         /\ Rows(d, k) \subseteq AllRows /\ Rows(d, k) # {}
         /\ \A s \in Rows(d, k) \cup Statements(d, k) : s[1] = d /\ s[2] = k
         /\ Body[d][k] = << >> => Statements(d, k) = {}
         /\ Body[d][k] # << >> => /\ Rows(d, k) = Statements(d, k)
                                  /\ Len(Body[d][k]) > 0
         /\ Statements(d, k) \subseteq Effects(d)
<1>1. Body[d] \in Seq(Seq({"dml", "ddl", "insert"}))
  BY PlanAssumption
<1>2. Body[d][k] \in Seq({"dml", "ddl", "insert"})
  BY <1>1 DEF Steps
<1>3. Len(Body[d][k]) \in Nat
  BY <1>2
<1>4. Body[d][k] # << >> => Len(Body[d][k]) > 0
  BY <1>2
<1>5. \A s \in Statements(d, k) : s[1] = d /\ s[2] = k
  BY DEF Statements
<1>6. \A s \in Rows(d, k) : s[1] = d /\ s[2] = k
  BY <1>5 DEF Rows
<1>7. Rows(d, k) \subseteq AllRows
  BY DEF AllRows
<1>8. Body[d][k] # << >> => <<d, k, 1>> \in Statements(d, k)
  BY <1>3, <1>4 DEF Statements
<1>9. Rows(d, k) # {}
  BY <1>8 DEF Rows
<1>10. Body[d][k] = << >> => Statements(d, k) = {}
  BY DEF Statements
<1>11. Statements(d, k) \subseteq Effects(d)
  BY DEF Effects
<1> QED BY <1>3, <1>4, <1>5, <1>6, <1>7, <1>9, <1>10, <1>11 DEF Rows

LEMMA RowsCover ==
  ASSUME NEW s \in AllRows
  PROVE  \E d \in Directions : \E k \in Steps(d) : s \in Rows(d, k)
BY DEF AllRows

LEMMA EffectsOfDirection ==
  ASSUME NEW d \in Directions, NEW s \in Effects(d)
  PROVE  s[1] = d
BY StepShape DEF Effects

(* Whatever happens in one step leaves the others as they are.             *)
LEMMA Elsewhere ==
  ASSUME NEW e \in Directions, NEW l,
         \A s \in AllRows : (s[1] = e /\ s[2] = l) \/ ckpt'[s] = ckpt[s],
         done \subseteq done',
         \A s \in done' \ done : s[1] = e /\ s[2] = l,
         NEW d \in Directions, NEW k \in Steps(d), d # e \/ k # l
  PROVE  /\ Clean(d, k) => Clean(d, k)'
         /\ Kept(d, k) => Kept(d, k)'
         /\ Whole(d, k) => Whole(d, k)'
<1>1. \A s \in Rows(d, k) : ckpt'[s] = ckpt[s]
  BY StepShape
<1>2. Statements(d, k) \cap done' = Statements(d, k) \cap done
  BY StepShape
<1>3. Clean(d, k) => Clean(d, k)'
  BY <1>1, <1>2 DEF Clean, Untouched
<1>4. Kept(d, k) => Kept(d, k)'
  BY <1>1, <1>2 DEF Kept, Complete
<1> QED BY <1>3, <1>4 DEF Whole

(* Nothing happens to checkpoints and effects.                             *)
LEMMA Nowhere ==
  ASSUME ckpt' = ckpt, done' = done,
         NEW d \in Directions, NEW k \in Steps(d)
  PROVE  /\ Clean(d, k)' <=> Clean(d, k)
         /\ Kept(d, k)' <=> Kept(d, k)
         /\ Whole(d, k)' <=> Whole(d, k)
BY DEF Clean, Kept, Whole, Untouched, Complete

LEMMA ModeFixed ==
  ASSUME [Next]_vars
  PROVE  mode' = mode
<1> USE DEF vars, journal, data, process, counters
<1>1. CASE Inner
  BY <1>1, InnerKeepsRow
<1>2. ASSUME NEW b \in BOOLEAN, StartEpoch(b) PROVE mode' = mode
  BY <1>2 DEF StartEpoch, Launch
<1>3. ASSUME NEW b \in BOOLEAN, NEW d \in Directions, StartTransaction(d, b) \/ Restart(d, b)
      PROVE  mode' = mode
  BY <1>3 DEF StartTransaction, Restart, Launch
<1>4. CASE Finish \/ Fail \/ Crash \/ Abandon \/ VerifiedRetry \/ Repair
  BY <1>4 DEF Finish, Fail, Crash, Abandon, VerifiedRetry, Repair
<1> QED BY <1>1, <1>2, <1>3, <1>4, NextSplit

-----------------------------------------------------------------------------
(* The steps of a run in one transaction.                                  *)
LEMMA TransactionalStep ==
  ASSUME JournalInv, EffectInv, mode = "transactional", [Next]_vars
  PROVE  EffectInv'
<1> USE DEF Directions
<1>0. mode' = "transactional"
  BY ModeFixed
<1>a. (RowMeans /\ BetweenRuns /\ InRun)'
  BY <1>0 DEF RowMeans, BetweenRuns, InRun
<1>b. EffectType /\ OneTransaction /\ repeated = {} /\ SuccessIsComplete
  BY DEF EffectInv, NoEffectTwice
<1>c. dir \in Directions /\ base \in BOOLEAN /\ row \in RowRecords
  BY DEF JournalInv, JournalType
<1> SUFFICES (EffectType /\ OneTransaction /\ NoEffectTwice /\ SuccessIsComplete)'
  BY <1>a DEF EffectInv
<1>1. ASSUME NEW b \in BOOLEAN, NEW d \in Directions, StartTransaction(d, b)
      PROVE  (EffectType /\ OneTransaction /\ NoEffectTwice /\ SuccessIsComplete)'
  <2>1. /\ pc = "idle" /\ pc' = "steps" /\ step' = 1 /\ at' = 1 /\ dir' = d /\ base' = b
        /\ UNCHANGED <<row, ckpt, mine, done, repeated, dirty>> /\ possible' = FALSE
        /\ d = "rollback" => ~b
    BY <1>1 DEF StartTransaction, Launch, data
  <2>2. EffectType'
    <3>1. step' \in Nat \ {0} /\ at' \in Nat \ {0}
      BY <2>1
    <3>5. possible' \in BOOLEAN
      BY <2>1
    <3>2. ckpt' \in [AllRows -> Marks] /\ mine' \subseteq AllRows
      BY <1>b, <2>1 DEF EffectType
    <3>3. pc' \in PCs
      BY <2>1 DEF PCs
    <3>4. dir' = "rollback" => ~base'
      BY <2>1, Zenon
    <3> QED BY <3>1, <3>2, <3>3, <3>4, <3>5 DEF EffectType
  <2>3. OneTransaction'
    <3>1. dirty' = {}
      BY <1>b, <2>1 DEF OneTransaction
    <3>2. \A k \in Steps(dir') : ~(k < step')
      BY <2>1, <1>c, PlanAssumption DEF Steps
    <3> QED BY <1>b, <2>1, <3>1, <3>2 DEF OneTransaction
  <2> QED BY <1>b, <2>1, <2>2, <2>3 DEF NoEffectTwice, SuccessIsComplete
<1>2. CASE ExecuteStep
  <2>1. /\ pc = "steps" /\ step \in Steps(dir) /\ step' = step + 1
        /\ dirty' = dirty \cup Statements(dir, step)
        /\ UNCHANGED <<row, ckpt, mine, done, repeated, pc, dir, base, at, possible>>
    BY <1>2 DEF ExecuteStep, journal, data
  <2>2. EffectType'
    BY <1>b, <2>1 DEF EffectType
  <2>3. dirty' \subseteq Effects(dir)
    BY <1>b, <1>0, <1>c, <2>1, StepShape DEF OneTransaction
  <2>4. \A k \in Steps(dir) : k < step' => Statements(dir, k) \subseteq dirty'
    <3>1. \A k \in Steps(dir) : k < step' => k < step \/ k = step
      BY <1>b, <1>c, <2>1, PlanAssumption DEF EffectType, Steps
    <3> QED BY <1>b, <2>1, <3>1 DEF OneTransaction
  <2>5. OneTransaction'
    BY <1>b, <2>1, <2>3, <2>4 DEF OneTransaction
  <2> QED BY <1>b, <2>1, <2>2, <2>5 DEF NoEffectTwice, SuccessIsComplete
<1>3. CASE Finish
  <2>1. /\ pc = "steps" /\ (base \/ step \notin Steps(dir))
        /\ dirty' = {} /\ pc' = "idle" /\ repeated' = repeated \cup (done \cap dirty)
        /\ UNCHANGED <<ckpt, mine, dir, base, step, at, possible>>
        /\ row'.status = IF dir = "upgrade" THEN "APPLIED_SUCCESS" ELSE "ROLLED_BACK"
        /\ row'.proof = "none" /\ row'.baseline = base
        /\ done' = IF dir = "rollback" /\ Effects("rollback") \subseteq done \cup dirty
                     THEN {} ELSE done \cup dirty
    BY <1>3 DEF Finish, process
  <2>2. ~base => Effects(dir) \subseteq dirty
    <3>1. ~base => \A k \in Steps(dir) : k < step
      BY <1>b, <2>1, PlanAssumption, <1>c DEF EffectType, Steps
    <3>2. ~base => \A k \in Steps(dir) : Statements(dir, k) \subseteq dirty
      BY <1>b, <2>1, <3>1 DEF OneTransaction
    <3> QED BY <3>2 DEF Effects
  <2>3. CASE dir = "upgrade"
    <3>1. done = {}
      BY <1>b, <2>3, <2>1 DEF JournalInv, RunningRow, OneTransaction
    <3>2. done' = dirty /\ repeated' = {}
      BY <1>b, <2>1, <2>3, <3>1
    <3>3. dirty \subseteq Effects("upgrade")
      BY <1>b, <2>3 DEF OneTransaction
    <3>4. EffectType'
      BY <1>b, <2>1 DEF EffectType, PCs
    <3>5. OneTransaction'
      BY <2>1, <2>3, <3>2, <3>3 DEF OneTransaction
    <3> QED BY <2>1, <2>2, <2>3, <3>2, <3>4, <3>5 DEF NoEffectTwice, SuccessIsComplete
  <2>4. CASE dir = "rollback"
    <3>1. done \subseteq Effects("upgrade") /\ dirty \subseteq Effects("rollback")
      BY <1>b, <2>4 DEF OneTransaction
    <3>2. done \cap dirty = {}
      BY <3>1, EffectsOfDirection
    <3>3. ~base
      BY <1>b, <2>1, <2>4 DEF EffectType
    <3>4. done' = {} /\ repeated' = {}
      BY <1>b, <2>1, <2>2, <2>4, <3>2, <3>3
    <3>5. EffectType'
      BY <1>b, <2>1 DEF EffectType, PCs
    <3>6. OneTransaction'
      BY <2>1, <2>4, <3>4 DEF OneTransaction
    <3> QED BY <2>1, <2>4, <3>4, <3>5, <3>6 DEF NoEffectTwice, SuccessIsComplete
  <2> QED BY <1>c, <2>3, <2>4
<1>4. CASE Fail
  <2>1. PICK ownership \in BOOLEAN : row' = FailureRow(ownership)
    BY <1>4 DEF Fail
  <2>2. /\ pc # "idle" /\ dirty' = {} /\ pc' = "idle"
        /\ UNCHANGED <<ckpt, mine, done, repeated, dir, base, step, at, possible>>
    BY <1>4 DEF Fail, data, process
  <2>3. EffectType'
    BY <1>b, <2>2 DEF EffectType, PCs
  <2>4. CASE row' = row
    BY <1>b, <2>2, <2>3, <2>4 DEF OneTransaction, NoEffectTwice, SuccessIsComplete
  <2>5. CASE dir = "upgrade" /\ row'.status = "FAILED_RETRYABLE" /\ row'.proof = "rolled back"
    <3>1. done = {}
      BY <1>b, <2>2, <2>5 DEF JournalInv, RunningRow, OneTransaction
    <3> QED BY <1>b, <2>2, <2>3, <2>5, <3>1 DEF OneTransaction, NoEffectTwice, SuccessIsComplete
  <2>6. row' = row \/ (dir = "upgrade" /\ row'.status = "FAILED_RETRYABLE"
                                    /\ row'.proof = "rolled back")
    <3>1. CASE FailureRow(ownership) = row
      BY <2>1, <3>1
    <3>2. CASE /\ dir = "upgrade"
               /\ FailureRow(ownership) =
                    [epoch |-> row.epoch + 1, status |-> "FAILED_RETRYABLE",
                     direction |-> "upgrade", proof |-> "rolled back", baseline |-> base]
      <4>1. row' = [epoch |-> row.epoch + 1, status |-> "FAILED_RETRYABLE",
                    direction |-> "upgrade", proof |-> "rolled back", baseline |-> base]
        BY <2>1, <3>2, Zenon
      <4>2. row'.status = "FAILED_RETRYABLE" /\ row'.proof = "rolled back"
        BY <4>1
      <4> QED BY <3>2, <4>2
    <3>3. mode # "nontransactional" /\ pc # "idle"
      BY <2>2
    <3> QED BY <2>1, <3>1, <3>2, <3>3, FailureRowShape, Zenon
  <2> QED BY <2>4, <2>5, <2>6
<1>5. CASE Crash
  <2>1. /\ dirty' = {} /\ pc' = "idle"
        /\ UNCHANGED <<row, ckpt, mine, done, repeated, dir, base, step, at, possible>>
    BY <1>5 DEF Crash, journal, data, process
  <2> QED BY <1>b, <2>1 DEF EffectType, PCs, OneTransaction, NoEffectTwice, SuccessIsComplete
<1>6. CASE Repair
  <2>1. row.status \in {"APPLYING", "UNKNOWN"}
    BY <1>6, VisibleUnknown DEF Repair
  <2> QED BY <2>1 DEF JournalInv, TransactionalRow
<1>7. CASE UNCHANGED vars
  BY <1>b, <1>7 DEF vars, journal, data, process, EffectType, OneTransaction, NoEffectTwice,
                    SuccessIsComplete
<1>8. CASE /\ Inner
           /\ ~ExecuteStep
  BY <1>8, <1>b DEF Inner, SkipStep, CheckGuards, IntendLocked, CommitLocked, EnterStep,
       WriteCheckpoint, Execute, FinishStep, AtStep, OneTransaction
<1>9. ASSUME NEW b \in BOOLEAN,
             StartEpoch(b) \/ \E d \in Directions : Restart(d, b)
      PROVE  FALSE
  BY <1>9 DEF StartEpoch, Restart
<1>10. ~Abandon /\ ~VerifiedRetry
  BY DEF Abandon, VerifiedRetry
<1> QED BY <1>1, <1>2, <1>3, <1>4, <1>5, <1>6, <1>7, <1>8, <1>9, <1>10, NextSplit

-----------------------------------------------------------------------------
(* With checkpoints: a step of a run touches only the checkpoints and the  *)
(* effects of its own step, and takes no checkpoint back.                  *)
WithinStep ==
  /\ pc # "idle" /\ pc' \in PCs \ {"idle"}
  /\ UNCHANGED <<mode, row, dir, base>> /\ repeated' = {}
  /\ step \in Steps(dir) /\ step' \in Nat \ {0} /\ at' \in Nat \ {0} /\ possible' \in BOOLEAN
  /\ ckpt' \in [AllRows -> Marks]
  /\ \A s \in AllRows \ Rows(dir, step) : ckpt'[s] = ckpt[s]
  /\ \A s \in Rows(dir, step) : ckpt[s] # "none" => ckpt'[s] # "none"
  /\ mine \subseteq mine'
  /\ \A s \in mine' \ mine : s \in Rows(dir, step) /\ ckpt'[s] # "none"
  /\ done \subseteq done' /\ done' \ done \subseteq Statements(dir, step)

(* Such a step preserves everything but what is said of the step itself.   *)
LEMMA WithinStepKeeps ==
  ASSUME JournalInv, EffectInv, mode = "nontransactional", WithinStep
  PROVE  /\ EffectType' /\ OneTransaction' /\ RowMeans' /\ BetweenRuns'
         /\ NoEffectTwice' /\ SuccessIsComplete'
         /\ \A k \in Steps(dir) :
              k # step => (Kept(dir, k) => Kept(dir, k)') /\ (Whole(dir, k) => Whole(dir, k)')
<1>1. EffectType /\ RowMeans
  BY DEF EffectInv
<1>2. dir \in Directions /\ row.status = "APPLYING" /\ row.direction = dir
  BY DEF JournalInv, JournalType, RunningRow, WithinStep
<1>3. \A s \in Rows(dir, step) \cup Statements(dir, step) : s[1] = dir /\ s[2] = step
  BY <1>2, StepShape DEF WithinStep
<1>4. /\ \A s \in AllRows : (s[1] = dir /\ s[2] = step) \/ ckpt'[s] = ckpt[s]
      /\ \A s \in done' \ done : s[1] = dir /\ s[2] = step
      /\ done \subseteq done'
  BY <1>3 DEF WithinStep
<1>5. Rows(dir, step) \subseteq AllRows
  BY <1>2, StepShape DEF WithinStep
<1>6. EffectType'
  <2>1. mine' \subseteq AllRows
    BY <1>1, <1>5 DEF EffectType, WithinStep
  <2>2. dir' = "rollback" => ~base'
    BY <1>1 DEF EffectType, WithinStep
  <2> QED BY <2>1, <2>2 DEF EffectType, WithinStep
<1>7. \A k \in Steps(dir) :
        k # step => (Kept(dir, k) => Kept(dir, k)') /\ (Whole(dir, k) => Whole(dir, k)')
  <2>1. dir' = dir
    BY DEF WithinStep
  <2> SUFFICES ASSUME NEW k \in Steps(dir), k # step
               PROVE  (Kept(dir, k) => Kept(dir, k)') /\ (Whole(dir, k) => Whole(dir, k)')
    OBVIOUS
  <2>2. ASSUME NEW d \in Directions, d = dir
        PROVE  (Kept(d, k) => Kept(d, k)') /\ (Whole(d, k) => Whole(d, k)')
    BY <1>4, <2>2, Elsewhere
  <2> QED BY <1>2, <2>1, <2>2 DEF Kept, Whole, Clean, Complete, Untouched
<1>8. RowMeans'
  <2>1. row.direction = "upgrade" =>
          \A k \in Steps("rollback") : Clean("rollback", k) => Clean("rollback", k)'
    BY <1>2, <1>4, Elsewhere DEF Directions
  <2>2. row.direction = "upgrade" => \A k \in Steps("rollback") : Clean("rollback", k)
    BY <1>1 DEF RowMeans
  <2>3. \A s \in mine' : ckpt'[s] # "none" /\ s[1] = row.direction
    <3>1. ASSUME NEW s \in mine PROVE ckpt'[s] # "none" /\ s[1] = row.direction
      BY <1>1 DEF RowMeans, EffectType, WithinStep
    <3>2. ASSUME NEW s \in mine' \ mine PROVE ckpt'[s] # "none" /\ s[1] = row.direction
      BY <1>2, <1>3, <3>2 DEF WithinStep
    <3> QED BY <3>1, <3>2
  <2>4. row' = row
    BY DEF WithinStep
  <2> QED BY <1>2, <2>1, <2>2, <2>3, <2>4 DEF RowMeans
<1>9. OneTransaction' /\ BetweenRuns' /\ NoEffectTwice' /\ SuccessIsComplete'
  BY <1>2 DEF OneTransaction, BetweenRuns, NoEffectTwice, SuccessIsComplete, WithinStep
<1> QED BY <1>6, <1>7, <1>8, <1>9

(* What a run finds of the step it comes to.                               *)
LEMMA AtStepWhole ==
  ASSUME JournalInv, EffectInv, AtStep
  PROVE  /\ Complete(dir, step) => Kept(dir, step)
         /\ Untouched(dir, step) => Clean(dir, step)
<1>1. dir \in Directions /\ step \in Steps(dir) /\ Whole(dir, step)
  BY DEF JournalInv, JournalType, EffectInv, InRun, AtStep
<1>2. ~(Complete(dir, step) /\ Untouched(dir, step))
  BY <1>1, StepShape DEF Complete, Untouched
<1> QED BY <1>1, <1>2 DEF Whole, Clean, Kept

(* The cursor moves on from a step that is over.                           *)
LEMMA NextStep ==
  ASSUME JournalInv, EffectInv, mode = "nontransactional", WithinStep,
         pc' = "steps", dirty' = {}, step' = step + 1,
         \A k \in Steps(dir) : k = step => Kept(dir, k)'
  PROVE  EffectInv'
<1>1. InRun
  BY DEF EffectInv
<1>2. \A k \in Steps(dir) : k # step => Whole(dir, k)
  BY <1>1 DEF InRun, WithinStep
<1>3. \A k \in Steps(dir) : k < step => Kept(dir, k)
  BY <1>1 DEF InRun, WithinStep
<1>4. \A k \in Steps(dir) : Whole(dir, k)'
  <2>1. \A k \in Steps(dir) : k # step => Whole(dir, k)'
    BY <1>2, WithinStepKeeps
  <2> QED BY <2>1 DEF Whole
<1>5. \A k \in Steps(dir) : k < step' => k < step \/ k = step
  <2>1. dir \in Directions
    BY DEF JournalInv, JournalType
  <2> QED BY <2>1, PlanAssumption DEF Steps, WithinStep
<1>6. \A k \in Steps(dir) : k < step' => Kept(dir, k)'
  <2>1. \A k \in Steps(dir) : k < step => k # step
    BY PlanAssumption DEF Steps, WithinStep
  <2> QED BY <1>3, <1>5, <2>1, WithinStepKeeps
<1>7. InRun'
  BY <1>4, <1>6 DEF InRun, WithinStep
<1> QED BY <1>7, WithinStepKeeps DEF EffectInv

(* The cursor stays in a step whose statements it is at.                   *)
LEMMA StayInStep ==
  ASSUME JournalInv, EffectInv, mode = "nontransactional", WithinStep,
         pc' # "steps", UNCHANGED step, ~base, Body[dir][step] # << >>,
         Locking' \/ Stepping'
  PROVE  EffectInv'
<1>1. InRun
  BY DEF EffectInv
<1>2. \A k \in Steps(dir) : k # step => Whole(dir, k)
  BY <1>1 DEF InRun, WithinStep
<1>3. \A k \in Steps(dir) : k < step => Kept(dir, k)
  BY <1>1 DEF InRun, WithinStep
<1>4. \A k \in Steps(dir) : k # step => Whole(dir, k)'
  BY <1>2, WithinStepKeeps
<1>5. \A k \in Steps(dir) : k < step => Kept(dir, k)'
  <2>1. \A k \in Steps(dir) : k < step => k # step
    BY PlanAssumption DEF Steps, WithinStep
  <2> QED BY <1>3, <2>1, WithinStepKeeps
<1>6. InRun'
  BY <1>4, <1>5 DEF InRun, WithinStep
<1> QED BY <1>6, WithinStepKeeps DEF EffectInv

LEMMA Marked ==
  ASSUME EffectType, NEW S \in SUBSET AllRows, NEW m \in Marks, ckpt' = Mark(S, m)
  PROVE  /\ ckpt' \in [AllRows -> Marks]
         /\ \A s \in S : ckpt'[s] = m
         /\ \A s \in AllRows \ S : ckpt'[s] = ckpt[s]
BY DEF EffectType, Mark

LEMMA SkipStepKeeps ==
  ASSUME JournalInv, EffectInv, SkipStep
  PROVE  EffectInv'
<1>1. /\ AtStep /\ Complete(dir, step) /\ step' = step + 1
      /\ UNCHANGED <<mode, row, ckpt, mine, done, repeated, pc, dir, base, at, possible, dirty>>
  BY DEF SkipStep, journal, data
<1>2. /\ mode = "nontransactional" /\ pc = "steps" /\ step \in Steps(dir)
      /\ EffectType /\ repeated = {}
  BY <1>1 DEF AtStep, EffectInv, NoEffectTwice
<1>3. step + 1 \in Nat \ {0}
  BY <1>2 DEF EffectType
<1>4. WithinStep
  BY <1>1, <1>2, <1>3 DEF WithinStep, EffectType
<1>5. dirty = {}
  BY <1>2 DEF EffectInv, InRun
<1>6. \A k \in Steps(dir) : k = step => Kept(dir, k)'
  BY <1>1, AtStepWhole DEF Kept, Complete
<1> QED BY <1>1, <1>2, <1>4, <1>5, <1>6, NextStep

LEMMA CheckGuardsKeeps ==
  ASSUME JournalInv, EffectInv, CheckGuards
  PROVE  EffectInv'
<1>1. /\ AtStep /\ Body[dir][step] = << >> /\ step' = step + 1
      /\ ckpt' = Mark(Rows(dir, step), "DONE") /\ mine' = mine \cup Rows(dir, step)
      /\ UNCHANGED <<mode, row, done, repeated, pc, dir, base, at, possible, dirty>>
  BY DEF CheckGuards, data
<1>2. /\ mode = "nontransactional" /\ pc = "steps" /\ step \in Steps(dir)
      /\ EffectType /\ repeated = {} /\ dir \in Directions
  BY <1>1 DEF AtStep, EffectInv, NoEffectTwice, JournalInv, JournalType
<1>3. step + 1 \in Nat \ {0}
  BY <1>2 DEF EffectType
<1>4. /\ ckpt' \in [AllRows -> Marks]
      /\ \A s \in Rows(dir, step) : ckpt'[s] = "DONE"
      /\ \A s \in AllRows \ Rows(dir, step) : ckpt'[s] = ckpt[s]
  BY <1>1, <1>2, Marked, StepShape DEF Marks
<1>5. WithinStep
  BY <1>1, <1>2, <1>3, <1>4 DEF WithinStep, EffectType
<1>6. dirty = {}
  BY <1>2 DEF EffectInv, InRun
<1>7. Statements(dir, step) = {}
  BY <1>1, <1>2, StepShape
<1>8. \A k \in Steps(dir) : k = step => Kept(dir, k)'
  BY <1>1, <1>4, <1>7 DEF Kept, Complete
<1> QED BY <1>1, <1>2, <1>5, <1>6, <1>8, NextStep

LEMMA IntendLockedKeeps ==
  ASSUME JournalInv, EffectInv, IntendLocked
  PROVE  EffectInv'
<1>1. /\ AtStep /\ Untouched(dir, step) /\ Body[dir][step] # << >>
      /\ ckpt' = Mark(Rows(dir, step), "PENDING") /\ mine' = mine \cup Rows(dir, step)
      /\ possible' = TRUE /\ pc' = "locked"
      /\ UNCHANGED <<mode, row, done, repeated, dir, base, step, at, dirty>>
  BY DEF IntendLocked, Locked, data
<1>2. /\ mode = "nontransactional" /\ pc = "steps" /\ step \in Steps(dir) /\ ~base
      /\ EffectType /\ repeated = {} /\ dir \in Directions
  BY <1>1 DEF AtStep, EffectInv, NoEffectTwice, JournalInv, JournalType
<1>3. /\ ckpt' \in [AllRows -> Marks]
      /\ \A s \in Rows(dir, step) : ckpt'[s] = "PENDING"
      /\ \A s \in AllRows \ Rows(dir, step) : ckpt'[s] = ckpt[s]
  BY <1>1, <1>2, Marked, StepShape DEF Marks
<1>4. WithinStep
  BY <1>1, <1>2, <1>3 DEF WithinStep, EffectType, PCs
<1>5. dirty = {}
  BY <1>2 DEF EffectInv, InRun
<1>6. Statements(dir, step) \cap done = {}
  BY <1>1, AtStepWhole DEF Clean
<1>7. Locking'
  BY <1>1, <1>5, <1>6 DEF Locking
<1> QED BY <1>1, <1>2, <1>4, <1>7, StayInStep

LEMMA CommitLockedKeeps ==
  ASSUME JournalInv, EffectInv, mode = "nontransactional", CommitLocked
  PROVE  EffectInv'
<1>1. /\ pc = "locked" /\ pc' = "steps" /\ step' = step + 1
      /\ ckpt' = Mark(Rows(dir, step), "DONE")
      /\ done' = done \cup dirty \cup Statements(dir, step)
      /\ repeated' = repeated \cup (done \cap (dirty \cup Statements(dir, step)))
      /\ dirty' = {}
      /\ UNCHANGED <<mode, row, mine, dir, base, at, possible>>
  BY DEF CommitLocked, Flush
<1>2. /\ step \in Steps(dir) /\ EffectType /\ repeated = {} /\ dir \in Directions /\ Locking
  BY <1>1 DEF EffectInv, InRun, NoEffectTwice, JournalInv, JournalType, Stepping
<1>3. step + 1 \in Nat \ {0}
  BY <1>2 DEF EffectType
<1>4. /\ ckpt' \in [AllRows -> Marks]
      /\ \A s \in Rows(dir, step) : ckpt'[s] = "DONE"
      /\ \A s \in AllRows \ Rows(dir, step) : ckpt'[s] = ckpt[s]
  BY <1>1, <1>2, Marked, StepShape DEF Marks
<1>5. done' = done \cup Statements(dir, step) /\ repeated' = {}
  BY <1>1, <1>2 DEF Locking
<1>6. WithinStep
  BY <1>1, <1>2, <1>3, <1>4, <1>5 DEF WithinStep, EffectType, PCs
<1>7. \A k \in Steps(dir) : k = step => Kept(dir, k)'
  BY <1>1, <1>4, <1>5 DEF Kept, Complete
<1> QED BY <1>1, <1>6, <1>7, NextStep

LEMMA EnterStepKeeps ==
  ASSUME JournalInv, EffectInv, EnterStep
  PROVE  EffectInv'
<1>1. /\ AtStep /\ Untouched(dir, step) /\ Body[dir][step] # << >>
      /\ at' = 1 /\ pc' = "checkpoint"
      /\ UNCHANGED <<mode, row, ckpt, mine, done, repeated, dir, base, step, possible, dirty>>
  BY DEF EnterStep, journal, data
<1>2. /\ mode = "nontransactional" /\ pc = "steps" /\ step \in Steps(dir) /\ ~base
      /\ EffectType /\ repeated = {} /\ dir \in Directions
  BY <1>1 DEF AtStep, EffectInv, NoEffectTwice, JournalInv, JournalType
<1>3. WithinStep
  BY <1>1, <1>2 DEF WithinStep, EffectType, PCs
<1>4. dirty = {}
  BY <1>2 DEF EffectInv, InRun
<1>5. Statements(dir, step) \cap done = {}
  BY <1>1, AtStepWhole DEF Clean
<1>6. Len(Body[dir][step]) \in Nat /\ Len(Body[dir][step]) > 0
      /\ Rows(dir, step) = Statements(dir, step)
  BY <1>1, <1>2, StepShape
<1>7. \A i \in 1 .. Len(Body[dir][step]) :
        <<dir, step, i>> \notin done /\ ckpt[<<dir, step, i>>] = "none"
  BY <1>1, <1>5, <1>6 DEF Statements, Untouched
<1>8. Stepping'
  BY <1>1, <1>4, <1>6, <1>7 DEF Stepping
<1> QED BY <1>1, <1>2, <1>3, <1>8, StayInStep

(* Where the cursor is, of a run in the middle of a step.                  *)
LEMMA AtStatement ==
  ASSUME JournalInv, EffectInv, mode = "nontransactional",
         pc \in {"checkpoint", "execute", "after"}
  PROVE  /\ step \in Steps(dir) /\ ~base /\ Body[dir][step] # << >>
         /\ EffectType /\ Stepping /\ repeated = {} /\ dir \in Directions
         /\ at \in Nat \ {0} /\ Len(Body[dir][step]) \in Nat
         /\ Rows(dir, step) = Statements(dir, step)
         /\ Rows(dir, step) \subseteq AllRows
         /\ \A i \in 1 .. Len(Body[dir][step]) : <<dir, step, i>> \in Statements(dir, step)
         /\ \A s \in Statements(dir, step) :
              \E i \in 1 .. Len(Body[dir][step]) : s = <<dir, step, i>>
<1>1. InRun /\ EffectType /\ repeated = {} /\ dir \in Directions
  BY DEF EffectInv, NoEffectTwice, JournalInv, JournalType
<1>2. step \in Steps(dir) /\ ~base /\ Body[dir][step] # << >> /\ Stepping
  BY <1>1 DEF InRun, Locking
<1>3. at \in Nat \ {0}
  BY <1>1 DEF EffectType
<1> QED BY <1>1, <1>2, <1>3, StepShape DEF Statements

LEMMA WriteCheckpointKeeps ==
  ASSUME JournalInv, EffectInv, mode = "nontransactional", WriteCheckpoint
  PROVE  EffectInv'
<1> DEFINE here == <<dir, step, at>>
           len == Len(Body[dir][step])
<1>1. /\ pc = "checkpoint" /\ pc' = "execute" /\ possible' = TRUE
      /\ ckpt' = Mark({here}, "PENDING") /\ mine' = mine \cup {here}
      /\ done' = done \cup dirty /\ repeated' = repeated \cup (done \cap dirty) /\ dirty' = {}
      /\ UNCHANGED <<mode, row, dir, base, step, at>>
  BY DEF WriteCheckpoint, Flush
<1>2. /\ step \in Steps(dir) /\ ~base /\ Body[dir][step] # << >>
      /\ EffectType /\ Stepping /\ repeated = {} /\ at \in Nat \ {0} /\ len \in Nat
      /\ Rows(dir, step) = Statements(dir, step) /\ Rows(dir, step) \subseteq AllRows
  BY <1>1, AtStatement
<1>3. at <= len /\ dirty \subseteq Statements(dir, step) /\ dirty \cap done = {}
  BY <1>1, <1>2 DEF Stepping
<1>4. here \in Rows(dir, step)
  BY <1>1, <1>2, <1>3, AtStatement
<1>5. /\ ckpt' \in [AllRows -> Marks] /\ ckpt'[here] = "PENDING"
      /\ \A s \in AllRows \ {here} : ckpt'[s] = ckpt[s]
  <2>1. {here} \in SUBSET AllRows /\ "PENDING" \in Marks
    BY <1>2, <1>4 DEF Marks
  <2>2. ckpt' = Mark({here}, "PENDING") /\ EffectType
    BY <1>1, <1>2
  <2> HIDE DEF here
  <2> QED BY <2>1, <2>2, Marked
<1>6. repeated' = {}
  BY <1>1, <1>2, <1>3
<1>7. WithinStep
  BY <1>1, <1>2, <1>3, <1>4, <1>5, <1>6 DEF WithinStep, EffectType, PCs
<1>8. \A i \in 1 .. len :
        /\ i < at => <<dir, step, i>> \in done' /\ <<dir, step, i>> \in mine'
        /\ i >= at => <<dir, step, i>> \notin done'
        /\ i > at => ckpt'[<<dir, step, i>>] = "none"
  <2> SUFFICES ASSUME NEW i \in 1 .. len
               PROVE  /\ i < at => <<dir, step, i>> \in done' /\ <<dir, step, i>> \in mine'
                      /\ i >= at => <<dir, step, i>> \notin done'
                      /\ i > at => ckpt'[<<dir, step, i>>] = "none"
    OBVIOUS
  <2>1. /\ i < at => <<dir, step, i>> \in done \cup dirty /\ <<dir, step, i>> \in mine
        /\ i >= at => <<dir, step, i>> \notin done \cup dirty
        /\ i > at => ckpt[<<dir, step, i>>] = "none"
    BY <1>2 DEF Stepping
  <2>2. <<dir, step, i>> \in AllRows
    BY <1>1, <1>2, AtStatement
  <2>3. i > at => <<dir, step, i>> # here
    BY <1>2
  <2> QED BY <1>1, <1>5, <2>1, <2>2, <2>3
<1>9. Stepping'
  BY <1>1, <1>2, <1>3, <1>8 DEF Stepping
<1> QED BY <1>1, <1>2, <1>7, <1>9, StayInStep

LEMMA ExecuteKeeps ==
  ASSUME JournalInv, EffectInv, mode = "nontransactional", Execute
  PROVE  EffectInv'
<1> DEFINE here == <<dir, step, at>>
           len == Len(Body[dir][step])
<1>1. /\ pc = "execute" /\ at' = at + 1
      /\ pc' = IF at = len THEN "after" ELSE "checkpoint"
      /\ UNCHANGED <<mode, row, mine, dir, base, step, possible>>
  BY DEF Execute
<1>2. /\ step \in Steps(dir) /\ ~base /\ Body[dir][step] # << >>
      /\ EffectType /\ Stepping /\ repeated = {} /\ at \in Nat \ {0} /\ len \in Nat
      /\ Rows(dir, step) = Statements(dir, step) /\ Rows(dir, step) \subseteq AllRows
  BY <1>1, AtStatement
<1>3. at <= len /\ dirty = {} /\ here \in mine /\ possible
  BY <1>1, <1>2 DEF Stepping
<1>4. here \in Rows(dir, step) /\ here \notin done
  <2>1. at \in 1 .. len /\ at >= at
    BY <1>2, <1>3
  <2> QED BY <1>1, <1>2, <2>1, AtStatement DEF Stepping
<1>5. /\ done' \cup dirty' = done \cup {here}
      /\ dirty' \subseteq {here} /\ dirty' \cap done' = {} /\ done \subseteq done'
      /\ repeated' = {}
      /\ ckpt' = ckpt \/ ckpt' = Mark({here}, "WRITE_VERIFIED")
  BY <1>2, <1>3, <1>4 DEF Execute, Flush, data
<1>6. /\ ckpt' \in [AllRows -> Marks]
      /\ ckpt[here] # "none" => ckpt'[here] # "none"
      /\ \A s \in AllRows \ {here} : ckpt'[s] = ckpt[s]
  <2>1. CASE ckpt' = ckpt
    BY <1>2, <2>1 DEF EffectType
  <2>2. CASE ckpt' = Mark({here}, "WRITE_VERIFIED")
    <3>1. {here} \in SUBSET AllRows /\ "WRITE_VERIFIED" \in Marks
      BY <1>2, <1>4 DEF Marks
    <3> HIDE DEF here
    <3>2. /\ ckpt' \in [AllRows -> Marks] /\ \A s \in {here} : ckpt'[s] = "WRITE_VERIFIED"
          /\ \A s \in AllRows \ {here} : ckpt'[s] = ckpt[s]
      BY <1>2, <2>2, <3>1, Marked
    <3> QED BY <3>2
  <2> QED BY <1>5, <2>1, <2>2
<1>7. at + 1 \in Nat \ {0}
  BY <1>2
<1>8. WithinStep
  BY <1>1, <1>2, <1>4, <1>5, <1>6, <1>7 DEF WithinStep, EffectType, PCs
<1>9. \A i \in 1 .. len :
        /\ i < at' => <<dir, step, i>> \in done' \cup dirty' /\ <<dir, step, i>> \in mine
        /\ i >= at' => <<dir, step, i>> \notin done' \cup dirty'
        /\ i >= at' => ckpt'[<<dir, step, i>>] = "none"
  <2> SUFFICES ASSUME NEW i \in 1 .. len
               PROVE  /\ i < at' => /\ <<dir, step, i>> \in done' \cup dirty'
                                     /\ <<dir, step, i>> \in mine
                      /\ i >= at' => <<dir, step, i>> \notin done' \cup dirty'
                      /\ i >= at' => ckpt'[<<dir, step, i>>] = "none"
    OBVIOUS
  <2>1. /\ i < at => <<dir, step, i>> \in done \cup dirty /\ <<dir, step, i>> \in mine
        /\ i >= at => <<dir, step, i>> \notin done \cup dirty
        /\ i > at => ckpt[<<dir, step, i>>] = "none"
    BY <1>2 DEF Stepping
  <2>2. <<dir, step, i>> \in AllRows
    BY <1>1, <1>2, AtStatement
  <2>3. (i >= at' => i > at /\ i >= at) /\ (i < at' => i < at \/ i = at)
    BY <1>1, <1>2
  <2>4. i > at => <<dir, step, i>> # here
    BY <1>2
  <2> QED BY <1>3, <1>5, <1>6, <2>1, <2>2, <2>3, <2>4
<1>10. /\ at' <= len + 1
       /\ pc' = "checkpoint" => at' <= len
       /\ pc' = "after" => at' > len
  BY <1>1, <1>2, <1>3
<1>11. dirty' \subseteq Statements(dir, step)
  BY <1>2, <1>4, <1>5
<1>12. \A i \in 1 .. len : i > at' \/ i = at' => i >= at'
  BY <1>1, <1>2
<1>13. Stepping'
  BY <1>1, <1>3, <1>5, <1>9, <1>10, <1>11, <1>12 DEF Stepping
<1>14. pc' # "steps"
  BY <1>1
<1> QED BY <1>1, <1>2, <1>8, <1>13, <1>14, StayInStep

LEMMA FinishStepKeeps ==
  ASSUME JournalInv, EffectInv, mode = "nontransactional", FinishStep
  PROVE  EffectInv'
<1>1. /\ pc = "after" /\ pc' = "steps" /\ step' = step + 1
      /\ ckpt' = Mark(Rows(dir, step), "DONE")
      /\ done' = done \cup dirty /\ repeated' = repeated \cup (done \cap dirty) /\ dirty' = {}
      /\ UNCHANGED <<mode, row, mine, dir, base, at, possible>>
  BY DEF FinishStep, Flush
<1>2. /\ step \in Steps(dir) /\ EffectType /\ Stepping /\ repeated = {}
      /\ at \in Nat \ {0} /\ Len(Body[dir][step]) \in Nat
      /\ Rows(dir, step) \subseteq AllRows
  BY <1>1, AtStatement
<1>3. dirty \subseteq Statements(dir, step) /\ dirty \cap done = {}
  BY <1>2 DEF Stepping
<1>4. Statements(dir, step) \subseteq done'
  <2>1. \A i \in 1 .. Len(Body[dir][step]) : <<dir, step, i>> \in done \cup dirty
    <3>1. \A i \in 1 .. Len(Body[dir][step]) : i < at
      BY <1>1, <1>2 DEF Stepping
    <3> QED BY <1>2, <3>1 DEF Stepping
  <2> QED BY <1>1, <2>1, AtStatement
<1>5. /\ ckpt' \in [AllRows -> Marks]
      /\ \A s \in Rows(dir, step) : ckpt'[s] = "DONE"
      /\ \A s \in AllRows \ Rows(dir, step) : ckpt'[s] = ckpt[s]
  BY <1>1, <1>2, Marked DEF Marks
<1>6. step + 1 \in Nat \ {0}
  BY <1>2 DEF EffectType
<1>7. repeated' = {}
  BY <1>1, <1>2, <1>3
<1>8. WithinStep
  BY <1>1, <1>2, <1>3, <1>5, <1>6, <1>7 DEF WithinStep, EffectType, PCs
<1>9. \A k \in Steps(dir) : k = step => Kept(dir, k)'
  BY <1>1, <1>4, <1>5 DEF Kept, Complete
<1> QED BY <1>1, <1>8, <1>9, NextStep

(* Wherever a run is stopped, the step in hand is whole, or was touched    *)
(* and possible_effect keeps the status from being retryable.              *)
LEMMA InHand ==
  ASSUME JournalInv, EffectInv, mode = "nontransactional", pc # "idle",
         NEW k \in Steps(dir)
  PROVE  Whole(dir, k) \/ (possible /\ Touched(dir, k))
<1>1. InRun /\ dir \in Directions
  BY DEF EffectInv, JournalInv, JournalType
<1>2. CASE k # step \/ pc = "steps"
  BY <1>1, <1>2 DEF InRun
<1>3. CASE k = step /\ pc # "steps"
  <2>1. Body[dir][step] # << >> /\ (Locking \/ Stepping)
    BY <1>1, <1>3 DEF InRun
  <2>2. Rows(dir, k) # {} /\ Rows(dir, k) = Statements(dir, k) /\ Len(Body[dir][k]) \in Nat
        /\ Len(Body[dir][k]) > 0
    BY <1>1, <1>3, <2>1, StepShape
  <2>3. CASE Locking
    BY <1>3, <2>2, <2>3 DEF Locking, Touched
  <2>4. CASE Stepping
    <3>1. at \in Nat \ {0}
      BY DEF EffectInv, EffectType
    <3>2. CASE pc = "checkpoint" /\ at = 1
      <4>1. \A i \in 1 .. Len(Body[dir][k]) :
              <<dir, k, i>> \notin done /\ ckpt[<<dir, k, i>>] = "none"
        BY <1>3, <2>2, <2>4, <3>2 DEF Stepping
      <4> QED BY <2>2, <4>1 DEF Whole, Clean, Untouched, Statements
    <3>3. CASE ~(pc = "checkpoint" /\ at = 1)
      <4>1. possible
        BY <2>4, <3>3 DEF Stepping
      <4>2. CASE at = 1
        <5>1. <<dir, k, 1>> \in mine
          BY <1>3, <2>2, <2>4, <3>3, <4>2 DEF Stepping
        <5> QED BY <2>2, <4>1, <5>1 DEF Touched, Statements
      <4>3. CASE at # 1
        <5>1. 1 \in 1 .. Len(Body[dir][k]) /\ 1 < at
          BY <2>2, <3>1, <4>3
        <5>2. <<dir, k, 1>> \in mine
          BY <1>3, <2>4, <5>1 DEF Stepping
        <5> QED BY <2>2, <4>1, <5>1, <5>2 DEF Touched, Statements
      <4> QED BY <4>2, <4>3
    <3> QED BY <3>2, <3>3
  <2> QED BY <2>1, <2>3, <2>4
<1> QED BY <1>2, <1>3

(* The failures and crashes of a run with checkpoints.                     *)
LEMMA StopKeeps ==
  ASSUME JournalInv, EffectInv, mode = "nontransactional", Fail \/ Crash
  PROVE  EffectInv'
<1>1. /\ pc # "idle" /\ pc' = "idle" /\ dirty' = {}
      /\ UNCHANGED <<mode, ckpt, mine, done, repeated, dir, base, step, at, possible>>
  BY DEF Fail, Crash, journal, data, process
<1>2. row \in RowRecords /\ row.status = "APPLYING" /\ row.direction = dir /\ dir \in Directions
  BY <1>1 DEF JournalInv, JournalType, RunningRow
<1>3. /\ row'.direction = dir
      /\ row'.status \in {"APPLYING", "FAILED_FINAL", "UNKNOWN", "FAILED_RETRYABLE"}
      /\ possible => row'.status # "FAILED_RETRYABLE"
  <2>1. CASE Crash
    BY <1>2, <2>1 DEF Crash, journal
  <2>2. CASE Fail
    <3>1. PICK ownership \in BOOLEAN : row' = FailureRow(ownership)
      BY <2>2 DEF Fail
    <3>2. PICK p : row' = [row EXCEPT !.status = FailureStatus(ownership), !.baseline = base,
                                     !.proof = p]
      BY <3>1 DEF FailureRow
    <3>3. row'.direction = dir /\ row'.status = FailureStatus(ownership)
      BY <1>2, <3>2 DEF RowRecords
    <3> QED BY <3>3 DEF FailureStatus
  <2> QED BY <2>1, <2>2
<1>4. EffectType /\ RowMeans /\ repeated = {}
  BY DEF EffectInv, NoEffectTwice
<1>5. EffectType'
  BY <1>1, <1>4 DEF EffectType, PCs
<1>6. RowMeans'
  BY <1>1, <1>2, <1>3, <1>4 DEF RowMeans, Clean, Untouched
<1>7. BetweenRuns'
  <2>1. ASSUME NEW k \in Steps(dir)
        PROVE  \/ Whole(dir, k)'
               \/ /\ row'.status \notin {"NOT_STARTED", "APPLIED_SUCCESS", "FAILED_RETRYABLE"}
                  /\ Touched(dir, k)'
    <3>1. Whole(dir, k) \/ (possible /\ Touched(dir, k))
      BY <1>1, InHand
    <3> QED BY <1>1, <1>3, <3>1 DEF Whole, Clean, Kept, Untouched, Complete, Touched
  <2> QED BY <1>1, <1>3, <2>1 DEF BetweenRuns
<1>8. OneTransaction' /\ InRun' /\ NoEffectTwice' /\ SuccessIsComplete'
  BY <1>1, <1>3, <1>4 DEF OneTransaction, InRun, NoEffectTwice, SuccessIsComplete
<1> QED BY <1>5, <1>6, <1>7, <1>8 DEF EffectInv

LEMMA FinishKeeps ==
  ASSUME JournalInv, EffectInv, mode = "nontransactional", Finish
  PROVE  EffectInv'
<1>1. /\ pc = "steps" /\ (base \/ step \notin Steps(dir)) /\ pc' = "idle" /\ dirty' = {}
      /\ repeated' = repeated \cup (done \cap dirty)
      /\ UNCHANGED <<mode, ckpt, mine, dir, base, step, at, possible>>
      /\ done' = IF dir = "rollback" /\ Effects("rollback") \subseteq done \cup dirty
                   THEN {} ELSE done \cup dirty
      /\ row'.status = IF dir = "upgrade" THEN "APPLIED_SUCCESS" ELSE "ROLLED_BACK"
      /\ row'.direction = dir /\ row'.baseline = base
  BY DEF Finish, process
<1>2. row.status = "APPLYING" /\ row.direction = dir /\ dir \in Directions /\ base \in BOOLEAN
  BY <1>1 DEF JournalInv, JournalType, RunningRow
<1>3. EffectType /\ RowMeans /\ InRun /\ repeated = {}
  BY DEF EffectInv, NoEffectTwice
<1>4. dirty = {}
  BY <1>1, <1>3 DEF InRun
<1>5. ~base => Effects(dir) \subseteq done
  <2>1. ~base => \A k \in Steps(dir) : k < step
    BY <1>1, <1>2, <1>3, PlanAssumption DEF EffectType, Steps
  <2>2. ~base => \A k \in Steps(dir) : Statements(dir, k) \subseteq done
    BY <1>1, <1>3, <2>1 DEF InRun, Kept
  <2> QED BY <2>2 DEF Effects
<1>6. EffectType'
  BY <1>1, <1>3 DEF EffectType, PCs
<1>7. OneTransaction' /\ InRun' /\ NoEffectTwice'
  BY <1>1, <1>3, <1>4 DEF OneTransaction, InRun, NoEffectTwice
<1>8. CASE dir = "upgrade"
  <2>1. done' = done
    BY <1>1, <1>4, <1>8
  <2>2. RowMeans'
    BY <1>1, <1>2, <1>3, <1>8, <2>1 DEF RowMeans, Clean, Untouched
  <2>3. \A k \in Steps(dir) : Whole(dir, k)
    BY <1>1, <1>3 DEF InRun
  <2>4. BetweenRuns'
    BY <1>1, <2>1, <2>3 DEF BetweenRuns, Whole, Clean, Kept, Untouched, Complete
  <2>5. SuccessIsComplete'
    BY <1>1, <1>5, <1>8, <2>1 DEF SuccessIsComplete
  <2> QED BY <1>6, <1>7, <2>2, <2>4, <2>5 DEF EffectInv
<1>9. CASE dir = "rollback"
  <2>1. ~base
    BY <1>1, <1>3, <1>9 DEF EffectType
  <2>2. done' = {}
    BY <1>1, <1>4, <1>5, <1>9, <2>1
  <2>3. RowMeans'
    BY <1>1, <1>2, <1>3, <1>9, <2>2 DEF RowMeans
  <2>4. BetweenRuns' /\ SuccessIsComplete'
    BY <1>1, <1>9, <2>2 DEF BetweenRuns, SuccessIsComplete
  <2> QED BY <1>6, <1>7, <2>3, <2>4 DEF EffectInv
<1> QED BY <1>2, <1>8, <1>9 DEF Directions

-----------------------------------------------------------------------------
(* A run with checkpoints begins: none of its steps is half done.          *)
LEMMA LaunchKeeps ==
  ASSUME EffectInv, mode = "nontransactional", NEW d \in Directions, NEW b \in BOOLEAN,
         Launch(d, b), d = "rollback" => ~b,
         ckpt' \in [AllRows -> Marks], mine' = {}, possible' \in BOOLEAN,
         row'.status = "APPLYING", row'.direction = d,
         \A k \in Steps(d) : Whole(d, k)',
         d = "upgrade" => \A k \in Steps("rollback") : Clean("rollback", k)'
  PROVE  EffectInv'
<1>1. /\ pc = "idle" /\ pc' = "steps" /\ dir' = d /\ base' = b /\ step' = 1 /\ at' = 1
      /\ UNCHANGED <<mode, done, repeated, dirty>>
  BY DEF Launch, data
<1>2. repeated = {} /\ dirty = {}
  BY <1>1 DEF EffectInv, NoEffectTwice, BetweenRuns
<1>3. EffectType'
  <2>1. dir' = "rollback" => ~base'
    BY <1>1, Zenon
  <2>2. pc' \in PCs /\ step' \in Nat \ {0} /\ at' \in Nat \ {0} /\ mine' \subseteq AllRows
    BY <1>1 DEF PCs
  <2> QED BY <2>1, <2>2 DEF EffectType
<1>4. RowMeans'
  BY <1>1 DEF RowMeans
<1>5. InRun'
  <2>1. \A k \in Steps(dir') : ~(k < step') /\ Whole(dir, k)'
    BY <1>1, PlanAssumption DEF Steps, Whole, Clean, Kept, Untouched, Complete
  <2> QED BY <1>1, <1>2, <2>1 DEF InRun
<1>6. OneTransaction' /\ BetweenRuns' /\ NoEffectTwice' /\ SuccessIsComplete'
  BY <1>1, <1>2 DEF OneTransaction, BetweenRuns, NoEffectTwice, SuccessIsComplete
<1> QED BY <1>3, <1>4, <1>5, <1>6 DEF EffectInv

LEMMA StartEpochKeeps ==
  ASSUME JournalInv, EffectInv, NEW b \in BOOLEAN, StartEpoch(b)
  PROVE  EffectInv'
<1>1. /\ mode = "nontransactional" /\ Launch("upgrade", b)
      /\ row'.status = "APPLYING" /\ row'.direction = "upgrade"
      /\ ckpt' = NoCheckpoints /\ mine' = {} /\ possible' = FALSE
      /\ row.status \in {"NOT_STARTED", "ROLLED_BACK"}
  BY DEF StartEpoch
<1>2. done' = {}
  BY <1>1 DEF EffectInv, RowMeans, Launch, data
<1>3. ckpt' \in [AllRows -> Marks] /\ \A s \in AllRows : ckpt'[s] = "none"
  BY <1>1 DEF NoCheckpoints, Marks
<1>4. ASSUME NEW d \in Directions, NEW k \in Steps(d) PROVE Clean(d, k)'
  BY <1>2, <1>3, StepShape DEF Clean, Untouched
<1>5. "upgrade" \in Directions /\ "rollback" \in Directions /\ possible' \in BOOLEAN
  BY <1>1 DEF Directions
<1>6. \A k \in Steps("upgrade") : Whole("upgrade", k)'
  BY <1>4, <1>5 DEF Whole
<1> QED BY <1>1, <1>3, <1>4, <1>5, <1>6, LaunchKeeps

LEMMA RestartKeeps ==
  ASSUME JournalInv, EffectInv, NEW d \in Directions, NEW b \in BOOLEAN, Restart(d, b)
  PROVE  EffectInv'
<1>1. /\ mode = "nontransactional" /\ CanRestart(d, b) /\ Launch(d, b)
      /\ row' = [row EXCEPT !.status = "APPLYING", !.direction = d, !.proof = "none"]
      /\ mine' = {} /\ UNCHANGED ckpt
      /\ possible' = (\E k \in Steps(d), s \in AllRows : s \in Rows(d, k) /\ ckpt[s] # "none")
  BY DEF Restart
<1>2. row'.status = "APPLYING" /\ row'.direction = d
  BY <1>1 DEF JournalInv, JournalType, RowRecords
<1>3. possible' \in BOOLEAN
  BY <1>1
<1>4. EffectType /\ RowMeans /\ BetweenRuns /\ pc = "idle" /\ done' = done
  BY <1>1 DEF EffectInv, Launch, data
<1>5. ckpt' \in [AllRows -> Marks]
  BY <1>1, <1>4 DEF EffectType
<1>6. \/ row.status = "FAILED_RETRYABLE" /\ row.direction = d
      \/ d = "rollback" /\ row.status = "APPLIED_SUCCESS"
  BY <1>1 DEF CanRestart, Resumable, Directions
<1>7. d = "rollback" => ~b
  BY <1>1 DEF CanRestart
<1>8. \A k \in Steps(d) : Whole(d, k)
  <2>1. CASE row.status = "FAILED_RETRYABLE" /\ row.direction = d
    BY <1>1, <1>4, <2>1 DEF BetweenRuns
  <2>2. CASE d = "rollback" /\ row.status = "APPLIED_SUCCESS"
    BY <1>1, <1>4, <2>2 DEF RowMeans, Whole
  <2> QED BY <1>6, <2>1, <2>2
<1>9. \A k \in Steps(d) : Whole(d, k)'
  BY <1>1, <1>4, <1>8 DEF Whole, Clean, Kept, Untouched, Complete
<1>10. d = "upgrade" => \A k \in Steps("rollback") : Clean("rollback", k)'
  BY <1>1, <1>4, <1>6 DEF RowMeans, Clean, Untouched
<1> QED BY <1>1, <1>2, <1>3, <1>5, <1>7, <1>9, <1>10, LaunchKeeps

-----------------------------------------------------------------------------
(* The decisions of an operator.                                           *)
LEMMA AbandonKeeps ==
  ASSUME JournalInv, EffectInv, Abandon
  PROVE  EffectInv'
<1>1. /\ mode = "nontransactional" /\ pc = "idle"
      /\ row' = [row EXCEPT !.status = "ABANDONED"]
      /\ UNCHANGED <<mode, ckpt, mine, done, repeated, pc, dir, base, step, at, possible, dirty>>
  BY DEF Abandon, data, process
<1>2. row'.status = "ABANDONED" /\ row'.direction = row.direction
  BY <1>1 DEF JournalInv, JournalType, RowRecords
<1>3. row.status \in {"APPLYING", "UNKNOWN"}
  BY VisibleUnknown DEF Abandon
<1>4. EffectType /\ RowMeans /\ BetweenRuns /\ repeated = {}
  BY DEF EffectInv, NoEffectTwice
<1>5. EffectType'
  BY <1>1, <1>4 DEF EffectType
<1>6. RowMeans'
  BY <1>1, <1>2, <1>4 DEF RowMeans, Clean, Untouched
<1>7. BetweenRuns'
  BY <1>1, <1>2, <1>3, <1>4
     DEF BetweenRuns, Whole, Clean, Kept, Untouched, Complete, Touched
<1>8. OneTransaction' /\ InRun' /\ NoEffectTwice' /\ SuccessIsComplete'
  BY <1>1, <1>2, <1>4 DEF OneTransaction, InRun, NoEffectTwice, SuccessIsComplete
<1> QED BY <1>5, <1>6, <1>7, <1>8 DEF EffectInv

(* A step the last run touched is over once it is verified; the others     *)
(* were whole before.                                                      *)
LEMMA VerifiedRetryKeeps ==
  ASSUME JournalInv, EffectInv, VerifiedRetry
  PROVE  EffectInv'
<1> DEFINE Over(s) == \E d \in Directions : \E k \in Steps(d) : Touched(d, k) /\ s \in Rows(d, k)
<1>1. /\ mode = "nontransactional" /\ pc = "idle"
      /\ \A d \in Directions : \A k \in Steps(d) : Touched(d, k) => Verified(d, k)
      /\ ckpt' = [s \in AllRows |-> IF Over(s) THEN "DONE" ELSE ckpt[s]]
      /\ row' = [row EXCEPT !.status = "FAILED_RETRYABLE", !.proof = "verified"]
      /\ UNCHANGED <<mode, mine, done, repeated, pc, dir, base, step, at, possible, dirty>>
  BY DEF VerifiedRetry, data, process
<1>2. row'.status = "FAILED_RETRYABLE" /\ row'.direction = row.direction
      /\ row.direction \in Directions
  BY <1>1 DEF JournalInv, JournalType, RowRecords
<1>3. row.status \in {"APPLYING", "UNKNOWN"}
  BY VisibleUnknown DEF VerifiedRetry
<1>4. EffectType /\ RowMeans /\ BetweenRuns /\ repeated = {}
  BY DEF EffectInv, NoEffectTwice
<1>5. \A s \in AllRows : ckpt'[s] = IF Over(s) THEN "DONE" ELSE ckpt[s]
  BY <1>1
<1>6. ASSUME NEW d \in Directions, NEW k \in Steps(d)
      PROVE  /\ ~Touched(d, k) => \A s \in Rows(d, k) : ckpt'[s] = ckpt[s]
             /\ Touched(d, k) => \A s \in Rows(d, k) : ckpt'[s] = "DONE"
  <2>1. Rows(d, k) \subseteq AllRows
    BY StepShape
  <2>2. ASSUME NEW s \in Rows(d, k) PROVE Over(s) <=> Touched(d, k)
    BY StepShape
  <2> QED BY <1>5, <2>1, <2>2
<1>7. EffectType'
  <2>1. \A s \in AllRows : ckpt[s] \in Marks /\ "DONE" \in Marks
    BY <1>4 DEF EffectType, Marks
  <2>2. ckpt' \in [AllRows -> Marks]
    BY <1>1, <2>1
  <2> QED BY <1>1, <1>4, <2>2 DEF EffectType
<1>8. RowMeans'
  <2>1. \A s \in mine' : ckpt'[s] # "none" /\ s[1] = row'.direction
    BY <1>1, <1>2, <1>4, <1>5 DEF RowMeans, EffectType
  <2>2. row.direction = "upgrade" => \A k \in Steps("rollback") : Clean("rollback", k)'
    <3> SUFFICES ASSUME row.direction = "upgrade", NEW k \in Steps("rollback")
                 PROVE  Clean("rollback", k)'
      OBVIOUS
    <3>1. "rollback" \in Directions
      BY DEF Directions
    <3>2. ~Touched("rollback", k)
      BY <1>1, <1>4, <3>1, StepShape DEF RowMeans, Touched
    <3>3. Clean("rollback", k)
      BY <1>1, <1>4 DEF RowMeans
    <3> QED BY <1>1, <1>6, <3>1, <3>2, <3>3 DEF Clean, Untouched
  <2> QED BY <1>1, <1>2, <2>1, <2>2 DEF RowMeans
<1>9. ASSUME NEW d \in Directions, d = row.direction, NEW k \in Steps(d) PROVE Whole(d, k)'
  <2>1. CASE Touched(d, k)
    <3>1. Verified(d, k)
      BY <1>1, <2>1
    <3>2. Statements(d, k) \subseteq done
      BY <3>1, StepShape DEF Verified
    <3> QED BY <1>1, <1>6, <2>1, <3>2 DEF Whole, Kept, Complete
  <2>2. CASE ~Touched(d, k)
    <3>1. Whole(d, k)
      BY <1>1, <1>3, <1>4, <1>9, <2>2 DEF BetweenRuns
    <3> QED BY <1>1, <1>6, <2>2, <3>1 DEF Whole, Clean, Kept, Untouched, Complete
  <2> QED BY <2>1, <2>2
<1>10. BetweenRuns'
  <2>1. \A k \in Steps(row'.direction) : Whole(row.direction, k)'
    BY <1>2, <1>9 DEF Whole, Clean, Kept, Untouched, Complete
  <2>2. dirty' = {}
    BY <1>1, <1>4 DEF BetweenRuns
  <2> QED BY <2>1, <2>2 DEF BetweenRuns
<1>11. OneTransaction' /\ InRun' /\ NoEffectTwice' /\ SuccessIsComplete'
  BY <1>1, <1>2, <1>4 DEF OneTransaction, InRun, NoEffectTwice, SuccessIsComplete
<1> QED BY <1>7, <1>8, <1>10, <1>11 DEF EffectInv

LEMMA RepairKeeps ==
  ASSUME JournalInv, EffectInv, mode = "nontransactional", Repair
  PROVE  EffectInv'
<1>1. /\ pc = "idle"
      /\ UNCHANGED <<mode, row, ckpt, mine, repeated, pc, dir, base, step, at, possible, dirty>>
  BY DEF Repair, journal, process
<1>2. row.status \in {"APPLYING", "UNKNOWN"} /\ row.direction \in Directions
  BY VisibleUnknown DEF Repair, JournalInv, JournalType, RowRecords
<1>3. EffectType /\ RowMeans /\ BetweenRuns /\ repeated = {}
  BY DEF EffectInv, NoEffectTwice
<1>4. PICK e \in Directions :
        \E l \in Steps(e) : Touched(e, l) /\ done' = done \cup Statements(e, l)
  BY DEF Repair
<1>5. PICK l \in Steps(e) : Touched(e, l) /\ done' = done \cup Statements(e, l)
  BY <1>4
<1>6. e = row.direction
  BY <1>1, <1>3, <1>5, StepShape DEF Touched, RowMeans
<1>7. done \subseteq done' /\ \A s \in done' \ done : s[1] = e /\ s[2] = l
  BY <1>5, StepShape
<1>8. ASSUME NEW d \in Directions, NEW k \in Steps(d), d # e \/ k # l
      PROVE  (Clean(d, k) => Clean(d, k)') /\ (Whole(d, k) => Whole(d, k)')
  BY <1>1, <1>7, <1>8, Elsewhere
<1>9. EffectType'
  BY <1>1, <1>3 DEF EffectType
<1>10. RowMeans'
  <2>1. row.direction = "upgrade" => \A k \in Steps("rollback") : Clean("rollback", k)'
    BY <1>1, <1>3, <1>6, <1>8 DEF RowMeans, Directions
  <2>2. \A s \in mine' : ckpt'[s] # "none" /\ s[1] = row'.direction
    BY <1>1, <1>3 DEF RowMeans
  <2> QED BY <1>1, <1>2, <2>1, <2>2 DEF RowMeans
<1>11. BetweenRuns'
  <2>1. ASSUME NEW k \in Steps(e) PROVE Whole(e, k)' \/ Touched(e, k)
    <3>1. CASE k = l
      BY <1>5, <3>1
    <3>2. CASE k # l
      <4>1. Whole(e, k) \/ Touched(e, k)
        BY <1>1, <1>2, <1>3, <1>6 DEF BetweenRuns
      <4> QED BY <1>8, <3>2, <4>1
    <3> QED BY <3>1, <3>2
  <2> QED
    BY <1>1, <1>2, <1>3, <1>6, <2>1
       DEF BetweenRuns, Whole, Clean, Kept, Untouched, Complete, Touched
<1>12. OneTransaction' /\ InRun' /\ NoEffectTwice' /\ SuccessIsComplete'
  BY <1>1, <1>2, <1>3 DEF OneTransaction, InRun, NoEffectTwice, SuccessIsComplete
<1> QED BY <1>9, <1>10, <1>11, <1>12 DEF EffectInv

-----------------------------------------------------------------------------
LEMMA InnerKeeps ==
  ASSUME JournalInv, EffectInv, mode = "nontransactional", Inner
  PROVE  EffectInv'
<1>1. ~ExecuteStep
  BY DEF ExecuteStep
<1> QED
  BY <1>1, SkipStepKeeps, CheckGuardsKeeps, IntendLockedKeeps, CommitLockedKeeps,
     EnterStepKeeps, WriteCheckpointKeeps, ExecuteKeeps, FinishStepKeeps DEF Inner

LEMMA EffectInvStep == JournalInv /\ EffectInv /\ [Next]_vars => EffectInv'
<1> SUFFICES ASSUME JournalInv, EffectInv, [Next]_vars PROVE EffectInv'
  OBVIOUS
<1>1. CASE mode = "transactional"
  BY <1>1, TransactionalStep
<1>2. CASE mode = "nontransactional"
  <2>1. CASE UNCHANGED vars
    <3>1. UNCHANGED <<mode, row, ckpt, mine, history, done, repeated, pc, dir, base, step, at,
                      possible, dirty>>
      BY <2>1 DEF vars, journal, data, process
    <3>2. EffectType' /\ OneTransaction' /\ NoEffectTwice' /\ SuccessIsComplete'
      BY <3>1 DEF EffectInv, EffectType, OneTransaction, NoEffectTwice, SuccessIsComplete
    <3>3. /\ \A d, k : Whole(d, k)' = Whole(d, k)
          /\ \A d, k : Touched(d, k)' = Touched(d, k)
      BY <3>1 DEF Whole, Clean, Kept, Untouched, Complete, Touched
    <3> QED
      BY <3>1, <3>2, <3>3 DEF EffectInv, RowMeans, BetweenRuns, InRun, Locking, Stepping, Clean,
           Kept, Untouched, Complete
  <2>2. ASSUME NEW b \in BOOLEAN, NEW d \in Directions PROVE ~StartTransaction(d, b)
    BY <1>2 DEF StartTransaction
  <2> QED
    BY <1>2, <2>1, <2>2, NextSplit, InnerKeeps, FinishKeeps, StopKeeps, AbandonKeeps,
       VerifiedRetryKeeps, RepairKeeps, StartEpochKeeps, RestartKeeps
<1> QED BY <1>1, <1>2 DEF JournalInv, JournalType

LEMMA EffectInvInit == Init => EffectInv
<1> SUFFICES ASSUME Init PROVE EffectInv
  OBVIOUS
<1>1. /\ row = NoRun /\ ckpt = NoCheckpoints /\ mine = {} /\ done = {} /\ repeated = {}
      /\ pc = "idle" /\ dir = "upgrade" /\ base = FALSE /\ step = 1 /\ at = 1
      /\ possible = FALSE /\ dirty = {}
  BY DEF Init
<1>2. row.status = "NOT_STARTED" /\ row.direction = "upgrade" /\ row.proof = "none"
  BY <1>1 DEF NoRun
<1>3. ckpt \in [AllRows -> Marks] /\ \A s \in AllRows : ckpt[s] = "none"
  BY <1>1 DEF NoCheckpoints, Marks
<1>4. ASSUME NEW d \in Directions, NEW k \in Steps(d) PROVE Clean(d, k)
  BY <1>1, <1>3, StepShape DEF Clean, Untouched
<1>5. "upgrade" \in Directions /\ "rollback" \in Directions
  BY DEF Directions
<1>6. EffectType
  <2>1. pc \in PCs /\ mine \subseteq AllRows /\ step \in Nat \ {0} /\ at \in Nat \ {0}
    BY <1>1 DEF PCs
  <2>2. possible \in BOOLEAN /\ dir # "rollback"
    BY <1>1
  <2> QED BY <1>3, <2>1, <2>2 DEF EffectType
<1>7. RowMeans /\ BetweenRuns
  BY <1>1, <1>2, <1>4, <1>5 DEF RowMeans, BetweenRuns, Whole
<1>8. OneTransaction /\ InRun /\ NoEffectTwice /\ SuccessIsComplete
  BY <1>1, <1>2 DEF OneTransaction, InRun, NoEffectTwice, SuccessIsComplete
<1> QED BY <1>6, <1>7, <1>8 DEF EffectInv

LEMMA EffectInvariant == Spec => [](JournalInv /\ EffectInv)
<1>1. JournalInv /\ EffectInv /\ [Next]_vars => (JournalInv /\ EffectInv)'
  BY JournalInvStep, EffectInvStep
<1> QED BY <1>1, JournalInvInit, EffectInvInit, PTL DEF Spec

(* No statement of a data migration takes effect twice: whatever fails     *)
(* between a checkpoint and the commit of its statement, the next run finds*)
(* each step whole and skips or executes all of it (execute_data_plan).    *)
THEOREM EffectsOnce == Spec => []NoEffectTwice
<1>1. EffectInv => NoEffectTwice
  BY DEF EffectInv
<1> QED BY <1>1, EffectInvariant, PTL

(* A run recorded as APPLIED_SUCCESS left every effect of its plan, and one*)
(* recorded as ROLLED_BACK left none (_finish_run).                        *)
THEOREM SuccessComplete == Spec => []SuccessIsComplete
<1>1. EffectInv => SuccessIsComplete
  BY DEF EffectInv
<1> QED BY <1>1, EffectInvariant, PTL

(* FAILED_RETRYABLE with its proof is written only where no step is half   *)
(* done: by a failure before the first effect of a run, and by a           *)
(* verified_retry that marks the steps it verified.                        *)
THEOREM RetryableResolved == Spec => []RetryableIsResolved
<1>1. JournalInv /\ EffectInv => RetryableIsResolved
  <2> SUFFICES ASSUME JournalInv, EffectInv, Resumable(row.direction),
                      NEW k \in Steps(row.direction)
               PROVE  \/ Untouched(row.direction, k)
                         /\ Statements(row.direction, k) \cap done = {}
                      \/ Complete(row.direction, k)
                         /\ Statements(row.direction, k) \subseteq done
    BY DEF RetryableIsResolved
  <2>1. row.status = "FAILED_RETRYABLE" /\ row.proof \in {"no effects", "verified"}
    BY DEF Resumable, HasProof
  <2>2. mode = "nontransactional"
    BY <2>1 DEF JournalInv, JournalType, EffectInv, OneTransaction
  <2>3. pc = "idle"
    BY <2>1, <2>2 DEF JournalInv, RunningRow
  <2>4. Whole(row.direction, k)
    BY <2>1, <2>2, <2>3 DEF EffectInv, BetweenRuns
  <2> QED BY <2>4 DEF Whole, Clean, Kept
<1> QED BY <1>1, EffectInvariant, PTL
==============================================================================
