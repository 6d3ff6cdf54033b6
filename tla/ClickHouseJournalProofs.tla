----------------------- MODULE ClickHouseJournalProofs -----------------------
(***************************************************************************)
(* Every effect of a data migration exactly once, without transactions:    *)
(* for every plan and any number of failures, crashes, lost events and     *)
(* merges.                                                                 *)
(***************************************************************************)
EXTENDS ClickHouseJournal, TLAPS

PCs == {"idle", "steps", "statement", "execute", "after", "recorded", "failing"}
Final == {"APPLIED_SUCCESS", "ROLLED_BACK"}
RowRecords ==
  [epoch : Nat,
   status : Final \cup {"NOT_STARTED", "APPLYING", "FAILED_RETRYABLE", "UNKNOWN", "ABANDONED"},
   direction : Directions,
   proof : {"none", "no effects", "possible effects", "verified"},
   baseline : BOOLEAN]

JournalType ==
  /\ row \in RowRecords /\ ckpt \in [AllRows -> {"none", "PENDING", "DONE"}]
  /\ pc \in PCs /\ dir \in Directions /\ step \in Nat \ {0} /\ at \in Nat \ {0}
  /\ base \in BOOLEAN /\ possible \in BOOLEAN /\ history \in BOOLEAN

(* A checkpoint in doubt is one that the last run wrote; any other tells   *)
(* whether its statement has taken effect.                                 *)
MarksHonest ==
  \A s \in AllRows : /\ ckpt[s] = "none" => s \notin done
                     /\ ckpt[s] = "DONE" => s \in done
                     /\ ckpt[s] = "PENDING" => s \in mine

NoDoubt == \A s \in AllRows : ckpt[s] # "PENDING"

(* A run is started only from a status under which none is in doubt.       *)
RowMeans ==
  /\ row.status \in Final \cup {"FAILED_RETRYABLE"} => NoDoubt
  /\ row.status = "NOT_STARTED" => done = {}

(* What a run that is under way has behind it.                             *)
InRun ==
  pc # "idle" =>
    /\ row.status \in IF pc = "failing" THEN Final \cup {"APPLYING"} ELSE {"APPLYING"}
    /\ dir = "rollback" => ~base
    /\ ~possible => mine = {}
    /\ \A k \in Steps(dir) : k < step => Statements(dir, k) \subseteq done
    /\ pc \in {"steps", "recorded"} => NoDoubt
    /\ pc = "recorded" => /\ history <=> dir = "upgrade"
                          /\ base \/ step \notin Steps(dir)

(* The statements before the cursor have taken effect, and of the others   *)
(* only the one that is about to be executed has a checkpoint in doubt.    *)
InStep ==
  pc \in {"statement", "execute", "after"} =>
    /\ ~base /\ step \in Steps(dir) /\ at <= Size[dir][step] + 1
    /\ \A i \in 1 .. Size[dir][step] : i < at => <<dir, step, i>> \in done
    /\ \A s \in AllRows :
         ckpt[s] = "PENDING" =>
           s \in Statements(dir, step) /\ (s \in done \/ (pc = "execute" /\ s = <<dir, step, at>>))
    /\ pc = "execute" => /\ at <= Size[dir][step] /\ <<dir, step, at>> \notin done
                         /\ ckpt[<<dir, step, at>>] = "PENDING"
    /\ pc = "after" => at > Size[dir][step]

JournalInv ==
  /\ JournalType /\ MarksHonest /\ RowMeans /\ InRun /\ InStep
  /\ NoEffectTwice /\ SuccessIsComplete

-----------------------------------------------------------------------------
LEMMA StepShape ==
  ASSUME NEW d \in Directions, NEW k \in Steps(d)
  PROVE  /\ Size[d][k] \in Nat
         /\ Statements(d, k) \subseteq Effects(d)
         /\ Statements(d, k) \subseteq AllRows
         /\ \A i \in 1 .. Size[d][k] : <<d, k, i>> \in Statements(d, k)
         /\ \A s \in Statements(d, k) : \E i \in 1 .. Size[d][k] : s = <<d, k, i>>
<1>1. Size[d] \in Seq(Nat)
  BY PlanAssumption
<1>2. Size[d][k] \in Nat
  BY <1>1 DEF Steps
<1>3. Statements(d, k) \subseteq Effects(d)
  BY DEF Effects
<1>4. Effects(d) \subseteq AllRows
  BY DEF AllRows, Directions
<1>5. /\ \A i \in 1 .. Size[d][k] : <<d, k, i>> \in Statements(d, k)
      /\ \A s \in Statements(d, k) : \E i \in 1 .. Size[d][k] : s = <<d, k, i>>
  BY DEF Statements
<1> QED BY <1>2, <1>3, <1>4, <1>5

LEMMA StepsAreNumbers ==
  ASSUME NEW d \in Directions
  PROVE  /\ Len(Size[d]) \in Nat /\ Steps(d) = 1 .. Len(Size[d])
         /\ Effects(d) \subseteq AllRows
<1>1. Size[d] \in Seq(Nat)
  BY PlanAssumption
<1> QED BY <1>1 DEF Steps, AllRows, Directions

(* At the end of its steps a run has every effect of its direction.        *)
LEMMA AllBehind ==
  ASSUME JournalInv, pc # "idle", base \/ step \notin Steps(dir)
  PROVE  base \/ Effects(dir) \subseteq done
<1>1. CASE step \notin Steps(dir)
  <2>1. \A k \in Steps(dir) : k < step
    BY <1>1, StepsAreNumbers DEF JournalInv, JournalType
  <2>2. \A k \in Steps(dir) : Statements(dir, k) \subseteq done
    BY <2>1 DEF JournalInv, InRun
  <2> QED BY <2>2 DEF Effects
<1> QED BY <1>1

-----------------------------------------------------------------------------
LEMMA LaunchKeeps ==
  ASSUME JournalInv, NEW d \in Directions, NEW b \in BOOLEAN, Launch(d, b),
         d = "rollback" => ~b,
         row' \in RowRecords, row'.status = "APPLYING",
         ckpt' \in [AllRows -> {"none", "PENDING", "DONE"}], mine' = {}, possible' \in BOOLEAN,
         \A s \in AllRows : \/ ckpt'[s] = "none" /\ s \notin done'
                            \/ ckpt'[s] = "DONE" /\ s \in done'
  PROVE  JournalInv'
<1>1. /\ pc' = "steps" /\ dir' = d /\ base' = b /\ step' = 1 /\ at' = 1
      /\ UNCHANGED <<history, repeated>>
  BY DEF Launch
<1>2. JournalType'
  BY <1>1 DEF JournalInv, JournalType, PCs
<1>3. MarksHonest' /\ RowMeans' /\ InStep'
  BY <1>1 DEF MarksHonest, RowMeans, InStep, Final
<1>4. InRun'
  <2>1. dir' = "rollback" => ~base'
    BY <1>1, Zenon
  <2>2. \A k \in Steps(d) : ~(k < 1)
    BY StepsAreNumbers
  <2>3. NoDoubt'
    BY DEF NoDoubt
  <2> QED BY <1>1, <2>1, <2>2, <2>3 DEF InRun
<1>5. NoEffectTwice' /\ SuccessIsComplete'
  BY <1>1 DEF JournalInv, NoEffectTwice, SuccessIsComplete
<1> QED BY <1>2, <1>3, <1>4, <1>5 DEF JournalInv

LEMMA StartEpochKeeps ==
  ASSUME JournalInv, NEW b \in BOOLEAN, StartEpoch(b)
  PROVE  JournalInv'
<1>1. /\ Launch("upgrade", b) /\ row.status \in {"NOT_STARTED", "ROLLED_BACK"}
      /\ done' = IF Effects("rollback") \subseteq done THEN {} ELSE done
      /\ row' = [epoch |-> row.epoch + 1, status |-> "APPLYING", direction |-> "upgrade",
                 proof |-> "none", baseline |-> b]
      /\ ckpt' = NoCheckpoints /\ mine' = {} /\ possible' = FALSE
  BY DEF StartEpoch
<1>2. done' = {}
  BY <1>1 DEF JournalInv, RowMeans, SuccessIsComplete
<1>3. row' \in RowRecords /\ row'.status = "APPLYING"
  <2>1. row.epoch \in Nat
    BY DEF JournalInv, JournalType, RowRecords
  <2> QED BY <1>1, <2>1 DEF RowRecords, Directions
<1>4. /\ ckpt' \in [AllRows -> {"none", "PENDING", "DONE"}]
      /\ \A s \in AllRows : ckpt'[s] = "none"
  BY <1>1 DEF NoCheckpoints
<1> QED BY <1>1, <1>2, <1>3, <1>4, LaunchKeeps DEF Directions

LEMMA RestartKeeps ==
  ASSUME JournalInv, NEW d \in Directions, NEW b \in BOOLEAN, Restart(d, b)
  PROVE  JournalInv'
<1>1. /\ CanRestart(d, b) /\ Launch(d, b) /\ UNCHANGED <<ckpt, done>> /\ mine' = {}
      /\ row' = [row EXCEPT !.status = "APPLYING", !.direction = d, !.proof = "none"]
      /\ possible' = (\E s \in Effects(d) : ckpt[s] # "none")
  BY DEF Restart, Append1
<1>2. row' \in RowRecords /\ row'.status = "APPLYING"
  BY <1>1 DEF JournalInv, JournalType, RowRecords
<1>3. row.status \in {"APPLIED_SUCCESS", "FAILED_RETRYABLE"} /\ (d = "rollback" => ~b)
  BY <1>1 DEF CanRestart, Resumable, Directions
<1>4. NoDoubt
  BY <1>3 DEF JournalInv, RowMeans, Final
<1>5. \A s \in AllRows : /\ ckpt[s] \in {"none", "PENDING", "DONE"}
                         /\ \/ ckpt[s] = "none" /\ s \notin done
                            \/ ckpt[s] = "DONE" /\ s \in done
  BY <1>4 DEF JournalInv, JournalType, MarksHonest, NoDoubt
<1>6. possible' \in BOOLEAN /\ ckpt' \in [AllRows -> {"none", "PENDING", "DONE"}]
  BY <1>1 DEF JournalInv, JournalType
<1> QED BY <1>1, <1>2, <1>3, <1>5, <1>6, LaunchKeeps

-----------------------------------------------------------------------------
(* The steps of a run.                                                     *)
LEMMA BeginStepKeeps ==
  ASSUME JournalInv, BeginStep
  PROVE  JournalInv'
<1>1. /\ pc = "steps" /\ ~base /\ step \in Steps(dir) /\ pc' = "statement" /\ at' = 1
      /\ UNCHANGED <<row, ckpt, mine, history, done, repeated, dir, base, step, possible>>
  BY DEF BeginStep, Append1, data
<1>2. Size[dir][step] \in Nat
  BY <1>1, StepShape DEF JournalInv, JournalType
<1>3. JournalType' /\ MarksHonest' /\ NoEffectTwice' /\ SuccessIsComplete'
  BY <1>1 DEF JournalInv, JournalType, PCs, MarksHonest, NoEffectTwice, SuccessIsComplete
<1>4. RowMeans'
  BY <1>1 DEF JournalInv, RowMeans, NoDoubt
<1>5. InRun'
  BY <1>1 DEF JournalInv, InRun
<1>6. InStep'
  BY <1>1, <1>2 DEF JournalInv, InRun, InStep, NoDoubt
<1> QED BY <1>3, <1>4, <1>5, <1>6 DEF JournalInv

LEMMA SkipStatementKeeps ==
  ASSUME JournalInv, SkipStatement
  PROVE  JournalInv'
<1>1. /\ pc = "statement" /\ at \in 1 .. Size[dir][step] /\ at' = at + 1
      /\ ckpt[<<dir, step, at>>] = "DONE"
      /\ UNCHANGED <<row, ckpt, mine, history, done, repeated, pc, dir, base, step, possible>>
  BY DEF SkipStatement, AtStatement, MarkOf, journal, data
<1>2. /\ Size[dir][step] \in Nat /\ <<dir, step, at>> \in AllRows
  BY <1>1, StepShape DEF JournalInv, JournalType, InStep
<1>3. JournalType' /\ MarksHonest' /\ NoEffectTwice' /\ SuccessIsComplete'
  BY <1>1 DEF JournalInv, JournalType, PCs, MarksHonest, NoEffectTwice, SuccessIsComplete
<1>4. RowMeans'
  BY <1>1 DEF JournalInv, RowMeans, NoDoubt
<1>5. InRun'
  BY <1>1 DEF JournalInv, InRun
<1>6. InStep'
  <2>1. <<dir, step, at>> \in done
    BY <1>1, <1>2 DEF JournalInv, MarksHonest
  <2>2. \A i \in 1 .. Size[dir][step] : i < at + 1 => i < at \/ i = at
    BY DEF JournalInv, JournalType
  <2>3. \A i \in 1 .. Size[dir][step] : i < at' => <<dir, step, i>> \in done
    BY <1>1, <2>1, <2>2 DEF JournalInv, InStep
  <2>4. at' <= Size[dir][step] + 1
    BY <1>1, <1>2
  <2> QED BY <1>1, <2>3, <2>4 DEF JournalInv, InStep
<1> QED BY <1>3, <1>4, <1>5, <1>6 DEF JournalInv

LEMMA WriteCheckpointKeeps ==
  ASSUME JournalInv, WriteCheckpoint
  PROVE  JournalInv'
<1> DEFINE here == <<dir, step, at>>
<1>1. /\ pc = "statement" /\ at \in 1 .. Size[dir][step] /\ pc' = "execute"
      /\ ckpt[here] = "none" /\ ckpt' = [ckpt EXCEPT ![here] = "PENDING"]
      /\ mine' = mine \cup {here} /\ possible' = TRUE
      /\ UNCHANGED <<row, history, done, repeated, dir, base, step, at>>
  BY DEF WriteCheckpoint, AtStatement, MarkOf, data
<1>2. here \in AllRows /\ here \in Statements(dir, step)
  BY <1>1, StepShape DEF JournalInv, JournalType, InStep
<1>3. row.status = "APPLYING" /\ ckpt \in [AllRows -> {"none", "PENDING", "DONE"}]
  BY <1>1 DEF JournalInv, JournalType, InRun
<1> HIDE DEF here
<1>4. \A s \in AllRows : ckpt'[s] = IF s = here THEN "PENDING" ELSE ckpt[s]
  BY <1>1, <1>3
<1>5. here \notin done
  BY <1>1, <1>2 DEF JournalInv, MarksHonest
<1>6. JournalType'
  BY <1>1, <1>3 DEF JournalInv, JournalType, PCs
<1>7. MarksHonest'
  BY <1>1, <1>4 DEF JournalInv, MarksHonest
<1>8. RowMeans' /\ NoEffectTwice' /\ SuccessIsComplete'
  BY <1>1, <1>3 DEF JournalInv, RowMeans, NoEffectTwice, SuccessIsComplete, Final
<1>9. InRun'
  BY <1>1 DEF JournalInv, InRun
<1>10. InStep'
  <2>1. \A s \in AllRows :
          ckpt'[s] = "PENDING" => s \in Statements(dir, step) /\ (s \in done \/ s = here)
    BY <1>1, <1>2, <1>4 DEF JournalInv, InStep
  <2>2. here = <<dir, step, at>>' /\ ckpt'[here] = "PENDING"
    BY <1>1, <1>2, <1>4 DEF here
  <2>3. at <= Size[dir][step]
    BY <1>1
  <2>4. /\ ~base /\ step \in Steps(dir) /\ at <= Size[dir][step] + 1
        /\ \A i \in 1 .. Size[dir][step] : i < at => <<dir, step, i>> \in done
    BY <1>1 DEF JournalInv, InStep
  <2> QED BY <1>1, <1>5, <2>1, <2>2, <2>3, <2>4 DEF InStep
<1> QED BY <1>6, <1>7, <1>8, <1>9, <1>10 DEF JournalInv

LEMMA ExecuteKeeps ==
  ASSUME JournalInv, Execute
  PROVE  JournalInv'
<1> DEFINE here == <<dir, step, at>>
<1>1. /\ pc = "execute" /\ done' = done \cup {here}
      /\ repeated' = repeated \cup (done \cap {here})
      /\ at' = at + 1 /\ pc' = "statement"
      /\ UNCHANGED <<row, ckpt, mine, history, dir, base, step, possible>>
  BY DEF Execute, journal
<1>2. /\ here \notin done /\ ckpt[here] = "PENDING" /\ at <= Size[dir][step]
      /\ step \in Steps(dir) /\ row.status = "APPLYING"
  BY <1>1 DEF JournalInv, InStep, InRun
<1>3. Size[dir][step] \in Nat /\ at \in Nat \ {0}
  BY <1>2, StepShape DEF JournalInv, JournalType
<1> HIDE DEF here
<1>4. JournalType'
  BY <1>1, <1>3 DEF JournalInv, JournalType, PCs
<1>5. MarksHonest'
  BY <1>1, <1>2 DEF JournalInv, MarksHonest
<1>6. RowMeans' /\ NoEffectTwice' /\ SuccessIsComplete'
  BY <1>1, <1>2 DEF JournalInv, RowMeans, NoEffectTwice, SuccessIsComplete, Final
<1>7. InRun'
  BY <1>1 DEF JournalInv, InRun
<1>8. InStep'
  <2>1. \A i \in 1 .. Size[dir][step] : i < at + 1 => i < at \/ i = at
    BY <1>3
  <2>2. \A i \in 1 .. Size[dir][step] : i < at' => <<dir, step, i>> \in done'
    BY <1>1, <2>1 DEF JournalInv, InStep, here
  <2>3. \A s \in AllRows : ckpt'[s] = "PENDING" => s \in Statements(dir, step) /\ s \in done'
    BY <1>1 DEF JournalInv, InStep, here
  <2>4. at' <= Size[dir][step] + 1 /\ ~base
    BY <1>1, <1>2, <1>3 DEF JournalInv, InStep
  <2> QED BY <1>1, <1>2, <2>2, <2>3, <2>4 DEF InStep
<1> QED BY <1>4, <1>5, <1>6, <1>7, <1>8 DEF JournalInv

LEMMA CheckAfterKeeps ==
  ASSUME JournalInv, CheckAfter
  PROVE  JournalInv'
<1>1. /\ pc = "statement" /\ at \notin 1 .. Size[dir][step] /\ pc' = "after"
      /\ UNCHANGED <<row, ckpt, mine, history, done, repeated, dir, base, step, at, possible>>
  BY DEF CheckAfter, journal, data, process
<1>2. Size[dir][step] \in Nat
  BY <1>1, StepShape DEF JournalInv, JournalType, InStep
<1>3. at > Size[dir][step]
  BY <1>1, <1>2 DEF JournalInv, JournalType
<1>4. JournalType' /\ MarksHonest' /\ NoEffectTwice' /\ SuccessIsComplete'
  BY <1>1 DEF JournalInv, JournalType, PCs, MarksHonest, NoEffectTwice, SuccessIsComplete
<1>5. RowMeans' /\ InRun'
  BY <1>1 DEF JournalInv, RowMeans, NoDoubt, InRun
<1>6. InStep'
  BY <1>1, <1>3 DEF JournalInv, InStep
<1> QED BY <1>4, <1>5, <1>6 DEF JournalInv

LEMMA MarkDoneKeeps ==
  ASSUME JournalInv, MarkDone
  PROVE  JournalInv'
<1>1. PICK t \in Pending : ckpt' = [ckpt EXCEPT ![t] = "DONE"]
  BY DEF MarkDone
<1>2. /\ pc = "after"
      /\ UNCHANGED <<row, mine, history, done, repeated, pc, dir, base, step, at, possible>>
  BY DEF MarkDone, data, process
<1>3. /\ ckpt \in [AllRows -> {"none", "PENDING", "DONE"}] /\ row.status = "APPLYING"
      /\ step \in Steps(dir)
  BY <1>2 DEF JournalInv, JournalType, InRun, InStep
<1>4. t \in AllRows /\ ckpt[t] = "PENDING"
  BY <1>3, StepShape DEF Pending, JournalInv, JournalType
<1>5. t \in done
  BY <1>2, <1>4 DEF JournalInv, InStep
<1>6. \A s \in AllRows : ckpt'[s] = IF s = t THEN "DONE" ELSE ckpt[s]
  BY <1>1, <1>3
<1>7. JournalType'
  BY <1>1, <1>2, <1>3 DEF JournalInv, JournalType
<1>8. MarksHonest'
  BY <1>2, <1>5, <1>6 DEF JournalInv, MarksHonest
<1>9. RowMeans' /\ NoEffectTwice' /\ SuccessIsComplete'
  BY <1>2, <1>3 DEF JournalInv, RowMeans, NoEffectTwice, SuccessIsComplete, Final
<1>10. InRun'
  BY <1>2 DEF JournalInv, InRun
<1>11. InStep'
  BY <1>2, <1>6 DEF JournalInv, InStep
<1> QED BY <1>7, <1>8, <1>9, <1>10, <1>11 DEF JournalInv

LEMMA EndStepKeeps ==
  ASSUME JournalInv, EndStep
  PROVE  JournalInv'
<1>1. /\ pc = "after" /\ Pending = {} /\ step' = step + 1 /\ pc' = "steps"
      /\ UNCHANGED <<row, ckpt, mine, history, done, repeated, dir, base, at, possible>>
  BY DEF EndStep, journal, data
<1>2. /\ step \in Steps(dir) /\ step \in Nat /\ at \in Nat /\ dir \in Directions
      /\ at > Size[dir][step]
  BY <1>1 DEF JournalInv, JournalType, InStep
<1>3. NoDoubt
  BY <1>1 DEF JournalInv, InStep, MarksHonest, NoDoubt, Pending
<1>4. Statements(dir, step) \subseteq done
  <2>1. \A i \in 1 .. Size[dir][step] : <<dir, step, i>> \in done
    BY <1>1, <1>2, StepShape DEF JournalInv, InStep
  <2> QED BY <1>2, <2>1, StepShape
<1>5. JournalType' /\ MarksHonest' /\ NoEffectTwice' /\ SuccessIsComplete'
  BY <1>1, <1>2 DEF JournalInv, JournalType, PCs, MarksHonest, NoEffectTwice, SuccessIsComplete
<1>6. RowMeans' /\ InStep'
  BY <1>1, <1>3 DEF JournalInv, RowMeans, NoDoubt, InStep
<1>7. InRun'
  <2>1. \A k \in Steps(dir) : k < step + 1 => k < step \/ k = step
    BY <1>2, StepsAreNumbers
  <2>2. \A k \in Steps(dir) : k < step + 1 => Statements(dir, k) \subseteq done
    BY <1>1, <1>4, <2>1 DEF JournalInv, InRun
  <2>3. \A k \in Steps(dir') : k < step' => Statements(dir, k)' \subseteq done'
    BY <1>1, <2>2 DEF Statements
  <2> QED BY <1>1, <1>3, <2>3 DEF JournalInv, InRun, NoDoubt
<1> QED BY <1>5, <1>6, <1>7 DEF JournalInv

LEMMA RecordKeeps ==
  ASSUME JournalInv, Record
  PROVE  JournalInv'
<1>1. /\ pc = "steps" /\ (base \/ step \notin Steps(dir))
      /\ pc' = "recorded" /\ (history' <=> dir = "upgrade") /\ history' \in BOOLEAN
      /\ UNCHANGED <<row, ckpt, mine, done, repeated, dir, base, step, at, possible>>
  BY DEF Record, AtEnd, journal, data, process
<1>2. row.status = "APPLYING" /\ NoDoubt
  BY <1>1 DEF JournalInv, InRun
<1>3. JournalType' /\ MarksHonest' /\ NoEffectTwice'
  BY <1>1 DEF JournalInv, JournalType, PCs, MarksHonest, NoEffectTwice
<1>4. RowMeans' /\ SuccessIsComplete' /\ InStep'
  BY <1>1, <1>2 DEF JournalInv, RowMeans, SuccessIsComplete, InStep, Final
<1>5. InRun'
  BY <1>1, <1>2 DEF JournalInv, InRun, NoDoubt
<1> QED BY <1>3, <1>4, <1>5 DEF JournalInv

LEMMA FinalRowMeans ==
  ASSUME JournalInv, pc = "recorded", row' = FinalRow,
         UNCHANGED <<ckpt, history, done>>
  PROVE  /\ row' \in RowRecords /\ row'.status \in Final
         /\ RowMeans' /\ SuccessIsComplete'
<1>1. /\ dir = "upgrade" \/ (dir = "rollback" /\ ~base)
      /\ history <=> dir = "upgrade"
      /\ base \/ step \notin Steps(dir)
      /\ NoDoubt
  BY DEF JournalInv, JournalType, Directions, InRun
<1>2. base \/ Effects(dir) \subseteq done
  BY <1>1, AllBehind
<1>3. /\ row' \in RowRecords /\ row'.baseline = base
      /\ row'.status = IF dir = "upgrade" THEN "APPLIED_SUCCESS" ELSE "ROLLED_BACK"
  BY DEF JournalInv, JournalType, RowRecords, FinalRow, Final
<1>4. RowMeans'
  BY <1>1, <1>3 DEF RowMeans, NoDoubt
<1>5. SuccessIsComplete'
  BY <1>1, <1>2, <1>3 DEF SuccessIsComplete
<1> QED BY <1>3, <1>4, <1>5 DEF Final

LEMMA FinishRunKeeps ==
  ASSUME JournalInv, FinishRun
  PROVE  JournalInv'
<1>1. /\ pc = "recorded" /\ row' = FinalRow /\ pc' = "idle"
      /\ UNCHANGED <<ckpt, mine, history, done, repeated, dir, base, step, at, possible>>
  BY DEF FinishRun, Append1, data, process
<1>2. row' \in RowRecords /\ RowMeans' /\ SuccessIsComplete'
  BY <1>1, FinalRowMeans
<1>3. JournalType' /\ MarksHonest' /\ NoEffectTwice'
  BY <1>1, <1>2 DEF JournalInv, JournalType, PCs, MarksHonest, NoEffectTwice
<1>4. InRun' /\ InStep'
  BY <1>1 DEF InRun, InStep
<1> QED BY <1>2, <1>3, <1>4 DEF JournalInv

(* A failure is retryable only if the run wrote no checkpoint: nothing is  *)
(* in doubt then.                                                          *)
LEMMA PersistFailureKeeps ==
  ASSUME JournalInv, PersistFailure
  PROVE  JournalInv'
<1>1. /\ pc = "failing" /\ pc' = "idle"
      /\ row' = [row EXCEPT !.status = FailureStatus, !.baseline = base,
                   !.proof = IF FailureStatus = "UNKNOWN" THEN "possible effects"
                                                          ELSE "no effects"]
      /\ UNCHANGED <<ckpt, mine, history, done, repeated, dir, base, step, at, possible>>
  BY DEF PersistFailure, Append1, data, process
<1>2. /\ FailureStatus \in {"UNKNOWN", "FAILED_RETRYABLE"}
      /\ FailureStatus = "FAILED_RETRYABLE" => ~possible
  BY DEF FailureStatus
<1>3. row' \in RowRecords /\ row'.status = FailureStatus
  BY <1>1, <1>2 DEF JournalInv, JournalType, RowRecords
<1>4. ~possible => NoDoubt
  BY <1>1 DEF JournalInv, InRun, MarksHonest, NoDoubt
<1>5. JournalType' /\ MarksHonest' /\ NoEffectTwice'
  BY <1>1, <1>3 DEF JournalInv, JournalType, PCs, MarksHonest, NoEffectTwice
<1>6. RowMeans' /\ SuccessIsComplete'
  BY <1>1, <1>2, <1>3, <1>4 DEF RowMeans, NoDoubt, SuccessIsComplete, Final
<1>7. InRun' /\ InStep'
  BY <1>1 DEF InRun, InStep
<1> QED BY <1>5, <1>6, <1>7 DEF JournalInv

(* A run stops without having changed anything but its record.             *)
LEMMA StopKeeps ==
  ASSUME JournalInv, Fail \/ LoseEvent \/ Crash
  PROVE  JournalInv'
<1>1. /\ pc # "idle" /\ pc' \in {"idle", "failing"}
      /\ UNCHANGED <<ckpt, mine, history, done, repeated, dir, base, step, at, possible>>
  BY DEF Fail, LoseEvent, Crash, journal, data, process
<1>2. \/ row' = row /\ (pc' = "failing" => pc # "failing")
      \/ pc = "recorded" /\ row' = FinalRow
  BY DEF Fail, LoseEvent, Crash, journal, Append1
<1>3. /\ row' \in RowRecords /\ RowMeans' /\ SuccessIsComplete'
      /\ pc' = "failing" => row'.status \in Final \cup {"APPLYING"}
  <2>1. CASE row' = row /\ (pc' = "failing" => pc # "failing")
    BY <1>1, <2>1 DEF JournalInv, JournalType, RowMeans, NoDoubt, SuccessIsComplete, InRun
  <2>2. CASE pc = "recorded" /\ row' = FinalRow
    BY <1>1, <2>2, FinalRowMeans
  <2> QED BY <1>2, <2>1, <2>2
<1>4. JournalType' /\ MarksHonest' /\ NoEffectTwice'
  BY <1>1, <1>3 DEF JournalInv, JournalType, PCs, MarksHonest, NoEffectTwice
<1>5. InRun' /\ InStep'
  BY <1>1, <1>3 DEF JournalInv, InRun, InStep
<1> QED BY <1>3, <1>4, <1>5 DEF JournalInv

-----------------------------------------------------------------------------
(* Between the runs.                                                       *)
LEMMA MergeKeeps ==
  ASSUME JournalInv, Merge \/ UNCHANGED vars
  PROVE  JournalInv'
<1>1. UNCHANGED <<row, ckpt, mine, history, done, repeated, pc, dir, base, step, at, possible>>
  BY DEF Merge, vars, journal, data, process
<1>2. JournalType' /\ MarksHonest' /\ NoEffectTwice' /\ SuccessIsComplete'
  BY <1>1 DEF JournalInv, JournalType, MarksHonest, NoEffectTwice, SuccessIsComplete
<1>3. RowMeans' /\ InRun' /\ InStep'
  BY <1>1 DEF JournalInv, RowMeans, NoDoubt, InRun, InStep
<1> QED BY <1>2, <1>3 DEF JournalInv

LEMMA AbandonKeeps ==
  ASSUME JournalInv, Abandon
  PROVE  JournalInv'
<1>1. /\ pc = "idle" /\ row' = [row EXCEPT !.status = "ABANDONED"]
      /\ UNCHANGED <<ckpt, mine, history, done, repeated, pc, dir, base, step, at, possible>>
  BY DEF Abandon, Reconcilable, Append1, data, process
<1>2. row' \in RowRecords /\ row'.status = "ABANDONED"
  BY <1>1 DEF JournalInv, JournalType, RowRecords
<1>3. JournalType' /\ MarksHonest' /\ NoEffectTwice'
  BY <1>1, <1>2 DEF JournalInv, JournalType, MarksHonest, NoEffectTwice
<1>4. RowMeans' /\ SuccessIsComplete' /\ InRun' /\ InStep'
  BY <1>1, <1>2 DEF RowMeans, SuccessIsComplete, InRun, InStep, Final
<1> QED BY <1>3, <1>4 DEF JournalInv

(* The postconditions of the steps it touched show that what the last run  *)
(* left in doubt has taken effect.                                         *)
LEMMA VerifiedRetryKeeps ==
  ASSUME JournalInv, VerifiedRetry
  PROVE  JournalInv'
<1>1. /\ pc = "idle" /\ Visible = "UNKNOWN"
      /\ \A d \in Directions : \A k \in Steps(d) : Verified(d, k)
      /\ UNCHANGED <<mine, history, done, repeated, pc, dir, base, step, at, possible>>
  BY DEF VerifiedRetry, Reconcilable, data, process
<1>2. \/ /\ ckpt' = [s \in AllRows |-> IF s \in mine THEN "DONE" ELSE ckpt[s]]
         /\ row' = [row EXCEPT !.status = "FAILED_RETRYABLE", !.proof = "verified"]
      \/ /\ row' = row
         /\ \E S \in SUBSET mine : ckpt' = [s \in AllRows |-> IF s \in S THEN "DONE" ELSE ckpt[s]]
  BY DEF VerifiedRetry, Append1
<1>3. row.status \in {"APPLYING", "UNKNOWN"} /\ row \in RowRecords
  BY <1>1 DEF Visible, JournalInv, JournalType
<1>4. \A s \in AllRows : s \in mine => s \in done
  <2> SUFFICES ASSUME NEW s \in AllRows, s \in mine PROVE s \in done
    OBVIOUS
  <2>1. PICK d \in Directions : s \in Effects(d)
    BY DEF AllRows, Directions
  <2>2. PICK k \in Steps(d) : s \in Statements(d, k)
    BY <2>1 DEF Effects
  <2> QED BY <1>1, <2>2 DEF Verified
<1>5. PICK S \in SUBSET mine : ckpt' = [s \in AllRows |-> IF s \in S THEN "DONE" ELSE ckpt[s]]
  BY <1>2
<1>6. ckpt \in [AllRows -> {"none", "PENDING", "DONE"}]
  BY DEF JournalInv, JournalType
<1>7. /\ ckpt' \in [AllRows -> {"none", "PENDING", "DONE"}]
      /\ \A s \in AllRows : ckpt'[s] = IF s \in S THEN "DONE" ELSE ckpt[s]
  BY <1>5, <1>6
<1>8. MarksHonest'
  BY <1>1, <1>4, <1>5, <1>7 DEF JournalInv, MarksHonest
<1>9. /\ row' \in RowRecords /\ row'.status \in {row.status, "FAILED_RETRYABLE"}
      /\ row'.status = "FAILED_RETRYABLE" => NoDoubt'
  <2>1. CASE row' = row
    BY <1>3, <2>1
  <2>2. CASE /\ ckpt' = [s \in AllRows |-> IF s \in mine THEN "DONE" ELSE ckpt[s]]
             /\ row' = [row EXCEPT !.status = "FAILED_RETRYABLE", !.proof = "verified"]
    <3>1. \A s \in AllRows : ckpt'[s] = IF s \in mine THEN "DONE" ELSE ckpt[s]
      BY <2>2
    <3>2. NoDoubt'
      BY <3>1 DEF NoDoubt, JournalInv, MarksHonest
    <3> QED BY <1>3, <2>2, <3>2 DEF RowRecords
  <2> QED BY <1>2, <2>1, <2>2
<1>10. JournalType' /\ NoEffectTwice'
  BY <1>1, <1>7, <1>9 DEF JournalInv, JournalType, NoEffectTwice
<1>11. RowMeans' /\ SuccessIsComplete' /\ InRun' /\ InStep'
  BY <1>1, <1>3, <1>9 DEF RowMeans, SuccessIsComplete, InRun, InStep, Final
<1> QED BY <1>8, <1>9, <1>10, <1>11 DEF JournalInv

-----------------------------------------------------------------------------
LEMMA JournalInvStep == JournalInv /\ [Next]_vars => JournalInv'
<1> SUFFICES ASSUME JournalInv, [Next]_vars PROVE JournalInv'
  OBVIOUS
<1>1. CASE Start
  BY <1>1, StartEpochKeeps, RestartKeeps DEF Start
<1>2. CASE Advance
  BY <1>2, BeginStepKeeps, SkipStatementKeeps, WriteCheckpointKeeps, ExecuteKeeps,
     CheckAfterKeeps, MarkDoneKeeps, EndStepKeeps, RecordKeeps, FinishRunKeeps,
     PersistFailureKeeps DEF Advance
<1> QED
  BY <1>1, <1>2, StopKeeps, MergeKeeps, AbandonKeeps, VerifiedRetryKeeps DEF Next

LEMMA JournalInvInit == Init => JournalInv
<1> SUFFICES ASSUME Init PROVE JournalInv
  OBVIOUS
<1>1. /\ row = NoRun /\ ckpt = NoCheckpoints /\ mine = {} /\ history = FALSE
      /\ done = {} /\ repeated = {} /\ pc = "idle" /\ dir = "upgrade" /\ base = FALSE
      /\ step = 1 /\ at = 1 /\ possible = FALSE
  BY DEF Init
<1>2. row \in RowRecords /\ row.status = "NOT_STARTED"
  BY <1>1 DEF NoRun, RowRecords, Directions
<1>3. /\ ckpt \in [AllRows -> {"none", "PENDING", "DONE"}]
      /\ \A s \in AllRows : ckpt[s] = "none"
  BY <1>1 DEF NoCheckpoints
<1>4. JournalType /\ MarksHonest
  <2>1. pc \in PCs /\ dir \in Directions /\ step \in Nat \ {0} /\ at \in Nat \ {0}
    BY <1>1 DEF PCs, Directions
  <2>2. base \in BOOLEAN /\ possible \in BOOLEAN /\ history \in BOOLEAN
    BY <1>1
  <2> QED BY <1>1, <1>2, <1>3, <2>1, <2>2 DEF JournalType, MarksHonest
<1>5. RowMeans /\ InRun /\ InStep /\ NoEffectTwice /\ SuccessIsComplete
  BY <1>1, <1>2 DEF RowMeans, InRun, InStep, NoEffectTwice, SuccessIsComplete, Final
<1> QED BY <1>4, <1>5 DEF JournalInv

LEMMA JournalInvariant == Spec => []JournalInv
BY JournalInvInit, JournalInvStep, PTL DEF Spec

(* No statement of a data migration takes effect twice on ClickHouse       *)
(* either, where nothing can be rolled back: its checkpoint is durable     *)
(* before it is executed, and a run that finds one in doubt stops          *)
(* (_execute_clickhouse).                                                  *)
THEOREM EffectsOnce == Spec => []NoEffectTwice
<1>1. JournalInv => NoEffectTwice
  BY DEF JournalInv
<1> QED BY <1>1, JournalInvariant, PTL

(* A final status, also one whose event was lost, is in the journal only   *)
(* after every effect of the plan and after the history.                   *)
THEOREM SuccessComplete == Spec => []SuccessIsComplete
<1>1. JournalInv => SuccessIsComplete
  BY DEF JournalInv
<1> QED BY <1>1, JournalInvariant, PTL

(* FAILED_RETRYABLE with its proof is recorded only when no checkpoint is  *)
(* in doubt: by a run that wrote none, or by a verified_retry that saw     *)
(* those of the last run in effect.                                        *)
THEOREM RetryableResolved == Spec => []RetryableIsResolved
<1>1. JournalInv => RetryableIsResolved
  <2> SUFFICES ASSUME JournalInv, Resumable(row.direction), NEW s \in Effects(row.direction)
               PROVE  \/ ckpt[s] = "none" /\ s \notin done
                      \/ ckpt[s] = "DONE" /\ s \in done
    BY DEF RetryableIsResolved
  <2>1. NoDoubt
    BY DEF Resumable, JournalInv, RowMeans
  <2>2. s \in AllRows
    BY StepsAreNumbers DEF JournalInv, JournalType, RowRecords
  <2>3. ckpt[s] \in {"none", "PENDING", "DONE"}
    BY <2>2 DEF JournalInv, JournalType
  <2> QED BY <2>1, <2>2, <2>3 DEF JournalInv, MarksHonest, NoDoubt
<1> QED BY <1>1, JournalInvariant, PTL
==============================================================================
