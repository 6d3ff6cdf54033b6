--------------------------- MODULE GenerationChain ---------------------------
(***************************************************************************)
(* The chain of pending plans: `make-migrations` does not look at the      *)
(* database but composes what it knows of it, the latest schema snapshot   *)
(* or the recorded model state, with the plans of the files that it takes  *)
(* for pending, and writes the difference to the models as the next        *)
(* versions.  `migrate` applies them, writes a snapshot after each and the *)
(* model state at the end; `rollback` writes neither; developers delete    *)
(* pending files, and commands die between two writes.                     *)
(*                                                                         *)
(* A schema is a set of elements, a file what it drops and adds, a plan    *)
(* the schemas before and after it: their equality is that of the          *)
(* checksums.  A schema taken from the database and one computed from the  *)
(* models compare equal when they have the same elements.  The working     *)
(* copy belongs to one developer, who runs one command at a time.          *)
(***************************************************************************)
EXTENDS Integers, Sequences, FiniteSets, FiniteSetsExt

CONSTANTS
  Elements,       (* Tables and columns.                                   *)
  None,           (* No model state, no snapshot, no promise.              *)
  MaxVersion,     (* Bound: versions.                                      *)
  MaxEdits,       (* Bound: edits of the models.                           *)
  MaxRollbacks,   (* Bound: versions rolled back.                          *)
  MaxDeletes,     (* Bound: files deleted.                                 *)
  MaxFaults,      (* Bound: snapshots not written, generations killed.     *)
  MaxMishaps      (* Bound: rollbacks, deletions and faults together.      *)

ASSUME BoundsAssumption ==
  /\ MaxVersion \in Nat /\ MaxEdits \in Nat /\ MaxRollbacks \in Nat
  /\ MaxDeletes \in Nat /\ MaxFaults \in Nat /\ MaxMishaps \in Nat

Numbers == 1 .. MaxVersion
Schemas == SUBSET Elements

VARIABLES
  models,         (* What the models declare.                              *)
  chain,          (* The files in the directory, a function of versions.   *)
  record,         (* model_state.json.                                     *)
  snapshots,      (* .dbwarden/schemas, a function of versions.            *)
  schema,         (* The database,                                         *)
  history,        (* ... and the versions its history has.                 *)
  run,            (* The migrate that runs.                                *)
  goal,           (* The models of the last generation, while it stands.   *)
  left            (* What is left of each bound.                           *)

project == <<models, chain, record, snapshots>>
database == <<schema, history>>
chainVars == <<project, database, run, goal, left>>

Idle == [at |-> 0, applied |-> {}, deferred |-> FALSE]
Mishaps ==
  (MaxRollbacks - left.rollback) + (MaxDeletes - left.delete) + (MaxFaults - left.fault)
Spend(what) ==
  /\ left[what] > 0 /\ (what # "edit" => Mishaps < MaxMishaps)
  /\ left' = [left EXCEPT ![what] = @ - 1]

ChainInit ==
  /\ models \in Schemas \ {{}}
  /\ chain = << >> /\ snapshots = << >>
  /\ record \in {None, [target |-> {}, based |-> FALSE, base |-> {}, applied |-> {}]}
  /\ schema = {} /\ history = {} /\ run = Idle /\ goal = None
  /\ left = [edit |-> MaxEdits, rollback |-> MaxRollbacks, delete |-> MaxDeletes,
             fault |-> MaxFaults]

EditModels ==
  /\ run = Idle /\ Spend("edit")
  /\ models' \in Schemas \ {models}
  /\ UNCHANGED <<chain, record, snapshots, database, run, goal>>

(***************************************************************************)
(* The state that generation starts from.                                  *)
(***************************************************************************)

(* effective_state over the given versions: plans of those not applied, in *)
(* order; without a trusted plan a file is skipped with a warning, and a   *)
(* plan for another base is an error.                                      *)
Effective(base, versions, applied) ==
  LET Upto[v \in 0 .. MaxVersion] ==
        IF v = 0 THEN [state |-> base, ok |-> TRUE, planless |-> FALSE]
        ELSE LET before == Upto[v - 1] IN
          IF v \notin versions \ applied THEN before
          ELSE IF ~chain[v].planned THEN [before EXCEPT !.planless = TRUE]
          ELSE [before EXCEPT !.state = chain[v].target,
                              !.ok = @ /\ chain[v].base = before.state]
  IN Upto[MaxVersion]

(* find_latest_snapshot: the greatest version, not the last one written.   *)
Latest == IF DOMAIN snapshots = {} THEN None ELSE snapshots[Max(DOMAIN snapshots)]

(* The baseline and the versions taken to be in it.                        *)
Baseline(offline) ==
  IF Latest # None THEN [state |-> Latest.state, applied |-> Latest.applied]
  ELSE IF record # None /\ record.based
         THEN [state |-> record.base, applied |-> record.applied]
  ELSE IF ~offline THEN [state |-> schema, applied |-> history]
  ELSE IF record = None THEN None
  ELSE [state |-> IF chain = << >> THEN {} ELSE record.target, applied |-> {}]

(* check_divergent_base; ahead: git knows a remote branch that is an       *)
(* ancestor of HEAD.                                                       *)
Divergent(ahead) ==
  /\ record # None /\ chain # << >>
  /\ LET newest == chain[Max(DOMAIN chain)] IN
       /\ ~(newest.planned /\ newest.target = record.target)
       /\ ~record.based
       /\ newest.base # record.target
       /\ ~ahead

(* Mutant: a model state with a baseline of its own is no exception.       *)
MutantDiscontinuous ==
  /\ Latest # None /\ record # None
  /\ \A v \in DOMAIN chain \ Latest.applied : chain[v].planned
  /\ LET composed == Effective(Latest.state, DOMAIN chain, Latest.applied)
     IN ~composed.ok \/ composed.state # record.target
(* check_snapshot_discontinuity                                            *)
Discontinuous ==
  /\ Latest # None /\ record # None
  /\ \A v \in DOMAIN chain \ Latest.applied : chain[v].planned
  /\ LET base == IF ~Latest.typed /\ record.based THEN record.base ELSE Latest.state
         composed == Effective(base, DOMAIN chain, Latest.applied)
     IN ~composed.ok \/ (~record.based /\ composed.state # record.target)

MergeSignal(ahead) == Divergent(ahead) \/ Discontinuous

(* check_deferred_conflicts                                                *)
DeferredConflict(effective, applied) ==
  \E v \in DOMAIN chain \ applied :
    /\ chain[v].planned /\ chain[v].role = "deferred"
    /\ \E e \in chain[v].add \cup chain[v].drop : (e \in effective) # (e \in models)

(***************************************************************************)
(* make-migrations                                                         *)
(***************************************************************************)

(* group_operations: dropping is CRITICAL, adding is not.                  *)
Groups(add, drop, split) ==
  IF add \cup drop = {} THEN << >>
  ELSE IF ~split \/ drop = {} THEN <<[add |-> add, drop |-> drop, role |-> "unsplit"]>>
  ELSE IF add = {} THEN <<[add |-> {}, drop |-> drop, role |-> "deferred"]>>
  ELSE <<[add |-> add, drop |-> {}, role |-> "base"],
         [add |-> {}, drop |-> drop, role |-> "deferred"]>>

Executed(state, file) == (state \ file.drop) \cup file.add
Executable(file, state) == file.drop \subseteq state /\ file.add \cap state = {}

(* generate_files: the artifacts, numbered after the greatest version in   *)
(* the directory, each based on the one before.                            *)
Artifacts(effective, split) ==
  LET groups == Groups(models \ effective, effective \ models, split)
      number(i) == i + (IF chain = << >> THEN 0 ELSE Max(DOMAIN chain))
      base(i) == IF i = 1 THEN effective ELSE Executed(effective, groups[1])
  IN [v \in {number(i) : i \in DOMAIN groups} |->
        LET i == CHOOSE j \in DOMAIN groups : number(j) = v IN
          [add |-> groups[i].add, drop |-> groups[i].drop, role |-> groups[i].role,
           base |-> base(i), target |-> Executed(base(i), groups[i]), planned |-> TRUE]]

With(f, g) == [v \in DOMAIN f \cup DOMAIN g |-> IF v \in DOMAIN g THEN g[v] ELSE f[v]]

(* What a state becomes with the given versions of a directory, and        *)
(* whether each of them is executable.                                     *)
Replay(directory, state, versions) ==
  LET Upto[v \in 0 .. MaxVersion] ==
        IF v = 0 THEN [state |-> state, ok |-> TRUE]
        ELSE LET before == Upto[v - 1] IN
          IF v \notin versions THEN before
          ELSE [state |-> Executed(before.state, directory[v]),
                ok |-> before.ok /\ Executable(directory[v], before.state)]
  IN Upto[MaxVersion]

(* A baseline is true of the directory when the files it counts as applied *)
(* are the first ones, and its state is what they lead to.                 *)
Truthful(base) ==
  /\ base.applied \subseteq DOMAIN chain
  /\ \A v \in base.applied, w \in DOMAIN chain : w < v => w \in base.applied
  /\ Replay(chain, {}, base.applied) = [state |-> base.state, ok |-> TRUE]

(* run_generation, from a baseline and the state the pending plans make of *)
(* it.  The --strict-pending option only refuses more, and is left out.    *)
Accepted(base, effective, ahead) ==
  /\ ~MergeSignal(ahead)
  /\ effective.ok /\ ~DeferredConflict(effective.state, base.applied)

(* It promises that the pending files lead to the models, unless it has    *)
(* warned of a file without a plan, or the baseline is not true, which     *)
(* takes a rollback.                                                       *)
RolledBack == left.rollback < MaxRollbacks
Promise(base, effective) ==
  IF effective.planless \/ (RolledBack /\ ~Truthful(base)) THEN None ELSE models

(* The model state keeps the baseline beside the models: the files that    *)
(* were generated do not count as applied.                                 *)
Recorded(base) ==
  [target |-> models, based |-> TRUE, base |-> base.state, applied |-> base.applied]

Generate(offline, split, ahead) ==
  /\ run = Idle /\ Baseline(offline) # None
  /\ LET base == Baseline(offline)
         effective == Effective(base.state, DOMAIN chain, base.applied)
         artifacts == Artifacts(effective.state, split)
     IN /\ Accepted(base, effective, ahead)
        /\ DOMAIN artifacts \subseteq Numbers
        /\ chain' = With(chain, artifacts)
        /\ record' = IF artifacts = << >> THEN record ELSE Recorded(base)
        /\ goal' = Promise(base, effective)
  /\ UNCHANGED <<models, snapshots, database, run, left>>

(* The process dies among the writes of _write_artifacts, of which there   *)
(* are two for each file, or before that of the model state.               *)
CrashGenerate(offline, split, ahead) ==
  /\ run = Idle /\ Baseline(offline) # None /\ Spend("fault")
  /\ LET base == Baseline(offline)
         effective == Effective(base.state, DOMAIN chain, base.applied)
         artifacts == Artifacts(effective.state, split)
     IN /\ Accepted(base, effective, ahead)
        /\ DOMAIN artifacts \subseteq Numbers
        /\ \E last \in DOMAIN artifacts, planned \in BOOLEAN :
             chain' = With(chain, [v \in {w \in DOMAIN artifacts : w <= last} |->
                        [artifacts[v] EXCEPT !.planned = v < last \/ planned]])
  /\ goal' = None
  /\ UNCHANGED <<models, record, snapshots, database, run>>

(* The newest file, which is pending, is deleted together with its plan.   *)
DeleteFile(v) ==
  /\ run = Idle /\ v \in DOMAIN chain \ history /\ v = Max(DOMAIN chain)
  /\ Spend("delete")
  /\ chain' = [w \in DOMAIN chain \ {v} |-> chain[w]]
  /\ goal' = None
  /\ UNCHANGED <<models, record, snapshots, database, run>>

(***************************************************************************)
(* migrate and rollback                                                    *)
(***************************************************************************)
Unapplied == {v \in DOMAIN chain \ history : v > run.at}

(* A checksum of the statements stands for the file.                       *)
SameStatements(v, w) == chain[v].add = chain[w].add /\ chain[v].drop = chain[w].drop
Skipped(v) == \E w \in history : SameStatements(v, w)

(* Mutant: composed of all files, the pending ones included.               *)
MutantSnapshot(state, applied) ==
  LET composed == Effective(record.base, DOMAIN chain, record.applied)
  IN IF record # None /\ record.based /\ composed.ok
       THEN [state |-> composed.state, typed |-> TRUE, applied |-> applied]
       ELSE [state |-> state, typed |-> FALSE, applied |-> applied]
(* _write_migration_snapshot: the live schema, or what the plans of the    *)
(* applied files make of the base of the last generation.                  *)
Snapshot(state, applied) ==
  LET fresh == (applied \cap DOMAIN chain) \ record.applied
      composed == Effective(record.base, fresh, {})
      typed == record # None /\ record.based
  IN IF typed /\ composed.ok /\ ~composed.planless
       THEN [state |-> composed.state, typed |-> TRUE, applied |-> applied]
       ELSE [state |-> state, typed |-> FALSE, applied |-> applied]

SkipFile ==
  /\ Unapplied # {} /\ Skipped(Min(Unapplied))
  /\ run' = [run EXCEPT !.at = Min(Unapplied)]
  /\ UNCHANGED <<project, database, goal, left>>

(* The file is committed with its row; its snapshot may fail, which is     *)
(* only logged, or be deferred to the end of the run.                      *)
ApplyFile(written, deferred) ==
  /\ Unapplied # {}
  /\ LET v == Min(Unapplied) IN
       /\ ~Skipped(v) /\ Executable(chain[v], schema)
       /\ run.applied = {} \/ deferred = run.deferred
       /\ schema' = Executed(schema, chain[v])
       /\ history' = history \cup {v}
       /\ run' = [at |-> v, applied |-> run.applied \cup {v}, deferred |-> deferred]
       /\ IF written /\ ~deferred
            THEN snapshots' = With(snapshots, [w \in {v} |-> Snapshot(schema', history')])
            ELSE UNCHANGED snapshots
       /\ IF written \/ deferred THEN UNCHANGED left ELSE Spend("fault")
  /\ UNCHANGED <<models, chain, record, goal>>

(* A snapshot that was deferred is written at the end of the run.          *)
EndSnapshot ==
  IF run.deferred
    THEN snapshots' =
           With(snapshots, [v \in {Max(run.applied)} |-> Snapshot(schema, history)])
    ELSE UNCHANGED snapshots

(* The end of the run: _write_model_state exports the models as they are.  *)
FinishMigrate ==
  /\ run.applied # {}
  /\ EndSnapshot
  /\ record' = [target |-> models, based |-> FALSE, base |-> {}, applied |-> {}]
  /\ run' = Idle
  /\ UNCHANGED <<models, chain, database, goal, left>>

(* The severity of the next file is above the ceiling: the model state is  *)
(* not written.                                                            *)
StopAtCeiling ==
  /\ run.applied # {} /\ Unapplied # {}
  /\ EndSnapshot
  /\ run' = Idle
  /\ UNCHANGED <<models, chain, record, database, goal, left>>

(* A statement fails, the process dies, or nothing was applied.            *)
StopMigrate ==
  /\ run # Idle
  /\ run' = Idle
  /\ UNCHANGED <<project, database, goal, left>>

(* rollback --count 1, of a file that is there.                            *)
Rollback ==
  /\ run = Idle /\ history # {} /\ Max(history) \in DOMAIN chain /\ Spend("rollback")
  /\ LET v == Max(history) IN
       /\ schema' = (schema \ chain[v].add) \cup chain[v].drop
       /\ history' = history \ {v}
  /\ UNCHANGED <<project, run, goal>>

ChainNext ==
  \/ EditModels
  \/ \E offline, split, ahead \in BOOLEAN : Generate(offline, split, ahead)
  \/ \E offline, split, ahead \in BOOLEAN : CrashGenerate(offline, split, ahead)
  \/ \E v \in Numbers : DeleteFile(v)
  \/ SkipFile
  \/ \E written, deferred \in BOOLEAN : ApplyFile(written, deferred)
  \/ FinishMigrate
  \/ StopAtCeiling
  \/ StopMigrate
  \/ Rollback

ChainSpec == ChainInit /\ [][ChainNext]_chainVars

-----------------------------------------------------------------------------
(* A file has the statements of an earlier one, and migrate skips it.      *)
Repeated == \E v, w \in DOMAIN chain : w < v /\ SameStatements(v, w)

(* Every file has a plan, for the schema that the earlier files lead to.   *)
Chained ==
  \A v \in DOMAIN chain :
    /\ chain[v].planned
    /\ chain[v].base = Replay(chain, {}, DOMAIN chain \cap 1 .. (v - 1)).state

(* While a promise stands, the files that are pending lead from the schema *)
(* of the database to the models of the last generation, each of them      *)
(* executable, whatever was applied, rolled back, applied again, generated *)
(* in between or lost.                                                     *)
PendingReachesModels ==
  goal # None /\ ~Repeated =>
    LET migrated == Replay(chain, schema, DOMAIN chain \ history)
    IN migrated.ok /\ migrated.state = goal

(* Nobody merges here: a developer whose last generation stands, and whose *)
(* files and snapshot are intact, is told to run `dbwarden merge` only if  *)
(* migrate has since exported models that had been edited and not been     *)
(* generated from, or if the recorded baseline, which stands in for a      *)
(* snapshot of the live schema, is of files that have been rolled back and *)
(* generated anew.                                                         *)
NoMergeNoSignal ==
  (/\ run = Idle /\ goal # None /\ Chained /\ ~Repeated
   /\ Latest # None =>
        /\ Truthful(Latest)
        /\ record # None /\ record.based /\ ~Latest.typed =>
             Truthful([state |-> record.base, applied |-> record.applied])
   /\ (record # None /\ ~record.based => record.target = goal))
    => \A ahead \in BOOLEAN : ~MergeSignal(ahead)
=============================================================================
