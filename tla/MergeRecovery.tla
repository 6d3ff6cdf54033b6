---------------------------- MODULE MergeRecovery ----------------------------
(***************************************************************************)
(* What becomes of an environment when two branches are merged: `dbwarden  *)
(* merge` generates a migration in the place of those of both branches and *)
(* marks them as superseded, one file after another; an environment that   *)
(* has applied any of them is dirty, `migrate` refuses it, and `reconcile` *)
(* (persistent; dirty or not) or `rebase` (disposable) bring it back.  One *)
(* command runs at a time.                                                 *)
(*                                                                         *)
(* A schema is a set of elements, a migration what it adds and drops, and  *)
(* the generated one the difference of two schemas.  The engine is one     *)
(* whose files are transactions (PostgreSQL): MigrationRun has the others. *)
(* Version 1 is the merge base, 2 and 3 are of two branches, or of the     *)
(* same, 4 is the merge's, 5 is generated after it.                        *)
(***************************************************************************)
EXTENDS Integers, Sequences, FiniteSetsExt

CONSTANTS
  Base,         (* The schema at the merge base.                           *)
  Branches,     (* The schemas the models of a branch may declare.         *)
  Models,       (* ... and those of the merged branches.                   *)
  Irreversible, (* Changes whose files have no rollback statements.        *)
  MaxPlans,     (* Bound: reconciliation files.                            *)
  MaxEarly,     (* Bound: those of an environment that is not dirty.       *)
  MaxKills      (* Bound: commands that are killed.                        *)

AllVersions == 1 .. 5
Branch == {2, 3}
Merged == 4
Newer == 5

ASSUME SchemaAssumption == Base # {}
ASSUME PlansAssumption == {MaxPlans, MaxEarly, MaxKills} \subseteq Nat

VARIABLES
  content,      (* content[v]: [add, drop] of the file of version v.       *)
  stacked,      (* Version 3 was generated on top of version 2.            *)
  marked,       (* Versions marked by the merge.                           *)
  target,       (* model_state.json of the tree of the merge.              *)
  torn,         (* The merge was killed between two of its files.          *)
  mergeHead,    (* HEAD is a merge commit.                                 *)
  probe,        (* probe_results of the merge record for the environment.  *)
  persistent,   (* The environment is registered as persistent.            *)
  pulled,       (* It has the tree of the merge.                           *)
  actual,       (* Its schema.                                             *)
  rows,         (* Its history rows that have a version.                   *)
  recorded,     (* Reconciliation files with a history row.                *)
  plans,        (* The files in .dbwarden/reconciliations/<environment>.   *)
  pc, queue,    (* The command that runs, and the files it has still to do. *)
  wanted,       (* The target that the merge or the reconcile has read.    *)
  aim,          (* Of the history: the versions the reconcile's stands for. *)
  drift,        (* Of the history: whether a reconcile may have left the   *)
                (* schema apart from the rows, not at all ("none"), by     *)
                (* version 5 ("newer") or by "any".                        *)
  kills

tree == <<content, stacked, marked, target, torn, mergeHead>>
repository == <<tree, probe, persistent, pulled>>
environment == <<actual, rows, recorded>>
mergeVars == <<repository, environment, plans, pc, queue, wanted, aim, drift, kills>>

Nothing == [add |-> {}, drop |-> {}]
(* diff_states and the statements generated from it.                       *)
Diff(from, to) == [add |-> to \ from, drop |-> from \ to]
Undo(c) == [add |-> c.drop, drop |-> c.add]

Applicable(c) == c.drop \subseteq actual /\ c.add \cap actual = {}
Changed(s, c) == (s \ c.drop) \cup c.add

(* The schema that the files of S leave, applied in their order.           *)
Net(S) ==
  LET upTo[v \in 0 .. 5] ==
        IF v = 0 THEN {} ELSE IF v \in S THEN Changed(upTo[v - 1], content[v]) ELSE upTo[v - 1]
  IN  upTo[5]

Existing == {v \in AllVersions : content[v] # Nothing}
(* What the command that runs has to apply: the files of the directory of  *)
(* reconciliations, or versions.                                           *)
Content(i) == IF pc = "reconcile" THEN plans[i] ELSE content[i]

(* check_dirty_environment, in the tree of the merge.                      *)
Dirty == pulled /\ rows \cap marked # {} /\ probe # "reconciled"

(* The versions that model_state.json may stand for where the files of the *)
(* branches are those of t: two branches that Git has merged bring one     *)
(* model_state.json each, and somebody has chosen.                         *)
Readings(t) ==
  IF ~stacked /\ t = Branch THEN {{1, 2}, {1, 3}} ELSE {{1} \cup t}

MergeInit ==
  /\ stacked \in BOOLEAN
  /\ \E a, b \in Branches :
       content = [v \in AllVersions |-> CASE v = 1 -> Diff({}, Base)
                                       [] v = 2 -> Diff(Base, a)
                                       [] v = 3 -> Diff(IF stacked THEN a ELSE Base, b)
                                       [] OTHER -> Nothing]
  /\ target \in {Net(of) : of \in Readings(Branch \cap Existing)}
  /\ marked = {} /\ torn = FALSE /\ mergeHead = TRUE /\ probe = "none"
  /\ persistent \in BOOLEAN /\ pulled = FALSE
  /\ actual = {} /\ rows = {} /\ recorded = {} /\ plans = << >>
  /\ pc = "idle" /\ queue = {} /\ wanted = {} /\ aim = {} /\ drift = "none"
  /\ kills = 0

(***************************************************************************)
(* The repository.                                                         *)
(***************************************************************************)

(* merge_cmd, in a clean tree whose HEAD is the merge of the branches: the *)
(* file with the difference of the merge base and the models ...           *)
StartMerge ==
  /\ pc = "idle" /\ ~pulled /\ ~torn /\ probe = "none"
  /\ wanted' \in Models
  /\ content' = [content EXCEPT ![Merged] = Diff(Base, wanted')]
  /\ pc' = "merge" /\ queue' = Branch \cap Existing
  /\ UNCHANGED <<stacked, marked, target, torn, mergeHead, probe, persistent, pulled,
                 environment, plans, aim, drift, kills>>

(* ... then the marks, one file after another ...                          *)
MarkFirst ==
  /\ pc = "merge" /\ queue # {}
  /\ marked' = marked \cup {Min(queue)} /\ queue' = queue \ {Min(queue)}
  /\ UNCHANGED <<content, stacked, target, torn, mergeHead, probe, persistent, pulled,
                 environment, plans, pc, wanted, aim, drift, kills>>

(* ... the record, with what the persistent environments were found to be  *)
(* (they are not looked at again) ...                                      *)
RecordMerge ==
  /\ pc = "merge" /\ queue = {}
  /\ probe' = IF persistent /\ rows \cap marked # {} THEN "dirty" ELSE "clean"
  /\ pc' = "state"
  /\ UNCHANGED <<tree, persistent, pulled, environment, plans, queue, wanted, aim, drift,
                 kills>>

(* ... and model_state.json.                                               *)
WriteState ==
  /\ pc = "state"
  /\ target' = wanted
  /\ pc' = "idle" /\ wanted' = {}
  /\ UNCHANGED <<content, stacked, marked, torn, mergeHead, probe, persistent, pulled,
                 environment, plans, queue, aim, drift, kills>>

(* What a killed merge has left is taken back with Git.                    *)
Discard ==
  /\ pc = "idle" /\ torn /\ ~pulled
  /\ content' = [content EXCEPT ![Merged] = Nothing]
  /\ marked' = {} /\ torn' = FALSE /\ probe' = "none"
  /\ UNCHANGED <<stacked, target, mergeHead, persistent, pulled, environment, plans, pc,
                 queue, wanted, aim, drift, kills>>

(* make-migrations in the merged tree; it is committed on top of the merge *)
(* or with it.                                                             *)
GenerateNewer ==
  /\ pc = "idle" /\ ~torn /\ probe # "none" /\ Newer \notin Existing
  /\ target' \in Models \ {target}
  /\ content' = [content EXCEPT ![Newer] = Diff(target, target')]
  /\ mergeHead' \in {mergeHead, FALSE}
  /\ UNCHANGED <<stacked, marked, torn, probe, persistent, pulled, environment, plans, pc,
                 queue, wanted, aim, drift, kills>>

(* The environment gets what the merge has written, all of it or not, in a *)
(* commit of its own (as with --commit) or uncommitted.                    *)
Pull ==
  /\ pc = "idle" /\ ~pulled /\ (torn \/ probe # "none")
  /\ pulled' = TRUE /\ mergeHead' \in {mergeHead, FALSE}
  /\ UNCHANGED <<content, stacked, marked, target, torn, probe, persistent, environment,
                 plans, pc, queue, wanted, aim, drift, kills>>

(***************************************************************************)
(* migrate                                                                 *)
(***************************************************************************)
Begin(command, files) ==
  /\ pc' = command /\ queue' = files
  /\ UNCHANGED <<repository, kills>>

(* From a tree that has some of the branches, before the merge is pulled.  *)
Trees == {t \in SUBSET (Branch \cap Existing) : stacked /\ 3 \in t => t = Branch \cap Existing}

MigrateBranch ==
  /\ pc = "idle" /\ ~pulled
  /\ \E t \in Trees :
       Begin("migrate", ({1} \cup t) \ rows)
  /\ UNCHANGED <<environment, plans, wanted, aim, drift>>

Runnable == Existing \ (marked \cup rows)

(* From the merged tree; a dirty environment is refused.                   *)
MigrateMerged ==
  /\ pc = "idle" /\ pulled /\ ~Dirty
  /\ Begin("migrate", Runnable)
  /\ UNCHANGED <<environment, plans, wanted, aim, drift>>

(* The checksums of all rows.                                              *)
Applied == {content[v] : v \in rows} \cup {plans[i] : i \in recorded}

(* Mutant: the rows of reconciliation files, which have no version, are    *)
(* not read.                                                               *)
MutantAlreadyApplied(i) == Content(i) \in {content[v] : v \in rows}

(* A file whose statements some row stands for is not executed.            *)
AlreadyApplied(i) == Content(i) \in Applied

(* Every command takes its files in the order of their numbers.            *)
Earliest == Min(queue)
Applying == pc \in {"migrate", "reconcile", "rebase"} /\ queue # {}

SkipFirst ==
  /\ Applying /\ AlreadyApplied(Earliest)
  /\ queue' = queue \ {Earliest}
  /\ UNCHANGED <<repository, environment, plans, pc, wanted, aim, drift, kills>>

(* run_migration: the statements and the row in one transaction.  The row  *)
(* of a reconciliation file has a filename and no version.                 *)
ApplyFirst ==
  /\ Applying /\ ~AlreadyApplied(Earliest) /\ Applicable(Content(Earliest))
  /\ actual' = Changed(actual, Content(Earliest))
  /\ IF pc = "reconcile" THEN recorded' = recorded \cup {Earliest} /\ UNCHANGED rows
                         ELSE rows' = rows \cup {Earliest} /\ UNCHANGED recorded
  /\ queue' = queue \ {Earliest}
  /\ UNCHANGED <<repository, plans, pc, wanted, aim, drift, kills>>

Stop ==
  /\ pc' = "idle" /\ queue' = {} /\ wanted' = {} /\ aim' = {}
  /\ UNCHANGED <<environment, plans, drift>>

FailFirst ==
  /\ Applying /\ ~AlreadyApplied(Earliest) /\ ~Applicable(Content(Earliest))
  /\ Stop /\ UNCHANGED <<repository, kills>>

(* A rebase ends with a comparison that changes nothing.                   *)
FinishRun ==
  /\ pc \in {"migrate", "rebase"} /\ queue = {}
  /\ Stop /\ UNCHANGED <<repository, kills>>

(***************************************************************************)
(* reconcile                                                               *)
(***************************************************************************)

InForce(r) == IF pulled THEN r \ marked ELSE r

(* The trees the command may be run from, each as the versions that its    *)
(* model_state.json stands for.                                            *)
Aims ==
  IF ~pulled THEN UNION {Readings(t) : t \in Trees}
  ELSE IF torn THEN {of \in Readings(Branch \cap Existing) : Net(of) = target}
  ELSE {Existing \ marked}

(* Snapshot, difference, generated file; then every file of the directory  *)
(* without a row is to be applied, in order.  The environment need not be  *)
(* dirty, nor the branches merged.                                         *)
StartReconcile ==
  /\ pc = "idle" /\ persistent /\ Len(plans) < (IF Dirty THEN MaxPlans ELSE MaxEarly)
  /\ aim' \in Aims
  /\ wanted' = IF pulled THEN target ELSE Net(aim')
  /\ LET d == Diff(actual, wanted')
     IN  plans' = IF d = Nothing THEN plans ELSE Append(plans, d)
  /\ Begin("reconcile", DOMAIN plans' \ recorded)
  /\ drift' = IF Dirty THEN drift ELSE "any"
  /\ UNCHANGED environment

(* Mutant: the run is over, so the environment is what it should be.       *)
MutantConverged == TRUE

Converged == actual = wanted

(* complete: an environment that is not what it should be stays dirty ...  *)
FailToConverge ==
  /\ pc = "reconcile" /\ queue = {} /\ ~Converged
  /\ Stop /\ UNCHANGED <<repository, kills>>

(* ... otherwise, if there is a record of the merge, its versions are      *)
(* recorded and committed ...                                              *)
RecordVersions ==
  /\ pc = "reconcile" /\ queue = {} /\ Converged
  /\ LET known == pulled /\ probe # "none"
     IN  /\ rows' = IF known THEN rows \cup ({Merged} \cap Existing) ELSE rows
         /\ pc' = IF known THEN "mark" ELSE "done"
  /\ drift' = IF aim = InForce(rows') THEN "none"
              ELSE IF aim = InForce(rows') \cup {Newer} THEN "newer" ELSE "any"
  /\ UNCHANGED <<repository, actual, recorded, plans, queue, wanted, aim, kills>>

(* ... and then the merge record is written.                               *)
MarkReconciled ==
  /\ pc = "mark"
  /\ probe' = "reconciled" /\ pc' = "done"
  /\ UNCHANGED <<tree, persistent, pulled, environment, plans, queue, wanted, aim, drift,
                 kills>>

FinishReconcile ==
  /\ pc = "done"
  /\ Stop /\ UNCHANGED <<repository, kills>>

(***************************************************************************)
(* rebase                                                                  *)
(***************************************************************************)

(* _check_irreversible_superseded                                          *)
Reversible == \A v \in rows \cap marked : content[v] \notin Irreversible

(* The merge base is that of the parents of HEAD.                          *)
Rebasing == pc = "idle" /\ ~persistent /\ Dirty /\ mergeHead

(* rollback --to-version of the merge base, superseded files included; in  *)
(* the order of get_latest_versions, the oldest first ...                  *)
StartRebase ==
  /\ Rebasing /\ Reversible /\ probe # "none"
  /\ Begin("revert", rows \ {1})
  /\ UNCHANGED <<environment, plans, wanted, aim, drift>>

DropEverything ==
  /\ actual' = {} /\ rows' = {} /\ recorded' = {} /\ drift' = "none"
  /\ Begin("rebase", Existing \ marked)
  /\ UNCHANGED <<plans, wanted, aim>>

(* ... or, if one of them cannot be rolled back, or no record of the merge *)
(* has the version of its base, every table is dropped, the history with   *)
(* them.                                                                   *)
Reset == Rebasing /\ ~(Reversible /\ probe # "none") /\ DropEverything

RevertFirst ==
  /\ pc = "revert" /\ queue # {} /\ Applicable(Undo(content[Earliest]))
  /\ actual' = Changed(actual, Undo(content[Earliest])) /\ rows' = rows \ {Earliest}
  /\ queue' = queue \ {Earliest}
  /\ UNCHANGED <<repository, recorded, plans, pc, wanted, aim, drift, kills>>

(* A rollback that fails ends in the reset as well.                        *)
ResetAfterFailure ==
  /\ pc = "revert" /\ queue # {} /\ ~Applicable(Undo(content[Earliest]))
  /\ DropEverything

Reapply ==
  /\ pc = "revert" /\ queue = {}
  /\ Begin("rebase", Runnable)
  /\ UNCHANGED <<environment, plans, wanted, aim, drift>>

(* The command is killed; a transaction it has open is rolled back, and    *)
(* the files that a merge has written stay.                                *)
Crash ==
  /\ pc # "idle" /\ kills < MaxKills
  /\ kills' = kills + 1
  /\ torn' = (torn \/ pc \in {"merge", "state"})
  /\ Stop
  /\ UNCHANGED <<content, stacked, marked, target, mergeHead, probe, persistent, pulled>>

Recover == StartReconcile \/ StartRebase \/ Reset
Step ==
  \/ MarkFirst \/ RecordMerge \/ WriteState
  \/ SkipFirst \/ ApplyFirst \/ FailFirst \/ FinishRun
  \/ FailToConverge \/ RecordVersions \/ MarkReconciled \/ FinishReconcile
  \/ RevertFirst \/ ResetAfterFailure \/ Reapply

MergeNext ==
  \/ StartMerge \/ Discard \/ GenerateNewer \/ Pull \/ MigrateBranch \/ MigrateMerged
  \/ Recover \/ Step \/ Crash

MergeSpec == MergeInit /\ [][MergeNext]_mergeVars

(* A command that was started goes on, and somebody repairs what `migrate` *)
(* refuses, as often as it takes.                                          *)
FairMergeSpec ==
  MergeSpec /\ WF_mergeVars(Step) /\ WF_mergeVars(Dirty /\ Recover)

-----------------------------------------------------------------------------
(***************************************************************************)
(* Properties.                                                             *)
(***************************************************************************)

(* The versions whose effects the environment is to have.                  *)
Live == IF probe = "reconciled" THEN rows \ marked ELSE rows

(* Whatever was killed in between, a merge included, an environment that   *)
(* `migrate` takes has the schema its history stands for.  The exceptions  *)
(* are `drift`: a version generated before the reconciliation is in the    *)
(* schema and not in the history, and a reconciliation of an environment   *)
(* that `migrate` never refused is not waited for by anybody (README).     *)
SchemaMatchesHistory ==
  pc = "idle" /\ ~Dirty /\ drift # "any" =>
    \/ actual = Net(Live)
    \/ drift = "newer" /\ actual = Net(Live \cup {Newer})

(* The statements the environment needs were applied before, and undone    *)
(* since: a file that has them is skipped.                                 *)
Shadowed == actual # target /\ Diff(actual, target) \in Applied

(* A file of a reconcile that did not end comes first, and cannot be       *)
(* applied.                                                                *)
Obsolete ==
  \E i \in DOMAIN plans \ recorded : plans[i] \notin Applied /\ ~Applicable(plans[i])

(* A merge that was killed, and pulled as it was, has no record or another *)
(* model state than its file; `rebase` needs the merge commit.             *)
Stuck == Shadowed \/ Obsolete \/ torn \/ (~persistent /\ ~mergeHead)

(* A dirty environment is repaired in the end, also when a command dies    *)
(* and leaves files behind, of a reconcile before the merge or of one of   *)
(* the dirty environment: those that were generated twice are applied      *)
(* once, those of another target are corrected by the next reconcile.      *)
DirtyIsResolved == []~(Dirty /\ Stuck) => (Dirty ~> ~Dirty)
=============================================================================
