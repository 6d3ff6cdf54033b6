--------------------------- MODULE MigrationOrder ---------------------------
(***************************************************************************)
(* Which versions a run of `dbwarden migrate` applies, and in what order:  *)
(* the dependencies declared by `-- depends_on`, the sort by version that  *)
(* follows their resolution, --count, --to-version, the severity ceiling,  *)
(* the superseded files and the preflight validation, over any number of   *)
(* runs that may stop after any file.                                      *)
(*                                                                         *)
(* resolve_migration_order and validate_dependencies are operators of the  *)
(* state, compared with what they are to compute.                          *)
(***************************************************************************)
EXTENDS Integers, FiniteSets, SequencesExt, FiniteSetsExt

CONSTANTS
  NumVersions,
  Absent,       (* A version that no file has.                             *)
  DepChoices,   (* The dependency functions to start from.                 *)
  Late,         (* Versions whose file arrives later (a pull, a merge).    *)
  Severity      (* Severity[v] of the file, a number.                      *)

Versions == 1 .. NumVersions
Levels == {Severity[v] : v \in Versions}

ASSUME OrderAssumption ==
  /\ NumVersions \in Nat /\ Absent \notin Versions
  /\ DepChoices \subseteq [Versions -> SUBSET (Versions \cup {Absent})]
  /\ Late \subseteq Versions
  /\ Severity \in [Versions -> Nat]

VARIABLES
  deps,         (* deps[v]: depends_on of v.                               *)
  present,      (* Versions with a file.                                   *)
  superseded,   (* Versions whose file is marked superseded.               *)
  applied,      (* Versions of the history table.                          *)
  batch,        (* What the run has still to apply, the least version next.*)
  running, outcome

files == <<deps, present, superseded>>
vars == <<files, applied, batch, running, outcome>>

Pending == present \ applied

(***************************************************************************)
(* resolve_migration_order                                                 *)
(***************************************************************************)
Try(resolved, v) ==
  IF v \in Pending \ ToSet(resolved) /\ deps[v] \subseteq applied \cup ToSet(resolved)
    THEN Append(resolved, v) ELSE resolved

(* One pass of `for migration in remaining[:]`, by version: what it        *)
(* resolves counts for the migrations after it in the same pass.           *)
Pass(resolved) ==
  LET upTo[v \in 0 .. NumVersions] == IF v = 0 THEN resolved ELSE Try(upTo[v - 1], v)
  IN  upTo[NumVersions]

(* Mutant: a single pass.                                                  *)
MutantResolved == Pass(<<>>)

After[i \in Nat] == IF i = 0 THEN <<>> ELSE Pass(After[i - 1])

(* At most 2 * len(pending) passes; a pass over no remaining file changes  *)
(* nothing.                                                                *)
Resolved == After[2 * Cardinality(Pending)]

Resolves == ToSet(Resolved) = Pending

(***************************************************************************)
(* validate_dependencies                                                   *)
(***************************************************************************)
(* The walk of _detect_cycle(start, visited, stack) and of the loop over   *)
(* `pending` that starts it: depth first, `path` holds the calls that have *)
(* not returned.                                                           *)

(* Mutant: a call does not pass its stack on.                              *)
MutantStack(w) == {Last(w.path)}

Stack(w) == ToSet(w.path)

Enter(w, v) == [w EXCEPT !.visited = @ \cup {v}, !.path = Append(@, v)]

(* One call or return.  The dependencies that have been visited and are    *)
(* not on the stack are passed over.                                       *)
Visit(w) ==
  IF w.cycle THEN w
  ELSE IF w.path = <<>>
    THEN IF Pending \subseteq w.visited THEN w ELSE Enter(w, Min(Pending \ w.visited))
  ELSE
    LET open == (deps[Last(w.path)] \cap Pending) \ (w.visited \ Stack(w))
    IN  IF open = {} THEN [w EXCEPT !.path = Front(@)]
        ELSE IF Min(open) \in w.visited THEN [w EXCEPT !.cycle = TRUE]
        ELSE Enter(w, Min(open))

Walk[i \in Nat] ==
  IF i = 0 THEN [visited |-> {}, path |-> <<>>, cycle |-> FALSE] ELSE Visit(Walk[i - 1])

(* A call and a return for each version that is pending.                   *)
Circular == Walk[2 * Cardinality(Pending)].cycle

MissingTarget == \E v \in present : ~(deps[v] \subseteq present)
UnmetApplied == \E v \in present \cap applied : ~(deps[v] \subseteq applied)

(* run_preflight aborts on these; a superseded target is a warning.        *)
PreflightAborts == MissingTarget \/ UnmetApplied \/ Circular

(***************************************************************************)
(* _get_filepaths_by_version, severity_prefix and the run.                 *)
(***************************************************************************)
(* The resolved files, superseded ones left out, sorted by version again:  *)
(* from here on the versions are the order.                                *)
Candidates == ToSet(Resolved) \ superseded

Options == [count : 0 .. NumVersions, to : Versions, ceiling : Levels]

(* Mutant: files above the ceiling are filtered out.                       *)
MutantSeverityPrefix(S, ceiling) == {v \in S : Severity[v] <= ceiling}

(* severity_prefix: up to the first file above the ceiling.                *)
SeverityPrefix(S, ceiling) ==
  {v \in S : \A w \in S : w <= v => Severity[w] <= ceiling}

(* --to-version, then --count, then the ceiling.                           *)
Limited(S, o) ==
  LET upTo == {v \in S : v <= o.to}
      first == {v \in upTo : Cardinality({w \in upTo : w < v}) < o.count}
  IN  SeverityPrefix(first, o.ceiling)

Init ==
  /\ deps \in DepChoices
  /\ present = Versions \ Late
  /\ superseded = {} /\ applied = {}
  /\ batch = {} /\ running = FALSE /\ outcome = "none"

AddFile(v) ==
  /\ ~running /\ v \in Late \ present
  /\ present' = present \cup {v}
  /\ UNCHANGED <<deps, superseded, applied, batch, running, outcome>>

(* `dbwarden merge` marks the files of one branch; the merged version, a   *)
(* new file, has their statements.                                         *)
Supersede(v) ==
  /\ ~running /\ v \in present \ (superseded \cup applied)
  /\ \E w \in Late \ present : w > v /\ present' = present \cup {w}
  /\ superseded' = superseded \cup {v}
  /\ UNCHANGED <<deps, applied, batch, running, outcome>>

(* migrate_single up to the preflight checks: the run starts with a batch  *)
(* that the options leave, or is aborted.                                  *)
Select(options) ==
  /\ ~running
  /\ LET candidates == Candidates
         aborts == PreflightAborts
     IN  \E o \in options :
           LET chosen == Limited(candidates, o)
           IN  IF ~Resolves \/ (chosen # {} /\ aborts)
                 THEN outcome' = "aborted" /\ UNCHANGED <<batch, running>>
                 ELSE batch' = chosen /\ running' = TRUE /\ outcome' = "none"
  /\ UNCHANGED <<files, applied>>

ApplyNext ==
  /\ running /\ batch # {}
  /\ applied' = applied \cup {Min(batch)}
  /\ batch' = batch \ {Min(batch)}
  /\ UNCHANGED <<files, running, outcome>>

(* The run is over, or stops at a failure, an abort or a crash.            *)
EndRun ==
  /\ running
  /\ outcome' = IF batch = {} THEN "ok" ELSE "failed"
  /\ batch' = {} /\ running' = FALSE
  /\ UNCHANGED <<files, applied>>

Next ==
  \/ Select(Options) \/ ApplyNext \/ EndRun
  \/ \E v \in Versions : AddFile(v) \/ Supersede(v)

Spec == Init /\ [][Next]_vars

-----------------------------------------------------------------------------
(***************************************************************************)
(* Properties.                                                             *)
(***************************************************************************)

(* resolve_migration_order finds an order exactly if there is one: no set  *)
(* of pending files in which each needs another of the set, or a version   *)
(* that is neither applied nor pending; and in the order it returns every  *)
(* dependency comes first.                                                 *)
ResolvesIfPossible ==
  /\ Resolves <=>
       \A S \in (SUBSET Pending) \ {{}} : \E v \in S : deps[v] \subseteq applied \cup (Pending \ S)
  /\ \A i \in DOMAIN Resolved :
       deps[Resolved[i]] \subseteq applied \cup {Resolved[j] : j \in 1 .. (i - 1)}

(* validate_dependencies reports a circle exactly if the pending files     *)
(* have one; and what it lets through can be resolved.                     *)
ValidationAgrees ==
  /\ Circular <=> \E S \in (SUBSET Pending) \ {{}} : \A v \in S : deps[v] \cap S # {}
  /\ ~(MissingTarget \/ Circular) => Resolves

(* Dependencies point to earlier versions, none of them superseded.        *)
Numbered ==
  \A v \in present : \A d \in deps[v] : d < v /\ d \notin superseded

(* Although the order of the dependencies is sorted away, a version is     *)
(* never applied before those it depends on, whatever the options, the     *)
(* failures and the files that arrive late, as long as the numbering       *)
(* agrees with the dependencies.                                           *)
DependenciesApplied ==
  Numbered => \A v \in applied : deps[v] \subseteq applied

(* ... and no sequence of partial runs leaves a history that the next      *)
(* run refuses: the resolution succeeds and the preflight lets it through. *)
(* (Otherwise UnmetApplied may hold for ever: README, observations.)       *)
NeverBlocked == Numbered /\ ~MissingTarget => Resolves /\ ~PreflightAborts
=============================================================================
