--------------------------- MODULE ClickHouseLease ---------------------------
(***************************************************************************)
(* `dbwarden migrate` on ClickHouse: the lease in dbwarden_lock, the       *)
(* heartbeat that renews it, the fencing token, and what the run checks of *)
(* them.                                                                   *)
(*                                                                         *)
(* dbwarden_lock is a ReplacingMergeTree(fencing_token): every acquisition *)
(* inserts a row, reads with FINAL see the row of the highest token (the   *)
(* last inserted of equal ones), and a merge drops the others at some time.*)
(* expires_at is kept as the time left: Tick lets it run down, so no clock *)
(* has to be bounded.  One unit is the heartbeat interval.  Mutations      *)
(* (ALTER ... UPDATE) are taken to apply when they are executed.           *)
(***************************************************************************)
EXTENDS Integers, Sequences

CONSTANTS
  Procs,          (* The invocations.                                      *)
  None,           (* No process.                                           *)
  LeaseTtl,       (* ttl_seconds of ClickHouseStrategy (120 s).            *)
  BeatTtl,        (* ttl_seconds of HeartbeatTask (45 s).                  *)
  NumFiles,       (* Pending versioned files of every run.                 *)
  MaxPauses,      (* Bound: processes suspended.                           *)
  MaxLost,        (* Bound: heartbeats that fail.                          *)
  MaxCrashes      (* Bound: processes killed.                              *)

ASSUME NoneAssumption == None \notin Procs
ASSUME TtlAssumption == /\ LeaseTtl \in Nat \ {0} /\ BeatTtl \in Nat \ {0}
                        /\ 1 < BeatTtl /\ BeatTtl < LeaseTtl
ASSUME BoundsAssumption ==
  /\ NumFiles \in Nat /\ MaxPauses \in Nat /\ MaxLost \in Nat /\ MaxCrashes \in Nat

VARIABLES
  rows,       (* dbwarden_lock: [owner, token, left], left = 0: not held.  *)
  pc,         (* pc[p]: where the migration thread is.                     *)
  token,      (* token[p]: its fencing token.                              *)
  files,      (* files[p]: files still to apply.                           *)
  beaten,     (* Processes whose heartbeat ran in this time unit.          *)
  fatal,      (* Processes whose heartbeat is_fatal.                       *)
  health,     (* health[p]: awake, paused, or resumed after a pause.       *)
  met,        (* met[p]: processes that were migrating during its file.    *)
  warned,     (* Processes that printed POSSIBLE_CONCURRENT_EXECUTION.     *)
  faults      (* Pauses, lost heartbeats and crashes so far.               *)

(* Of the history, for the properties only.                                *)
VARIABLES
  raced,      (* Processes that had looked for a lease, and not inserted   *)
              (* theirs, when another's was inserted.                      *)
  lapsed      (* A lease ran out before its holder gave it up.             *)

lease == <<rows, token>>
beat == <<beaten, fatal>>
watch == <<met, warned>>
slips == <<raced, lapsed>>
vars == <<lease, pc, files, beat, health, watch, faults, slips>>

Running(p) == pc[p] \in {"between", "file", "check", "release"}
Migrating(p) == pc[p] \in {"file", "check"}
(* The heartbeat thread lives from the acquisition to the finally block.   *)
Beating(p) == pc[p] \in {"between", "file", "check"}
Awake(p) == health[p] # "paused"

Goto(p, l) == pc' = [pc EXCEPT ![p] = l]

(* The last row of the highest token: SELECT ... FINAL.                    *)
IsCurrent(i) ==
  \A j \in DOMAIN rows : \/ rows[j].token < rows[i].token
                         \/ rows[j].token = rows[i].token /\ j <= i
Current == IF rows = <<>> THEN [owner |-> None, token |-> 0, left |-> 0]
           ELSE rows[CHOOSE i \in DOMAIN rows : IsCurrent(i)]

(* A run that has the lease, or is about to find that it has.              *)
Holding(p) == Running(p) \/ (pc[p] = "verify" /\ Current.owner = p)

(* Mutant: any row blocks, expired or not.                                 *)
MutantFree == rows = <<>>

(* Mutant: the condition of the INSERT is missing.                         *)
MutantAlwaysFree == TRUE

(* WHERE NOT EXISTS (... expires_at > now()), over every row.              *)
Free == \A i \in DOMAIN rows : rows[i].left = 0

(* Mutant: the token of the row being replaced is used again.              *)
MutantNextToken == IF Current.token = 0 THEN 1 ELSE Current.token

(* ifNull(max(fencing_token), 0) + 1                                       *)
NextToken == Current.token + 1

Init ==
  /\ rows = <<>>
  /\ pc = [p \in Procs |-> "new"]
  /\ token = [p \in Procs |-> 0]
  /\ files = [p \in Procs |-> NumFiles]
  /\ beaten = {} /\ fatal = {}
  /\ health = [p \in Procs |-> "awake"]
  /\ met = [p \in Procs |-> {}] /\ warned = {}
  /\ faults = [pauses |-> 0, lost |-> 0, crashes |-> 0]
  /\ raced = {} /\ lapsed = FALSE

(***************************************************************************)
(* acquire                                                                 *)
(***************************************************************************)

Lease(p, t, l) == [owner |-> p, token |-> t, left |-> l]

(* INSERT ... SELECT ... WHERE NOT EXISTS, as ClickHouse executes it: the  *)
(* subqueries first ...                                                    *)
SelectLease(p) ==
  /\ pc[p] = "new"
  /\ token' = [token EXCEPT ![p] = NextToken]
  /\ Goto(p, IF Free THEN "insert" ELSE "verify")
  /\ UNCHANGED <<rows, files, beat, health, watch, faults, slips>>

(* (now() is read by a statement of its own, before: a process that was    *)
(* suspended in between asks for a lease that has less time left.)         *)
TimeLeft(p) == IF health[p] = "resumed" THEN 0 .. LeaseTtl ELSE {LeaseTtl}

(* ... and the insertion of what they returned after, by the server,       *)
(* whether its client is suspended or not.                                 *)
InsertSelected(p) ==
  /\ pc[p] = "insert"
  /\ \E l \in TimeLeft(p) : /\ rows' = Append(rows, Lease(p, token[p], l))
                            /\ lapsed' = (lapsed \/ l = 0)
  /\ Goto(p, "verify")
  /\ raced' = raced \cup {q \in Procs \ {p} : pc[q] = "insert"}
  /\ UNCHANGED <<token, files, beat, health, watch, faults>>

(* Read back by execution_id.  The caller of a refused run starts another. *)
VerifyLease(p) ==
  /\ pc[p] = "verify"
  /\ IF Current.owner = p
       THEN /\ token' = [token EXCEPT ![p] = Current.token] /\ Goto(p, "between")
            /\ UNCHANGED health
       ELSE /\ health' = [health EXCEPT ![p] = "awake"] /\ Goto(p, "new")
            /\ UNCHANGED token
  /\ UNCHANGED <<rows, files, beat, watch, faults, slips>>

(***************************************************************************)
(* The heartbeat thread.                                                   *)
(***************************************************************************)

(* Mutant: the heartbeat does not look at whose row it renews.             *)
MutantRenewed(p, r) == [r EXCEPT !.left = BeatTtl]

(* Mutant: the heartbeat is recorded and the lease is not extended.        *)
MutantNotRenewed(p, r) == r

(* ALTER ... UPDATE expires_at WHERE execution_id, owner and token match.  *)
Renewed(p, r) ==
  IF r.owner = p /\ r.token = token[p] THEN [r EXCEPT !.left = BeatTtl] ELSE r

Beat(p) ==
  /\ Beating(p) /\ p \notin beaten
  /\ rows' = [i \in DOMAIN rows |-> Renewed(p, rows[i])]
  /\ beaten' = beaten \cup {p}
  /\ UNCHANGED <<token, pc, files, fatal, health, watch, faults, slips>>

(* fatal_grace is 1: one failure is fatal, and the thread goes on.         *)
LoseBeat(p) ==
  /\ Beating(p) /\ p \notin beaten /\ faults.lost < MaxLost
  /\ beaten' = beaten \cup {p} /\ fatal' = fatal \cup {p}
  /\ faults' = [faults EXCEPT !.lost = @ + 1]
  /\ UNCHANGED <<lease, pc, files, health, watch, slips>>

(***************************************************************************)
(* The migrations.                                                         *)
(***************************************************************************)

(* Everyone whose run is in the middle of a file meets the newcomer.       *)
StartFile(p) ==
  LET others == {q \in Procs \ {p} : Migrating(q)} IN
  /\ pc[p] = "between" /\ files[p] > 0 /\ p \notin fatal
  /\ Goto(p, "file")
  /\ met' = [q \in Procs |-> IF q = p THEN others
                             ELSE IF q \in others THEN met[q] \cup {p} ELSE met[q]]
  /\ UNCHANGED <<lease, files, beat, health, warned, faults, slips>>

(* `if heartbeat is not None and heartbeat.is_fatal: raise LockError`      *)
AbortFatal(p) ==
  /\ pc[p] = "between" /\ files[p] > 0 /\ p \in fatal
  /\ Goto(p, "release")
  /\ UNCHANGED <<lease, files, beat, health, watch, faults, slips>>

(* run_migration executes the statements of the file; nothing on this path *)
(* looks at the lease.                                                     *)
Execute(p) ==
  /\ pc[p] = "file"
  /\ Goto(p, "check")
  /\ UNCHANGED <<lease, files, beat, health, watch, faults, slips>>

FailFile(p) ==
  /\ pc[p] = "file"
  /\ Goto(p, "release")
  /\ UNCHANGED <<lease, files, beat, health, watch, faults, slips>>

(* Mutant: the comparison after the file is the wrong way round.           *)
MutantAdvanced(p) == Current.token < token[p]

(* current_token > fencing_token                                           *)
Advanced(p) == Current.token > token[p]

(* After every file the lease is read again.                               *)
CheckToken(p) ==
  /\ pc[p] = "check"
  /\ warned' = IF Advanced(p) THEN warned \cup {p} ELSE warned
  /\ files' = [files EXCEPT ![p] = @ - 1]
  /\ Goto(p, "between")
  /\ UNCHANGED <<lease, beat, health, met, faults, slips>>

FinishRun(p) ==
  /\ pc[p] = "between" /\ files[p] = 0
  /\ Goto(p, "release")
  /\ UNCHANGED <<lease, files, beat, health, watch, faults, slips>>

(* ALTER ... UPDATE state = 'COMPLETE', expires_at = NULL, of every row of *)
(* the namespace.                                                          *)
Release(p) ==
  /\ pc[p] = "release"
  /\ rows' = [i \in DOMAIN rows |-> [rows[i] EXCEPT !.left = 0]]
  /\ Goto(p, "gone")
  /\ UNCHANGED <<token, files, beat, health, watch, faults, slips>>

(***************************************************************************)
(* The environment.                                                        *)
(***************************************************************************)

(* A unit of time passes.  In it the heartbeat thread of a process that is *)
(* not suspended runs once, and a process that has a lease gets through    *)
(* the steps that execute no migration.                                    *)
Brief(p) == \/ pc[p] \in {"insert", "release"}
            \/ pc[p] = "verify" /\ Current.owner = p

Tick ==
  /\ \A p \in Procs : Awake(p) => /\ Beating(p) => p \in beaten
                                  /\ ~Brief(p)
  /\ rows' = [i \in DOMAIN rows |->
                [rows[i] EXCEPT !.left = IF @ = 0 THEN 0 ELSE @ - 1]]
  /\ beaten' = {}
  /\ lapsed' = (lapsed \/ \E p \in Procs : Holding(p) /\ Current.owner = p /\ Current.left <= 1)
  /\ UNCHANGED <<token, pc, files, fatal, health, watch, faults, raced>>

(* ReplacingMergeTree drops the superseded rows.                           *)
Merge ==
  /\ Len(rows) > 1 /\ rows' = <<Current>>
  /\ UNCHANGED <<token, pc, files, beat, health, watch, faults, slips>>

(* SIGSTOP, a suspended container or host.                                 *)
Pause(p) ==
  /\ pc[p] # "gone" /\ Awake(p) /\ faults.pauses < MaxPauses
  /\ health' = [health EXCEPT ![p] = "paused"]
  /\ faults' = [faults EXCEPT !.pauses = @ + 1]
  /\ UNCHANGED <<lease, pc, files, beat, watch, slips>>

Resume(p) ==
  /\ health[p] = "paused"
  /\ health' = [health EXCEPT ![p] = "resumed"]
  /\ UNCHANGED <<lease, pc, files, beat, watch, faults, slips>>

Crash(p) ==
  /\ pc[p] \notin {"new", "gone"} /\ faults.crashes < MaxCrashes
  /\ faults' = [faults EXCEPT !.crashes = @ + 1]
  /\ Goto(p, "gone")
  /\ UNCHANGED <<lease, files, beat, health, watch, slips>>

Acquire(p) == SelectLease(p) \/ VerifyLease(p)
Migrate(p) ==
  \/ StartFile(p) \/ AbortFatal(p) \/ Execute(p) \/ FailFile(p)
  \/ CheckToken(p) \/ FinishRun(p)
Thread(p) == Awake(p) /\ (Acquire(p) \/ Migrate(p) \/ Release(p))
Heartbeat(p) == Awake(p) /\ (Beat(p) \/ LoseBeat(p))

Next ==
  \/ \E p \in Procs : \/ Thread(p) \/ Heartbeat(p) \/ InsertSelected(p)
                      \/ Pause(p) \/ Resume(p) \/ Crash(p)
  \/ Tick \/ Merge

Spec == Init /\ [][Next]_vars

(* Time goes on however often refused runs are started again, suspended    *)
(* processes are resumed, threads are scheduled.                           *)
FairSpec ==
  /\ Spec /\ SF_vars(Tick)
  /\ \A p \in Procs : /\ WF_vars(Thread(p)) /\ WF_vars(Heartbeat(p))
                       /\ WF_vars(Resume(p)) /\ WF_vars(InsertSelected(p))

-----------------------------------------------------------------------------
(***************************************************************************)
(* Properties.                                                             *)
(***************************************************************************)

(* A second process cannot acquire the lease while the first is active.    *)
Exclusive == \A p, q \in Procs : Running(p) /\ Running(q) => p = q

(* Two runs are under way at once for two reasons only: processes looked   *)
(* for a lease at the same time, or a lease ran out under its holder.      *)
ExclusiveWhileLeased == raced = {} /\ ~lapsed => Exclusive

(* The heartbeats keep the lease of a run alive: it runs out only if a     *)
(* process was suspended, if as many heartbeats failed as fit into its     *)
(* time, or if a run that raced for the lease released it.                 *)
LeaseKeptAlive ==
  lapsed => \/ raced # {} \/ faults.pauses > 0 \/ faults.lost + 2 > BeatTtl

(* The runs that the comparison of tokens cannot tell apart are racers:    *)
(* whoever looks once another was granted its lease gets a greater token,  *)
(* whatever expired, crashed or was merged away in between.                *)
OnlyRacersShareTokens ==
  \A p, q \in Procs :
    Running(p) /\ Running(q) /\ token[p] = token[q] => p = q \/ p \in raced \/ q \in raced

(* Two runs that applied files at the same time do not both go unnoticed:  *)
(* the one that finishes its file with the older token has warned.         *)
OverlapReported ==
  \A p, q \in Procs :
    q \in met[p] /\ pc[p] = "between" /\ token[p] < token[q] => p \in warned

(* A heartbeat never renews the lease of a successor.                      *)
RenewsOnlyItsOwn ==
  [][\A p \in Procs :
       p \in beaten' \ beaten /\ Current.owner # p => Current'.left <= Current.left]_vars

(* A lease whose holder died runs out: everyone is served in the end.      *)
EveryoneServed == \A p \in Procs : <>(pc[p] = "gone")
=============================================================================
