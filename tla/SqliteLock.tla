----------------------------- MODULE SqliteLock -----------------------------
(***************************************************************************)
(* Several `dbwarden migrate` processes on one SQLite file.                *)
(*                                                                         *)
(* SQLiteStrategy.acquire reads the status row, refuses when the recorded  *)
(* process is alive, writes its own row, commits it, and executes BEGIN    *)
(* IMMEDIATE on the connection the migrations then run on.  run_migration  *)
(* commits that connection after every file, and a statement outside a     *)
(* transaction takes the write lock for itself only.                       *)
(*                                                                         *)
(* `writer` is SQLite's own write lock; `row` is the status row, which     *)
(* needs that lock to be changed.  A process is one invocation: it never   *)
(* comes back once it has exited.                                          *)
(***************************************************************************)
EXTENDS Integers, Sequences, FiniteSets

CONSTANTS
  Procs,        (* The invocations.                                        *)
  None,         (* No process.                                             *)
  User,         (* User[p]: the operating system user p runs as.           *)
  Directories,  (* The directories there may be: each the sequence of its  *)
                (* pending files, a file being its statements, each "ddl"  *)
                (* or "dml".                                               *)
  MaxCrashes    (* Bound: processes killed.                                *)

ASSUME NoneAssumption == None \notin Procs
ASSUME FilesAssumption == Directories \subseteq Seq(Seq({"ddl", "dml"}))
ASSUME CrashesAssumption == MaxCrashes \in Nat

VARIABLES
  body,       (* The directory; nobody changes it.                         *)
  row,        (* The committed status row: [state, pid].                   *)
  writer,     (* The process holding the write lock.                       *)
  done,       (* Statements whose effect is committed.                     *)
  redone,     (* Statements committed more than once.                      *)
  history,    (* Files with a committed history row.                       *)
  dirty,      (* Statements in the open transaction of the writer.         *)
  dirtyRows,  (* History rows in the open transaction of the writer.       *)
  pc,         (* pc[p]: where the process is.                              *)
  plan,       (* plan[p]: the files it has still to apply.                 *)
  step,       (* step[p]: the next statement of the first of them.         *)
  crashes     (* Processes killed so far.                                  *)

db == <<done, redone, history>>
txn == <<writer, dirty, dirtyRows>>
local == <<plan, step>>
vars == <<body, row, db, txn, pc, local, crashes>>

Files == DOMAIN body
Statements(f) == {<<f, k>> : k \in DOMAIN body[f]}

PCs == {"unborn", "checked", "claimed", "lost", "load", "next", "file",
        "commit", "release", "exited"}

Alive(p) == pc[p] \notin {"unborn", "exited"}

(* _is_process_alive: os.kill(pid, 0) on a process of another user raises  *)
(* PermissionError, an OSError, and the first handler answers False.       *)
SeesAlive(p, q) == Alive(q) /\ User[p] = User[q]

(* The write lock is free or already ours.                                 *)
CanWrite(p) == writer \in {None, p}

(* Mutant: the files are taken from the wrong end.                         *)
MutantLastFile(p) == CHOOSE f \in plan[p] : \A g \in plan[p] : g <= f

File(p) == CHOOSE f \in plan[p] : \A g \in plan[p] : f <= g

Goto(p, l) == pc' = [pc EXCEPT ![p] = l]

Init ==
  /\ body \in Directories
  /\ row = [state |-> "AVAILABLE", pid |-> None]
  /\ writer = None /\ dirty = {} /\ dirtyRows = {}
  /\ done = {} /\ redone = {} /\ history = {}
  /\ pc = [p \in Procs |-> "unborn"]
  /\ plan = [p \in Procs |-> {}]
  /\ step = [p \in Procs |-> 1]
  /\ crashes = 0

(***************************************************************************)
(* acquire                                                                 *)
(***************************************************************************)

(* read_status_row and the verdict on it; a refused process exits with     *)
(* LockError.                                                              *)
CheckHolder(p) ==
  /\ pc[p] = "unborn"
  /\ LET busy == row.state = "RUNNING" /\ row.pid # None /\ SeesAlive(p, row.pid)
     IN  Goto(p, IF busy THEN "exited" ELSE "checked")
  /\ UNCHANGED <<body, row, db, txn, local, crashes>>

(* Mutant: the row is not committed before BEGIN IMMEDIATE.                *)
MutantClaimNoCommit(p) ==
  /\ pc[p] = "checked" /\ writer = None
  /\ row' = [state |-> "RUNNING", pid |-> p] /\ writer' = p
  /\ Goto(p, "claimed")
  /\ UNCHANGED <<body, db, dirty, dirtyRows, local, crashes>>

(* upsert_status_row and its commit.  The driver waits up to five seconds  *)
(* for the write lock, so it may get it after a wait ...                   *)
ClaimRow(p) ==
  /\ pc[p] = "checked" /\ writer = None
  /\ row' = [state |-> "RUNNING", pid |-> p]
  /\ Goto(p, "claimed")
  /\ UNCHANGED <<body, db, txn, local, crashes>>

(* ... or fail with "database is locked".                                  *)
ClaimTimeout(p) ==
  /\ pc[p] = "checked" /\ writer # None
  /\ Goto(p, "exited")
  /\ UNCHANGED <<body, row, db, txn, local, crashes>>

(* Mutant: a deferred BEGIN takes no lock.                                 *)
MutantDeferredBegin(p) ==
  /\ pc[p] = "claimed" /\ writer = None
  /\ Goto(p, "load")
  /\ UNCHANGED <<body, row, db, txn, local, crashes>>

BeginImmediate(p) ==
  /\ pc[p] = "claimed" /\ writer = None
  /\ writer' = p
  /\ Goto(p, "load")
  /\ UNCHANGED <<body, row, db, dirty, dirtyRows, local, crashes>>

(* busy_timeout is 0 by now: BEGIN IMMEDIATE fails at once ...             *)
LoseRace(p) ==
  /\ pc[p] = "claimed" /\ writer # None
  /\ Goto(p, "lost")
  /\ UNCHANGED <<body, row, db, txn, local, crashes>>

(* ... and the row is set AVAILABLE, or stays as it is when that fails too.*)
GiveUp(p) ==
  /\ pc[p] = "lost"
  /\ row' = IF writer = None THEN [row EXCEPT !.state = "AVAILABLE"] ELSE row
  /\ Goto(p, "exited")
  /\ UNCHANGED <<body, db, txn, local, crashes>>

(***************************************************************************)
(* The migrations, on the connection that executed BEGIN IMMEDIATE.        *)
(***************************************************************************)

(* get_migrated_versions, on another connection: committed rows.           *)
LoadHistory(p) ==
  /\ pc[p] = "load"
  /\ plan' = [plan EXCEPT ![p] = Files \ history]
  /\ Goto(p, "next")
  /\ UNCHANGED <<body, row, db, txn, step, crashes>>

StartFile(p) ==
  /\ pc[p] = "next" /\ plan[p] # {}
  /\ step' = [step EXCEPT ![p] = 1]
  /\ Goto(p, "file")
  /\ UNCHANGED <<body, row, db, txn, plan, crashes>>

(* DDL fails when its effect is already there.                             *)
Rejected(s) == s \in done \cup dirty /\ body[s[1]][s[2]] = "ddl"

(* DDL outside a transaction is committed by itself; DML opens one.        *)
ExecStatement(p) ==
  LET f == File(p)
      s == <<f, step[p]>>
  IN  /\ pc[p] = "file" /\ step[p] \in DOMAIN body[f]
      /\ CanWrite(p) /\ ~Rejected(s)
      /\ \/ /\ body[f][step[p]] = "ddl" /\ writer = None
            /\ done' = done \cup {s} /\ redone' = redone \cup ({s} \cap done)
            /\ UNCHANGED <<history, txn>>
         \/ /\ body[f][step[p]] = "dml" \/ writer = p
            /\ writer' = p /\ dirty' = dirty \cup {s}
            /\ UNCHANGED <<db, dirtyRows>>
      /\ step' = [step EXCEPT ![p] = @ + 1]
      /\ UNCHANGED <<body, row, pc, plan, crashes>>

(* Mutant: an upsert where the code inserts a row with a unique filename.  *)
MutantUpsertRow(p) ==
  LET f == File(p) IN
  /\ pc[p] = "file" /\ step[p] \notin DOMAIN body[f]
  /\ CanWrite(p)
  /\ writer' = p /\ dirtyRows' = dirtyRows \cup {f}
  /\ Goto(p, "commit")
  /\ UNCHANGED <<body, row, db, dirty, local, crashes>>

(* The INSERT into _dbwarden_migrations, in the same transaction.          *)
Record(p) ==
  LET f == File(p) IN
  /\ pc[p] = "file" /\ step[p] \notin DOMAIN body[f]
  /\ CanWrite(p) /\ f \notin history \cup dirtyRows
  /\ writer' = p /\ dirtyRows' = dirtyRows \cup {f}
  /\ Goto(p, "commit")
  /\ UNCHANGED <<body, row, db, dirty, local, crashes>>

(* conn.commit(): the write lock taken by BEGIN IMMEDIATE goes with it.    *)
Commit(p) ==
  /\ pc[p] = "commit"
  /\ done' = done \cup dirty /\ redone' = redone \cup (done \cap dirty)
  /\ history' = history \cup dirtyRows
  /\ writer' = None /\ dirty' = {} /\ dirtyRows' = {}
  /\ plan' = [plan EXCEPT ![p] = @ \ {File(p)}]
  /\ Goto(p, "next")
  /\ UNCHANGED <<body, row, step, crashes>>

(* conn.rollback(), and what a dying process leaves to the journal.        *)
RollbackWriter(p) ==
  IF writer = p
    THEN writer' = None /\ dirty' = {} /\ dirtyRows' = {} /\ UNCHANGED db
    ELSE UNCHANGED <<db, txn>>

(* "database is locked", a statement whose effect is there, a duplicate    *)
(* history row: the file fails.                                            *)
Refused(p) ==
  LET f == File(p) IN
  \/ ~CanWrite(p)
  \/ step[p] \in DOMAIN body[f] /\ Rejected(<<f, step[p]>>)
  \/ step[p] \notin DOMAIN body[f] /\ f \in history \cup dirtyRows

FailFile(p) ==
  /\ pc[p] = "file" /\ Refused(p)
  /\ RollbackWriter(p)
  /\ Goto(p, "release")
  /\ UNCHANGED <<body, row, local, crashes>>

(* Nothing is left to apply: the finally block closes the connection.      *)
FinishFiles(p) ==
  /\ pc[p] = "next" /\ plan[p] = {}
  /\ RollbackWriter(p)
  /\ Goto(p, "release")
  /\ UNCHANGED <<body, row, local, crashes>>

(***************************************************************************)
(* release                                                                 *)
(***************************************************************************)

(* release_lock on another connection: COMMIT and ROLLBACK find no         *)
(* transaction, and update_state, whose failure is ignored, sets whatever  *)
(* row is there to COMPLETE.                                               *)
Release(p) ==
  /\ pc[p] = "release"
  /\ row' = IF writer = None THEN [row EXCEPT !.state = "COMPLETE"] ELSE row
  /\ Goto(p, "exited")
  /\ UNCHANGED <<body, db, txn, local, crashes>>

Crash(p) ==
  /\ Alive(p) /\ crashes < MaxCrashes
  /\ crashes' = crashes + 1
  /\ RollbackWriter(p)
  /\ Goto(p, "exited")
  /\ UNCHANGED <<body, row, local>>

Acquire(p) ==
  \/ CheckHolder(p) \/ ClaimRow(p) \/ ClaimTimeout(p)
  \/ BeginImmediate(p) \/ LoseRace(p) \/ GiveUp(p)
Migrate(p) ==
  \/ LoadHistory(p) \/ StartFile(p) \/ ExecStatement(p) \/ Record(p)
  \/ Commit(p) \/ FailFile(p) \/ FinishFiles(p)

Process(p) == Acquire(p) \/ Migrate(p) \/ Release(p)

Next == \E p \in Procs : Process(p) \/ Crash(p)

Spec == Init /\ [][Next]_vars

(* Every process that is started keeps being scheduled until it exits.     *)
FairSpec == Spec /\ \A p \in Procs : WF_vars(Process(p))

-----------------------------------------------------------------------------
(***************************************************************************)
(* Properties.                                                             *)
(***************************************************************************)

(* A process that has a file in hand.                                      *)
Migrating(p) == pc[p] \in {"file", "commit"}

(* The processes that have a file in hand implement the lock promised to   *)
(* every caller when one file is pending; the commit of the first of       *)
(* several files gives the write lock away (README, observations).         *)
Lock == INSTANCE MigrationLock WITH
          holders <- IF Len(body) = 1 THEN {p \in Procs : Migrating(p)} ELSE {}
LockSpec == Lock!Spec

(* However many processes got past the lock, the effect of a statement is  *)
(* committed at most once: the unique history row, written in the          *)
(* transaction of the statements, undoes the second application.           *)
AppliedOnce == redone = {}

(* A committed history row means that all of the file is committed, and    *)
(* that every earlier file is recorded, whoever applied which.             *)
HistoryHonest ==
  \A f \in history : /\ Statements(f) \subseteq done
                     /\ \A g \in Files : g < f => g \in history

(* No process waits for ever: all of them exit, and none leaves the write  *)
(* lock behind.  Contention alone never keeps a single pending file from   *)
(* being applied.                                                          *)
EveryoneExits ==
  <>[](/\ \A p \in Procs : pc[p] = "exited" /\ writer # p
       /\ crashes = 0 /\ Len(body) = 1 => history = Files)
=============================================================================
