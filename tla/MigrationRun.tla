---------------------------- MODULE MigrationRun ----------------------------
(***************************************************************************)
(* One database, one `dbwarden migrate` at a time: what a run executes,    *)
(* what it commits, what it records in the history table, and what is left *)
(* of both when a statement fails, the run is aborted or the process dies. *)
(*                                                                         *)
(* A run (migrate_single) holds one long-lived migration connection.  The  *)
(* versioned migrations run first, in version order, then the RA__ files,  *)
(* then the changed ROC__ files.  Every file is split into the statements  *)
(* that run on the migration connection and those marked                   *)
(* `-- @dbwarden:autocommit`, which run on a connection of their own.      *)
(*                                                                         *)
(* What a statement leaves behind depends on the engine; MigrationRun      *)
(* keeps, for every statement, whether its effect is durable (done), has   *)
(* been made durable twice (redone), or sits in the open transaction of    *)
(* the migration connection (dirty), and the same for history rows.        *)
(***************************************************************************)
EXTENDS Integers

CONSTANTS
  Engines,      (* The engines the database may be of.                     *)
  NumJobs,      (* Number of migration files, in the order a run uses.     *)
  Kind,         (* Kind[j]: "versioned", "always" (RA__), "change" (ROC__) *)
  Body,         (* Body[j]: statement index -> "ddl", "dml" or "auto".     *)
  Checksum,     (* Checksum[j]: checksum of the statements of file j.      *)
  MaxRuns,      (* Bound: invocations of `dbwarden migrate`.               *)
  MaxFaults     (* Bound: failures, aborts and crashes over all the runs.  *)

Jobs == 1 .. NumJobs
Versioned == {j \in Jobs : Kind[j] = "versioned"}
Repeatable == Jobs \ Versioned

ASSUME EngineAssumption ==
  Engines \subseteq {"postgresql", "mysql", "sqlite", "clickhouse"}
ASSUME JobsAssumption ==
  /\ NumJobs \in Nat
  /\ Kind \in [Jobs -> {"versioned", "always", "change"}]
  /\ \A j \in Jobs : /\ DOMAIN Body[j] \subseteq Nat
                     /\ \A k \in DOMAIN Body[j] : Body[j][k] \in {"ddl", "dml", "auto"}
  (* _run_always_migrations precedes _run_on_change_migrations, and both   *)
  (* follow the versioned files.                                           *)
  /\ \A j, l \in Jobs : /\ j < l /\ Kind[l] = "versioned" => Kind[j] = "versioned"
                        /\ j < l /\ Kind[l] = "always" => Kind[j] # "change"
ASSUME BoundsAssumption == MaxRuns \in Nat /\ MaxFaults \in Nat

(* The two statement lists run_migration separates a file into.            *)
Transactional(j) == {k \in DOMAIN Body[j] : Body[j][k] # "auto"}
Autocommit(j) == {k \in DOMAIN Body[j] : Body[j][k] = "auto"}

(* The checksum is that of the statements with their markers.              *)
ASSUME ChecksumAssumption ==
  \A j, l \in Jobs : Checksum[j] = Checksum[l] => (Autocommit(j) = {} <=> Autocommit(l) = {})

Statements(j) == {<<j, k>> : k \in DOMAIN Body[j]}
AllStatements == UNION {Statements(j) : j \in Jobs}
Indices == UNION {DOMAIN Body[j] : j \in Jobs}

VARIABLES
  engine,     (* The engine of the database.                               *)
  done,       (* Statements whose effect is durable.                       *)
  redone,     (* Statements whose effect was made durable more than once.  *)
  history,    (* Files with a committed row in _dbwarden_migrations.       *)
  dirty,      (* Statements of the migration connection not yet committed. *)
  dirtyRows,  (* History rows of the migration connection not committed.   *)
  txn,        (* SQLite: the migration connection is inside a transaction. *)
  pc,         (* Where the run is.                                         *)
  plan,       (* Files this run has still to treat.                        *)
  asked,      (* Every file this run set out to treat.                     *)
  seen,       (* applied_checksums.                                        *)
  existing,   (* existing_runs_always, as read after the versioned files.  *)
  job,        (* The file being applied.                                   *)
  todo,       (* Indices of its statements still to execute in this phase. *)
  outcome,    (* How the last run ended.                                   *)
  runs,       (* Runs started.                                             *)
  faults      (* Faults that happened.                                     *)

db == <<engine, done, redone, history>>
conn == <<dirty, dirtyRows, txn>>
run == <<plan, asked, seen, existing>>
cursor == <<job, todo>>
vars == <<db, conn, pc, run, cursor, outcome, runs, faults>>

PCs == {"idle", "load", "versions", "repeatables", "txn", "inner", "commit",
        "tail", "close"}

(***************************************************************************)
(* The migration connection.                                               *)
(***************************************************************************)

Written == done \cup dirty

(* CREATE and ALTER without IF [NOT] EXISTS fail when their effect is      *)
(* there already; DML can be executed again.                               *)
Rejected(s) == s \in Written /\ Body[s[1]][s[2]] # "dml"

(* Make a set of statements and a set of rows durable.                     *)
Persist(stmts, rows) ==
  /\ done' = done \cup stmts
  /\ redone' = redone \cup (done \cap stmts)
  /\ history' = history \cup rows
  /\ UNCHANGED engine

(* conn.commit(): everything the connection holds, the row of an earlier   *)
(* file included, becomes durable and the transaction ends.                *)
CommitConnection ==
  /\ Persist(dirty, dirtyRows)
  /\ dirty' = {} /\ dirtyRows' = {} /\ txn' = FALSE

(* Mutant: commit where the code rolls back.                               *)
MutantCommitOnError == CommitConnection

(* conn.rollback(), and Connection.close() through the pool's reset.       *)
RollbackConnection ==
  /\ dirty' = {} /\ dirtyRows' = {} /\ txn' = FALSE
  /\ UNCHANGED db

(* connection.execute(text(statement)).  PostgreSQL: transactional.        *)
(* MySQL: DDL commits what came before, then itself.  SQLite: pysqlite     *)
(* opens a transaction before DML only, so DDL outside one is committed at *)
(* once.  ClickHouse: no transactions.                                     *)
Execute(s) ==
  LET ddl == Body[s[1]][s[2]] = "ddl" IN
  \/ /\ \/ engine = "postgresql"
        \/ engine = "mysql" /\ ~ddl
        \/ engine = "sqlite" /\ (txn \/ ~ddl)
     /\ dirty' = dirty \cup {s}
     /\ txn' = (engine = "sqlite")
     /\ UNCHANGED <<db, dirtyRows>>
  \/ /\ \/ engine = "clickhouse"
        \/ engine = "sqlite" /\ ddl /\ ~txn
     /\ Persist({s}, {})
     /\ UNCHANGED conn
  \/ /\ engine = "mysql" /\ ddl
     /\ Persist(dirty \cup {s}, dirtyRows)
     /\ dirty' = {} /\ dirtyRows' = {} /\ UNCHANGED txn

(* The INSERT (or upsert) of the history row of j on the same connection.  *)
InsertRow(j) ==
  IF engine = "clickhouse"
    THEN Persist({}, {j}) /\ UNCHANGED conn
    ELSE /\ dirtyRows' = dirtyRows \cup {j}
         /\ txn' = (engine = "sqlite")
         /\ UNCHANGED <<db, dirty>>

(* Does the file go through run_repeatable_migration (upsert) or through   *)
(* run_migration (plain INSERT)?                                           *)
Upserts(j) == Kind[j] = "change" \/ (Kind[j] = "always" /\ j \in existing)

(* filename is UNIQUE, except on ClickHouse's MergeTree.                   *)
Duplicate(j) ==
  /\ ~Upserts(j) /\ engine # "clickhouse"
  /\ j \in history \cup dirtyRows

(***************************************************************************)
(* The run.                                                                *)
(***************************************************************************)

NextIndex(k) == k \in todo /\ \A l \in todo : k <= l

(* Back to the loop the file came from.                                    *)
JobDone ==
  /\ plan' = plan \ {job}
  /\ pc' = IF job \in Versioned THEN "versions" ELSE "repeatables"
  /\ seen' = IF job \in Versioned THEN seen \cup {Checksum[job]} ELSE seen
  /\ UNCHANGED <<asked, existing>>

Init ==
  /\ engine \in Engines
  /\ done = {} /\ redone = {} /\ history = {}
  /\ dirty = {} /\ dirtyRows = {} /\ txn = FALSE
  /\ pc = "idle"
  /\ plan = {} /\ asked = {} /\ seen = {} /\ existing = {}
  /\ job = 0 /\ todo = {}
  /\ outcome = "none" /\ runs = 0 /\ faults = 0

(* The lock is acquired and the migration connection opened.  On SQLite it *)
(* is the lock connection, which has just executed BEGIN IMMEDIATE.        *)
StartRun ==
  /\ pc = "idle" /\ runs < MaxRuns
  /\ pc' = "load" /\ runs' = runs + 1 /\ outcome' = "none"
  /\ txn' = (engine = "sqlite")
  /\ plan' = {} /\ asked' = {}
  /\ UNCHANGED <<db, dirty, dirtyRows, seen, existing, cursor, faults>>

(* Mutant: the history read finds nothing.                                 *)
MutantStaleHistory ==
  /\ pc = "load"
  /\ asked' = Jobs /\ plan' = asked' /\ seen' = {}
  /\ pc' = "versions"
  /\ UNCHANGED <<db, conn, existing, cursor, outcome, runs, faults>>

(* The history is read on another connection, so it shows committed rows.  *)
(* --count and --to-version keep a prefix of the pending versions; a stop  *)
(* at the severity ceiling also drops the repeatable files.                *)
LoadHistory ==
  /\ pc = "load"
  /\ \E to \in 0 .. NumJobs, deferred \in BOOLEAN :
       LET pending == {v \in Versioned \ history : v <= to}
           changed == {j \in Repeatable : Kind[j] = "always" \/ j \notin history}
       IN  asked' = pending \cup (IF deferred THEN {} ELSE changed)
  /\ plan' = asked'
  /\ seen' = {Checksum[j] : j \in history}
  /\ pc' = "versions"
  /\ UNCHANGED <<db, conn, existing, cursor, outcome, runs, faults>>

(* Mutant: pending files in no particular order.                           *)
MutantAnyVersion(v) == pc = "versions" /\ v \in plan \cap Versioned

NextVersion(v) ==
  /\ pc = "versions"
  /\ v \in plan \cap Versioned
  /\ \A w \in plan \cap Versioned : v <= w

(* `if data_plan is None and checksum in applied_checksums: continue`.     *)
SkipApplied(v) ==
  /\ NextVersion(v) /\ Checksum[v] \in seen
  /\ plan' = plan \ {v}
  /\ UNCHANGED <<db, conn, pc, asked, seen, existing, cursor, outcome, runs, faults>>

(* Mutant: the file in hand is not replaced.                               *)
MutantStaleJob(v) ==
  /\ NextVersion(v) /\ Checksum[v] \notin seen
  /\ todo' = Transactional(v) /\ pc' = "txn"
  /\ UNCHANGED <<db, conn, run, job, outcome, runs, faults>>

StartVersion(v) ==
  /\ NextVersion(v) /\ Checksum[v] \notin seen
  /\ job' = v /\ todo' = Transactional(v) /\ pc' = "txn"
  /\ UNCHANGED <<db, conn, run, outcome, runs, faults>>

(* get_existing_runs_always_filenames, on another connection.              *)
ReadRunsAlways ==
  /\ pc = "versions" /\ plan \cap Versioned = {}
  /\ existing' = {j \in history : Kind[j] = "always"}
  /\ pc' = "repeatables"
  /\ UNCHANGED <<db, conn, plan, asked, seen, cursor, outcome, runs, faults>>

StartRepeatable(j) ==
  /\ pc = "repeatables" /\ j \in plan /\ \A l \in plan : j <= l
  /\ job' = j /\ todo' = Transactional(j) /\ pc' = "txn"
  /\ UNCHANGED <<db, conn, run, outcome, runs, faults>>

ExecStatement(k) ==
  /\ pc = "txn" /\ NextIndex(k) /\ ~Rejected(<<job, k>>)
  /\ Execute(<<job, k>>)
  /\ todo' = todo \ {k}
  /\ UNCHANGED <<pc, run, job, outcome, runs, faults>>

(* The history row of a file without autocommit statements is written      *)
(* right after its statements, on the same connection.                     *)
RecordWithStatements ==
  /\ pc = "txn" /\ todo = {} /\ Autocommit(job) = {} /\ ~Duplicate(job)
  /\ InsertRow(job)
  /\ pc' = "commit"
  /\ UNCHANGED <<run, cursor, outcome, runs, faults>>

(* Mutant: the row is committed with the transactional part.               *)
MutantRecordBeforeAutocommit ==
  /\ pc = "txn" /\ todo = {} /\ Autocommit(job) # {} /\ engine # "mysql"
  /\ Persist(dirty, dirtyRows \cup {job})
  /\ dirty' = {} /\ dirtyRows' = {} /\ txn' = FALSE
  /\ pc' = "tail" /\ todo' = Autocommit(job)
  /\ UNCHANGED <<run, job, outcome, runs, faults>>

(* ... and of a file with some, after they have run: the transactional     *)
(* part is committed first, on every engine but MySQL ...                  *)
CommitBeforeAutocommit ==
  /\ pc = "txn" /\ todo = {} /\ Autocommit(job) # {} /\ engine # "mysql"
  /\ CommitConnection
  /\ pc' = "tail" /\ todo' = Autocommit(job)
  /\ UNCHANGED <<run, job, outcome, runs, faults>>

(* ... which runs them inside _run_on_connection, before its commit.       *)
StartInnerAutocommit ==
  /\ pc = "txn" /\ todo = {} /\ Autocommit(job) # {} /\ engine = "mysql"
  /\ pc' = "inner" /\ todo' = Autocommit(job)
  /\ UNCHANGED <<db, conn, run, job, outcome, runs, faults>>

(* _execute_autocommit: a connection of its own, durable at once.          *)
ExecAutocommit(k) ==
  /\ pc \in {"inner", "tail"} /\ NextIndex(k) /\ ~Rejected(<<job, k>>)
  /\ Persist({<<job, k>>}, {})
  /\ todo' = todo \ {k}
  /\ UNCHANGED <<conn, pc, run, job, outcome, runs, faults>>

InnerRecord ==
  /\ pc = "inner" /\ todo = {} /\ ~Duplicate(job)
  /\ InsertRow(job)
  /\ pc' = "commit"
  /\ UNCHANGED <<run, cursor, outcome, runs, faults>>

(* conn.commit() at the end of _run_on_connection; the MySQL branch of     *)
(* run_repeatable_migration returns without one.  The autocommit list of a *)
(* file is not empty here on MySQL only, and is then run again.            *)
Commit ==
  /\ pc = "commit"
  /\ IF engine = "mysql" /\ Upserts(job) THEN UNCHANGED <<db, conn>> ELSE CommitConnection
  /\ IF Autocommit(job) = {}
       THEN JobDone /\ UNCHANGED todo
       ELSE pc' = "tail" /\ todo' = Autocommit(job) /\ UNCHANGED run
  /\ UNCHANGED <<job, outcome, runs, faults>>

(* _record_upgrade(connection=connection) after the autocommit statements; *)
(* nothing commits it here.                                                *)
TailRecord ==
  /\ pc = "tail" /\ todo = {} /\ ~Duplicate(job)
  /\ InsertRow(job)
  /\ JobDone
  /\ UNCHANGED <<cursor, outcome, runs, faults>>

(* A statement or a record is refused by the database.                     *)
Refused ==
  \/ \E k \in todo : NextIndex(k) /\ Rejected(<<job, k>>)
  \/ todo = {} /\ Duplicate(job) /\ (pc = "txn" => Autocommit(job) = {})

(* The exception leaves run_migration.  The external-connection branch     *)
(* rolls back first; MySQL and the tail leave that to the close.           *)
FailStatement ==
  /\ pc \in {"txn", "inner", "tail"}
  /\ \/ Refused /\ UNCHANGED faults
     \/ ~Refused /\ faults < MaxFaults /\ faults' = faults + 1
  /\ IF pc = "txn" /\ engine # "mysql" THEN RollbackConnection ELSE UNCHANGED <<db, conn>>
  /\ outcome' = "failed" /\ pc' = "close"
  /\ UNCHANGED <<run, cursor, runs>>

(* A hook vetoes, the heartbeat is fatal, preflight or a plan stops the    *)
(* run: an exception between two files.                                    *)
Abort ==
  /\ pc \in {"load", "versions", "repeatables"} /\ faults < MaxFaults
  /\ faults' = faults + 1
  /\ outcome' = "failed" /\ pc' = "close"
  /\ UNCHANGED <<db, conn, run, cursor, runs>>

FinishRun ==
  /\ pc = "repeatables" /\ plan = {}
  /\ outcome' = "ok" /\ pc' = "close"
  /\ UNCHANGED <<db, conn, run, cursor, runs, faults>>

(* The finally block closes the migration connection, then releases the    *)
(* lock.                                                                   *)
CloseConnection ==
  /\ pc = "close"
  /\ RollbackConnection
  /\ pc' = "idle"
  /\ UNCHANGED <<run, cursor, outcome, runs, faults>>

(* The process or its connection dies; the server discards the open        *)
(* transaction.                                                            *)
Crash ==
  /\ pc # "idle" /\ faults < MaxFaults
  /\ RollbackConnection
  /\ pc' = "idle" /\ outcome' = "crashed" /\ faults' = faults + 1
  /\ UNCHANGED <<run, cursor, runs>>

Versions == \E v \in Versioned : SkipApplied(v) \/ StartVersion(v)
Repeats == ReadRunsAlways \/ \E j \in Repeatable : StartRepeatable(j)
Apply ==
  \/ \E k \in Indices : ExecStatement(k) \/ ExecAutocommit(k)
  \/ RecordWithStatements \/ CommitBeforeAutocommit \/ StartInnerAutocommit
  \/ InnerRecord \/ Commit \/ TailRecord

(* A step the program takes by itself once a run is started.               *)
Progress ==
  \/ LoadHistory \/ Versions \/ Repeats \/ Apply \/ FinishRun
  \/ CloseConnection \/ (FailStatement /\ Refused)

Next == StartRun \/ Progress \/ FailStatement \/ Abort \/ Crash

Spec == Init /\ [][Next]_vars

(* The process keeps executing unless it is killed, and killing it is one  *)
(* of the bounded faults.                                                  *)
FairSpec == Spec /\ WF_vars(Progress)

-----------------------------------------------------------------------------
(***************************************************************************)
(* Properties.                                                             *)
(***************************************************************************)

(* Every variable holds what the code can put there.                       *)
TypeOK ==
  /\ engine \in Engines
  /\ done \subseteq AllStatements /\ redone \subseteq done
  /\ dirty \subseteq AllStatements
  /\ history \subseteq Jobs /\ dirtyRows \subseteq Jobs
  /\ txn \in BOOLEAN /\ pc \in PCs
  /\ plan \subseteq Jobs /\ asked \subseteq Jobs /\ existing \subseteq Jobs
  /\ seen \subseteq {Checksum[j] : j \in Jobs}
  /\ job \in Jobs \cup {0} /\ todo \subseteq Indices
  /\ pc \in {"txn", "inner", "commit", "tail"} =>
       job \in Jobs /\ todo \subseteq DOMAIN Body[job]
  /\ outcome \in {"none", "ok", "failed", "crashed"}
  /\ runs \in 0 .. MaxRuns /\ faults \in 0 .. MaxFaults

(* The history never claims more than was executed: a committed row means  *)
(* that every statement of the file is durable, whatever failed or crashed *)
(* (run_migration, run_repeatable_migration).                              *)
RecordedImpliesExecuted == \A j \in history : Statements(j) \subseteq done

(* Versions are recorded without gaps, but for files that a recorded file  *)
(* has the statements of: a later version never overtakes an earlier one,  *)
(* even when the earlier row was still uncommitted as the later file       *)
(* failed (_run_versioned_migrations).                                     *)
HistoryIsPrefix ==
  \A v, w \in Versioned :
    v < w /\ w \in history =>
      v \in history \/ \E u \in history : Checksum[u] = Checksum[v]

(* A file with a committed row is never executed again, by any later run   *)
(* (the history read of migrate_single).  On MySQL the run that has just   *)
(* recorded a file does execute its autocommit statements again.           *)
NeverReapplied ==
  [][\A v \in Versioned \cap history :
       \/ redone' \cap Statements(v) \subseteq redone
       \/ engine = "mysql" /\ pc = "tail" /\ v = job]_vars

(* A run that reports success has left a committed row for every file it   *)
(* set out to apply, unless it skipped the file for its checksum.  Two     *)
(* rows may be lost at the close (README): that of a file with autocommit  *)
(* statements, and on MySQL that of an ROC__ file.                         *)
CompletedRunIsRecorded ==
  pc = "idle" /\ outcome = "ok" =>
    \A j \in asked :
      Autocommit(j) = {} /\ ~(engine = "mysql" /\ Kind[j] = "change") =>
        \E u \in history : Checksum[u] = Checksum[j]

(* An autocommit statement that took effect in a file without a row: the   *)
(* transaction of the next run does not undo it.                           *)
LeftBehind == \E j \in Jobs \ history : \E k \in Autocommit(j) : <<j, k>> \in done

(* Once nothing fails any more, the next run on PostgreSQL succeeds,       *)
(* whatever the earlier runs left of files that are transactions.          *)
RetrySucceeds ==
  pc = "load" /\ faults = MaxFaults /\ engine = "postgresql" /\ ~LeftBehind
    ~> outcome = "ok"
=============================================================================
