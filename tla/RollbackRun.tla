----------------------------- MODULE RollbackRun -----------------------------
(***************************************************************************)
(* `dbwarden rollback` and `dbwarden downgrade` against the history that   *)
(* `dbwarden migrate` has written: which versions a command selects, in    *)
(* what order it reverts them, what it commits, and what is left when a    *)
(* statement fails or the process dies.                                    *)
(*                                                                         *)
(* The commands hold the migration lock, so one runs at a time.  A file    *)
(* has effects 1 .. Effects[v]; statement k of its `-- rollback` section   *)
(* undoes effect k.  Upgrades are taken a file at a time: MigrationRun has *)
(* their detail, and this module keeps the states it may leave behind.     *)
(***************************************************************************)
EXTENDS Integers, FiniteSets

CONSTANTS
  Engines,      (* The engines the database may be of.                     *)
  NumVersions,  (* Number of versioned migration files.                    *)
  Effects,      (* Effects[v]: number of effects of version v.             *)
  Marked,       (* Pairs <<v, k>>: rollback statement k of v is marked     *)
                (* `-- @dbwarden:autocommit`.                              *)
  Reversible,   (* Versions whose rollback section has statements.         *)
  Late,         (* Versions whose file a merge brings after the others.    *)
  Fragile,      (* Versions whose file may be deleted or superseded.       *)
  MaxUpgrades, MaxCommands, MaxFaults

Versions == 1 .. NumVersions
Commands == {"count", "to", "downgrade"}

ASSUME RollbackAssumption ==
  /\ Engines \subseteq {"postgresql", "mysql", "sqlite", "clickhouse"}
  /\ NumVersions \in Nat /\ Effects \in [Versions -> Nat \ {0}]
  /\ Reversible \cup Late \cup Fragile \subseteq Versions
  /\ \A s \in Marked : s[1] \in Reversible /\ s[2] \in 1 .. Effects[s[1]]

VARIABLES
  engine,
  effects,     (* Effects <<v, k>> durably in the database.                *)
  rows,        (* applied_at of every version of the history table.        *)
  present,     (* Versions with a file in the migrations directory.        *)
  superseded,  (* Versions whose file carries the superseded marker.       *)
  undone,      (* Effects undone in the open transaction.                  *)
  gone,        (* Rows deleted in the open transaction.                    *)
  txn,         (* SQLite: the connection is inside a transaction.          *)
  pc,
  command, target,
  queue,       (* Versions still to revert.                                *)
  job,         (* The version being reverted.                              *)
  todo,        (* Its statements still to execute.                         *)
  outcome, upgrades, commands, faults

db == <<engine, effects, rows>>
files == <<present, superseded>>
conn == <<undone, gone, txn>>
request == <<command, target>>
counters == <<upgrades, commands, faults>>
cursor == <<queue, job, todo>>
vars == <<db, files, conn, pc, request, cursor, outcome, counters>>

EffectsOf(v) == {v} \X (1 .. Effects[v])
AutoOf(v) == {k \in 1 .. Effects[v] : <<v, k>> \in Marked}
Plain(v) == AutoOf(v) = {}
Applied == DOMAIN rows

(* Mutant: the last statement of the section is lost.                      *)
MutantStatementsOf(v) == IF v \in Reversible THEN 1 .. Effects[v] - 1 ELSE {}

StatementsOf(v) == IF v \in Reversible THEN 1 .. Effects[v] ELSE {}

(***************************************************************************)
(* The connection and the engines.                                         *)
(***************************************************************************)
Persist(undo, delete) ==
  /\ effects' = effects \ undo
  /\ rows' = [v \in Applied \ delete |-> rows[v]]
  /\ UNCHANGED engine

CommitConnection ==
  /\ Persist(undone, gone)
  /\ undone' = {} /\ gone' = {} /\ txn' = FALSE

(* Mutant: an error commits what was done so far.                          *)
MutantRollback == CommitConnection

(* conn.rollback(), and Connection.close() through the pool's reset.       *)
RollbackConnection ==
  /\ undone' = {} /\ gone' = {} /\ txn' = FALSE
  /\ UNCHANGED db

(* _exec_statement of a DROP: PostgreSQL, and SQLite inside a transaction, *)
(* keep it open; MySQL commits what came before and itself.                *)
Undo(s) ==
  \/ /\ engine = "postgresql" \/ (engine = "sqlite" /\ txn)
     /\ undone' = undone \cup {s}
     /\ UNCHANGED <<db, gone, txn>>
  \/ /\ engine = "mysql"
     /\ Persist(undone \cup {s}, gone)
     /\ undone' = {} /\ gone' = {} /\ UNCHANGED txn
  \/ /\ engine = "clickhouse" \/ (engine = "sqlite" /\ ~txn)
     /\ Persist({s}, {})
     /\ UNCHANGED conn

(* DELETE FROM the migrations table on the same connection.                *)
DeleteRow(v) ==
  IF engine = "clickhouse"
    THEN Persist({}, {v}) /\ UNCHANGED conn
    ELSE /\ gone' = gone \cup {v}
         /\ txn' = (engine = "sqlite")
         /\ UNCHANGED <<db, undone>>

(***************************************************************************)
(* Files and upgrades.                                                     *)
(***************************************************************************)
Init ==
  /\ engine \in Engines
  /\ effects = {} /\ rows = [v \in {} |-> 0]
  /\ present = Versions \ Late /\ superseded = {}
  /\ undone = {} /\ gone = {} /\ txn = FALSE
  /\ pc = "idle" /\ command = "count" /\ target = 0
  /\ queue = {} /\ job = 0 /\ todo = {}
  /\ outcome = "none" /\ upgrades = 0 /\ commands = 0 /\ faults = 0

(* A merge or a checkout brings the file of a version lower than applied   *)
(* ones; a file is deleted, or marked superseded by `dbwarden merge`.      *)
AddFile(v) ==
  /\ pc = "idle" /\ v \in Late \ present
  /\ present' = present \cup {v}
  /\ UNCHANGED <<db, superseded, conn, pc, request, cursor, outcome, counters>>

LoseFile(v) ==
  /\ v \in Fragile \cap present
  /\ \/ present' = present \ {v} /\ UNCHANGED superseded
     \/ superseded' = superseded \cup {v} /\ UNCHANGED present
  /\ UNCHANGED <<db, conn, pc, request, cursor, outcome, counters>>

Pending(v) ==
  /\ v \in present \ (superseded \cup Applied)
  /\ \A w \in present \ (superseded \cup Applied) : v <= w

(* CURRENT_TIMESTAMP: in the second of the last row, or after it.          *)
Times == LET last == {t \in {0} \cup {rows[v] : v \in Applied} : \A v \in Applied : rows[v] <= t}
         IN  last \cup {t + 1 : t \in last}

(* One file of a run of migrate.  A DDL statement is refused when its      *)
(* effect is there; a fault leaves the first effects without the row, but  *)
(* for a file of PostgreSQL without autocommit statements.                 *)
Upgrade(v) ==
  /\ pc = "idle" /\ upgrades < MaxUpgrades /\ Pending(v)
  /\ EffectsOf(v) \cap effects = {}
  /\ upgrades' = upgrades + 1
  /\ \/ /\ effects' = effects \cup EffectsOf(v)
        /\ \E at \in Times :
             rows' = [w \in Applied \cup {v} |-> IF w = v THEN at ELSE rows[w]]
        /\ UNCHANGED faults
     \/ /\ faults < MaxFaults /\ ~(engine = "postgresql" /\ Plain(v))
        /\ \E k \in 1 .. Effects[v] : effects' = effects \cup ({v} \X (1 .. k))
        /\ faults' = faults + 1
        /\ UNCHANGED rows
  /\ UNCHANGED <<engine, files, conn, pc, request, cursor, outcome, commands>>

(***************************************************************************)
(* Selection.                                                              *)
(***************************************************************************)
WithFile(v) == v \in present \ superseded

(* Mutant: rows of the same second come in any order.                      *)
MutantNewer(v, w) == rows[v] > rows[w]

(* ORDER BY applied_at DESC, version DESC                                  *)
Newer(v, w) == rows[v] > rows[w] \/ (rows[v] = rows[w] /\ v > w)

(* get_latest_versions(limit=n): the limit counts versions that            *)
(* _get_versions_to_rollback then leaves out.                              *)
Latest(n) ==
  {v \in Applied : Cardinality({w \in Applied : Newer(w, v)}) < n /\ WithFile(v)}

(* get_latest_versions(starting_version=t)                                 *)
After(t) == {v \in Applied : v > t /\ WithFile(v)}

(* get_migrated_versions lists v before w: by version on PostgreSQL, by    *)
(* applied_at elsewhere.                                                   *)
Migrated(v, w) == IF engine = "postgresql" THEN v < w ELSE rows[v] < rows[w]

(* Mutant: the slice stops before end_version.                             *)
MutantFilesBetween(t, e) ==
  {v \in present : (t \in present => v > t) /\ (e \in present => v < e)}

(* get_migration_filepaths_by_version(version_to_start_from=t,             *)
(* end_version=e).                                                         *)
FilesBetween(t, e) ==
  {v \in present : (t \in present => v > t) /\ (e \in present => v <= e)}

(* downgrade_cmd: versions_to_revert without those that have no file in    *)
(* the range, which ends at the last one listed (rows of the same second   *)
(* are listed in any order).                                               *)
Above(t) ==
  LET revert == {v \in Applied : v > t}
      last == {e \in revert : \A v \in revert : ~Migrated(e, v)}
  IN  IF revert = {} THEN {{}} ELSE {revert \cap FilesBetween(t, e) : e \in last}

(* v is reverted before w: newest first by rollback --count and, as listed,*)
(* by downgrade; in the order of applied_at by rollback --to-version,      *)
(* where two reversals of the list cancel out.                             *)
Precedes(v, w) ==
  CASE command = "count" -> Newer(v, w)
    [] command = "to" -> rows[v] < rows[w]
    [] OTHER -> Migrated(w, v)

(***************************************************************************)
(* The commands.                                                           *)
(***************************************************************************)
(* acquire_lock, the migration connection (on SQLite the lock connection   *)
(* with its BEGIN IMMEDIATE), and the selection.                           *)
Start ==
  /\ pc = "idle" /\ commands < MaxCommands
  /\ commands' = commands + 1
  /\ \E cmd \in Commands, t \in Versions :
       /\ command' = cmd /\ target' = t
       /\ \/ cmd = "count" /\ queue' = Latest(t)
          \/ cmd = "to" /\ queue' = After(t)
          \/ cmd = "downgrade" /\ queue' \in Above(t)
       (* Target version has not been applied: SystemExit(1); without any  *)
       (* applied version there is nothing to downgrade.                   *)
       /\ IF cmd = "downgrade" /\ t \notin Applied /\ Applied # {}
            THEN pc' = "close" /\ outcome' = "failed"
            ELSE pc' = "each" /\ outcome' = "none"
  /\ txn' = (engine = "sqlite")
  /\ UNCHANGED <<db, files, undone, gone, job, todo, upgrades, faults>>

NextVersion(v) == pc = "each" /\ v \in queue /\ \A w \in queue : ~Precedes(w, v)

(* A file that has gone since it was listed, and, by downgrade, a file     *)
(* without rollback statements: the version is left as it is.              *)
Skip(v) ==
  /\ NextVersion(v)
  /\ IF command = "downgrade" THEN v \in present \ Reversible ELSE v \notin present
  /\ queue' = queue \ {v}
  /\ UNCHANGED <<db, files, conn, pc, request, job, todo, outcome, counters>>

(* The file of the next version has gone: downgrade cannot read it.        *)
Missing == command = "downgrade" /\ \E v \in queue : NextVersion(v) /\ v \notin present

Begin(v) ==
  /\ NextVersion(v) /\ v \in present
  /\ command = "downgrade" => v \in Reversible
  /\ job' = v /\ queue' = queue \ {v}
  /\ todo' = StatementsOf(v) \ AutoOf(v)
  /\ pc' = "txn"
  /\ UNCHANGED <<db, files, conn, request, outcome, counters>>

NextStatement(k) == k \in todo /\ \A l \in todo : k <= l
InPlace(s) == s \in effects \ undone

(* A statement whose effect is not there fails, unless it says IF EXISTS.  *)
ExecStatement(k) ==
  /\ pc = "txn" /\ NextStatement(k)
  /\ Undo(<<job, k>>)
  /\ todo' = todo \ {k}
  /\ UNCHANGED <<files, pc, request, queue, job, outcome, counters>>

(* The row goes with the statements when none of them is autocommit ...    *)
DeleteWithStatements ==
  /\ pc = "txn" /\ todo = {} /\ Plain(job)
  /\ DeleteRow(job)
  /\ pc' = "commit"
  /\ UNCHANGED <<files, request, cursor, outcome, counters>>

(* ... and otherwise the transactional part is committed first, except by  *)
(* MySQL, which executes the autocommit part before its commit.            *)
StartAutocommit ==
  /\ pc = "txn" /\ todo = {} /\ ~Plain(job)
  /\ IF engine = "mysql"
       THEN pc' = "inner" /\ UNCHANGED <<db, conn>>
       ELSE pc' = "tail" /\ CommitConnection
  /\ todo' = AutoOf(job)
  /\ UNCHANGED <<files, request, queue, job, outcome, counters>>

ExecAutocommit(k) ==
  /\ pc \in {"inner", "tail"} /\ NextStatement(k)
  /\ Persist({<<job, k>>}, {})
  /\ todo' = todo \ {k}
  /\ UNCHANGED <<files, conn, pc, request, queue, job, outcome, counters>>

InnerDelete ==
  /\ pc = "inner" /\ todo = {}
  /\ DeleteRow(job)
  /\ pc' = "commit"
  /\ UNCHANGED <<files, request, cursor, outcome, counters>>

(* conn.commit(); MySQL then executes the autocommit statements again.     *)
Commit ==
  /\ pc = "commit"
  /\ CommitConnection
  /\ IF Plain(job)
       THEN pc' = "each" /\ UNCHANGED todo
       ELSE pc' = "tail" /\ todo' = AutoOf(job)
  /\ UNCHANGED <<files, request, queue, job, outcome, counters>>

(* _record_rollback on the migration connection; nothing commits it here.  *)
TailDelete ==
  /\ pc = "tail" /\ todo = {}
  /\ DeleteRow(job)
  /\ pc' = "each"
  /\ UNCHANGED <<files, request, cursor, outcome, counters>>

Fail ==
  /\ \/ /\ pc \in {"txn", "inner", "tail"}
        /\ \E k \in todo : NextStatement(k) /\ ~InPlace(<<job, k>>)
        /\ UNCHANGED faults
     \/ Missing /\ UNCHANGED faults
     \/ /\ pc \in {"each", "txn", "inner", "tail"} /\ faults < MaxFaults
        /\ faults' = faults + 1
  /\ IF pc = "txn" /\ engine # "mysql" THEN RollbackConnection ELSE UNCHANGED <<db, conn>>
  /\ pc' = "close" /\ outcome' = "failed"
  /\ UNCHANGED <<files, request, cursor, upgrades, commands>>

Finish ==
  /\ pc = "each" /\ queue = {}
  /\ pc' = "close" /\ outcome' = "ok"
  /\ UNCHANGED <<db, files, conn, request, cursor, counters>>

(* The finally block: close the connection, release the lock.              *)
Close ==
  /\ pc = "close"
  /\ RollbackConnection
  /\ pc' = "idle" /\ queue' = {} /\ job' = 0 /\ todo' = {}
  /\ UNCHANGED <<files, request, outcome, counters>>

Crash ==
  /\ pc # "idle" /\ faults < MaxFaults /\ faults' = faults + 1
  /\ RollbackConnection
  /\ pc' = "idle" /\ outcome' = "crashed" /\ queue' = {} /\ job' = 0 /\ todo' = {}
  /\ UNCHANGED <<files, request, upgrades, commands>>

Environment == \E v \in Versions : AddFile(v) \/ LoseFile(v) \/ Upgrade(v)
Revert ==
  \/ \E v \in Versions : Skip(v) \/ Begin(v)
  \/ DeleteWithStatements \/ StartAutocommit \/ InnerDelete \/ Commit \/ TailDelete
  \/ \E k \in UNION {1 .. Effects[v] : v \in Versions} : ExecStatement(k) \/ ExecAutocommit(k)

Next == Environment \/ Start \/ Revert \/ Fail \/ Finish \/ Close \/ Crash
Spec == Init /\ [][Next]_vars

-----------------------------------------------------------------------------
(***************************************************************************)
(* Properties.                                                             *)
(***************************************************************************)

(* On PostgreSQL the row of a file without autocommit statements and its   *)
(* effects are deleted together: whatever failed or crashed, the row is    *)
(* there exactly when every effect is, and no effect outlives it.          *)
(* (run_migration, migration_operation="rollback")                         *)
RevertIsAtomic ==
  engine = "postgresql" =>
    \A v \in Reversible : Plain(v) =>
      IF v \in Applied THEN EffectsOf(v) \subseteq effects ELSE EffectsOf(v) \cap effects = {}

(* Row and effects of a file disagree.                                     *)
Torn(v) ==
  IF v \in Applied THEN ~(EffectsOf(v) \subseteq effects)
                   ELSE EffectsOf(v) \cap effects # {}

(* On every engine a fault costs one file: between commands there are no   *)
(* more plain files whose row and effects disagree than faults happened;   *)
(* those already reverted, and those not yet begun, are whole              *)
(* (the loop of rollback_cmd, its finally block).                          *)
FaultTearsOneFile ==
  pc = "idle" => Cardinality({v \in Reversible : Plain(v) /\ Torn(v)}) <= faults

(* w may depend on v: it is later and was not applied before it.           *)
LaterThan(v) == {w \in Applied : w > v /\ rows[w] >= rows[v]}

(* The versions a command can revert.                                      *)
Revertible ==
  IF command = "downgrade" THEN present \cap Reversible ELSE present \ superseded

KeepsOrder ==
  \A v \in Applied \ Applied' : LaterThan(v) \cap Revertible \cap Applied' = {}

(* rollback --count on every engine, and downgrade on PostgreSQL, never    *)
(* revert a version while one that is later and was not applied before it  *)
(* stays applied, unless that one has no file to revert it with.           *)
NewestFirst ==
  [][command = "count" \/ (command = "downgrade" /\ engine = "postgresql") => KeepsOrder]_vars

(* "rollback runs in reverse order": the same of every command.            *)
ReverseOrder == [][KeepsOrder]_vars

(* A command to a target that ends without an error leaves no plain row    *)
(* above it that it could have reverted; of downgrade on PostgreSQL only   *)
(* (README, observations).                                                 *)
TargetReached ==
  pc = "close" /\ outcome = "ok"
    /\ (command = "to" \/ (command = "downgrade" /\ engine = "postgresql")) =>
    \A v \in Applied \cap Revertible : v > target => ~Plain(v)
=============================================================================
