------------------------- MODULE MigrationRunProofs -------------------------
(***************************************************************************)
(* What MigrationRun guarantees for every engine, every directory of       *)
(* migration files and every number of runs and faults.                    *)
(***************************************************************************)
EXTENDS MigrationRun, TLAPS

(* How the steps that touch the database are typed.                        *)
LEMMA PersistType ==
  ASSUME NEW stmts, NEW rows, stmts \subseteq AllStatements, rows \subseteq Jobs,
         Persist(stmts, rows), engine \in Engines,
         done \subseteq AllStatements, redone \subseteq done, history \subseteq Jobs
  PROVE  /\ engine' \in Engines
         /\ done' \subseteq AllStatements /\ redone' \subseteq done'
         /\ history' \subseteq Jobs
BY DEF Persist

(* A statement of a file is one of the statements.                         *)
LEMMA StatementsOfJob ==
  ASSUME NEW j \in Jobs, NEW k \in DOMAIN Body[j]
  PROVE  <<j, k>> \in Statements(j) /\ <<j, k>> \in AllStatements /\ k \in Indices
BY DEF Statements, AllStatements, Indices

(* The phases of a file take their indices from its body.                  *)
LEMMA PhasesOfJob ==
  ASSUME NEW j \in Jobs
  PROVE  /\ Transactional(j) \subseteq DOMAIN Body[j] /\ Autocommit(j) \subseteq DOMAIN Body[j]
         /\ Transactional(j) \cup Autocommit(j) = DOMAIN Body[j]
         /\ DOMAIN Body[j] \subseteq Indices
BY DEF Transactional, Autocommit, Indices

(* The type of the connection and of the database.                         *)
DbType ==
  /\ engine \in Engines
  /\ done \subseteq AllStatements /\ redone \subseteq done
  /\ dirty \subseteq AllStatements
  /\ history \subseteq Jobs /\ dirtyRows \subseteq Jobs
  /\ txn \in BOOLEAN

(* No operation of the migration connection leaves the type.               *)
LEMMA ConnectionType ==
  ASSUME DbType
  PROVE  /\ CommitConnection => DbType'
         /\ RollbackConnection => DbType'
         /\ \A s \in AllStatements : Execute(s) => DbType'
         /\ \A j \in Jobs : InsertRow(j) => DbType'
         /\ \A s \in AllStatements : Persist({s}, {}) /\ UNCHANGED conn => DbType'
         /\ UNCHANGED <<db, conn>> => DbType'
<1>1. CommitConnection => DbType'
  BY PersistType DEF CommitConnection, DbType
<1>2. RollbackConnection => DbType'
  BY DEF RollbackConnection, DbType, db
<1>3. \A s \in AllStatements : Execute(s) => DbType'
  <2> SUFFICES ASSUME NEW s \in AllStatements, Execute(s) PROVE DbType'
    OBVIOUS
  <2>1. CASE dirty' = dirty \cup {s} /\ txn' = (engine = "sqlite") /\ UNCHANGED <<db, dirtyRows>>
    BY <2>1 DEF DbType, db
  <2>2. CASE Persist({s}, {}) /\ UNCHANGED conn
    BY <2>2, PersistType DEF DbType, conn
  <2>3. CASE Persist(dirty \cup {s}, dirtyRows) /\ dirty' = {} /\ dirtyRows' = {} /\ UNCHANGED txn
    BY <2>3, PersistType DEF DbType
  <2> QED BY <2>1, <2>2, <2>3 DEF Execute
<1>4. \A j \in Jobs : InsertRow(j) => DbType'
  <2> SUFFICES ASSUME NEW j \in Jobs, InsertRow(j) PROVE DbType'
    OBVIOUS
  <2>1. CASE engine = "clickhouse"
    BY <2>1, PersistType DEF InsertRow, DbType, conn
  <2>2. CASE engine # "clickhouse"
    BY <2>2 DEF InsertRow, DbType, db
  <2> QED BY <2>1, <2>2
<1>5. \A s \in AllStatements : Persist({s}, {}) /\ UNCHANGED conn => DbType'
  BY PersistType DEF DbType, conn
<1>6. UNCHANGED <<db, conn>> => DbType'
  BY DEF DbType, db, conn
<1> QED BY <1>1, <1>2, <1>3, <1>4, <1>5, <1>6

(* The type of everything else.                                            *)
RunType ==
  /\ pc \in PCs
  /\ plan \subseteq Jobs /\ asked \subseteq Jobs /\ existing \subseteq Jobs
  /\ seen \subseteq {Checksum[j] : j \in Jobs}
  /\ job \in Jobs \cup {0} /\ todo \subseteq Indices
  /\ pc \in {"txn", "inner", "commit", "tail"} =>
       job \in Jobs /\ todo \subseteq DOMAIN Body[job]
  /\ outcome \in {"none", "ok", "failed", "crashed"}
  /\ runs \in 0 .. MaxRuns /\ faults \in 0 .. MaxFaults

LEMMA TypeOKSplit == TypeOK <=> DbType /\ RunType
BY DEF TypeOK, DbType, RunType

(* Returning to the loop keeps the type of the run.                        *)
LEMMA JobDoneType ==
  ASSUME RunType, job \in Jobs, JobDone
  PROVE  /\ pc' \in {"versions", "repeatables"}
         /\ plan' \subseteq Jobs /\ asked' \subseteq Jobs /\ existing' \subseteq Jobs
         /\ seen' \subseteq {Checksum[j] : j \in Jobs}
BY DEF RunType, JobDone

(* Every variable keeps its type (all of MigrationRun).                    *)
THEOREM TypeCorrect == Spec => []TypeOK
<1>1. Init => TypeOK
  <2> SUFFICES ASSUME Init PROVE DbType /\ RunType
    BY TypeOKSplit
  <2>1. DbType BY DEF Init, DbType
  <2>2. RunType BY BoundsAssumption DEF Init, RunType, PCs
  <2> QED BY <2>1, <2>2
<1>2. TypeOK /\ [Next]_vars => TypeOK'
  <2> SUFFICES ASSUME DbType, RunType, [Next]_vars PROVE DbType' /\ RunType'
    BY TypeOKSplit DEF TypeOK, DbType, RunType
  <2> USE DEF PCs
  <2>1. CASE StartRun
    BY <2>1, BoundsAssumption DEF StartRun, DbType, RunType, db, cursor
  <2>2. CASE LoadHistory
    <3>1. DbType' BY <2>2, ConnectionType DEF LoadHistory
    <3>2. asked' \subseteq Jobs BY <2>2 DEF LoadHistory, Versioned, Repeatable
    <3>3. seen' \subseteq {Checksum[j] : j \in Jobs}
      BY <2>2 DEF LoadHistory, DbType
    <3> QED BY <2>2, <3>1, <3>2, <3>3 DEF LoadHistory, RunType, cursor
  <2>3. ASSUME NEW v \in Versioned, SkipApplied(v) \/ StartVersion(v) PROVE DbType' /\ RunType'
    <3> v \in Jobs BY DEF Versioned
    <3>1. CASE SkipApplied(v)
      BY <3>1, ConnectionType DEF SkipApplied, RunType, cursor, NextVersion
    <3>2. CASE StartVersion(v)
      BY <3>2, ConnectionType, PhasesOfJob DEF StartVersion, RunType, run, NextVersion
    <3> QED BY <2>3, <3>1, <3>2
  <2>4. CASE ReadRunsAlways
    BY <2>4, ConnectionType DEF ReadRunsAlways, RunType, cursor, DbType
  <2>5. ASSUME NEW j \in Repeatable, StartRepeatable(j) PROVE DbType' /\ RunType'
    <3> j \in Jobs BY DEF Repeatable
    <3> QED BY <2>5, ConnectionType, PhasesOfJob DEF StartRepeatable, RunType, run
  <2>6. ASSUME NEW k \in Indices, ExecStatement(k) PROVE DbType' /\ RunType'
    <3>1. job \in Jobs /\ k \in DOMAIN Body[job]
      BY <2>6 DEF ExecStatement, NextIndex, RunType
    <3>2. DbType' BY <2>6, <3>1, StatementsOfJob, ConnectionType DEF ExecStatement
    <3> QED BY <2>6, <3>1, <3>2 DEF ExecStatement, RunType, run
  <2>7. ASSUME NEW k \in Indices, ExecAutocommit(k) PROVE DbType' /\ RunType'
    <3>1. job \in Jobs /\ k \in DOMAIN Body[job]
      BY <2>7 DEF ExecAutocommit, NextIndex, RunType
    <3>2. DbType' BY <2>7, <3>1, StatementsOfJob, ConnectionType DEF ExecAutocommit
    <3> QED BY <2>7, <3>1, <3>2 DEF ExecAutocommit, RunType, run
  <2>8. CASE RecordWithStatements
    BY <2>8, ConnectionType DEF RecordWithStatements, RunType, run, cursor
  <2>9. CASE CommitBeforeAutocommit
    BY <2>9, ConnectionType, PhasesOfJob DEF CommitBeforeAutocommit, RunType, run
  <2>10. CASE StartInnerAutocommit
    BY <2>10, ConnectionType, PhasesOfJob DEF StartInnerAutocommit, RunType, run
  <2>11. CASE InnerRecord
    BY <2>11, ConnectionType DEF InnerRecord, RunType, run, cursor
  <2>12. CASE Commit
    <3>1. job \in Jobs BY <2>12 DEF Commit, RunType
    <3>2. DbType' BY <2>12, ConnectionType DEF Commit
    <3>3. CASE Autocommit(job) = {}
      BY <2>12, <3>1, <3>2, <3>3, JobDoneType DEF Commit, RunType
    <3>4. CASE Autocommit(job) # {}
      BY <2>12, <3>1, <3>2, <3>4, PhasesOfJob DEF Commit, RunType, run
    <3> QED BY <3>3, <3>4
  <2>13. CASE TailRecord
    <3>1. job \in Jobs BY <2>13 DEF TailRecord, RunType
    <3> QED BY <2>13, <3>1, ConnectionType, JobDoneType DEF TailRecord, RunType, cursor
  <2>14. CASE FinishRun
    BY <2>14, ConnectionType DEF FinishRun, RunType, run, cursor
  <2>15. CASE CloseConnection
    BY <2>15, ConnectionType DEF CloseConnection, RunType, run, cursor
  <2>16. CASE FailStatement
    BY <2>16, ConnectionType, BoundsAssumption DEF FailStatement, RunType, run, cursor
  <2>17. CASE Abort
    BY <2>17, ConnectionType, BoundsAssumption DEF Abort, RunType, run, cursor
  <2>18. CASE Crash
    BY <2>18, ConnectionType, BoundsAssumption DEF Crash, RunType, run, cursor
  <2>19. CASE UNCHANGED vars
    BY <2>19, ConnectionType DEF vars, RunType, run, cursor
  <2> QED
    BY <2>1, <2>2, <2>3, <2>4, <2>5, <2>6, <2>7, <2>8, <2>9, <2>10, <2>11, <2>12,
       <2>13, <2>14, <2>15, <2>16, <2>17, <2>18, <2>19
       DEF Next, Progress, Versions, Repeats, Apply
<1> QED BY <1>1, <1>2, PTL DEF Spec

-----------------------------------------------------------------------------
(***************************************************************************)
(* The history never claims more than was executed.                        *)
(*                                                                         *)
(* RecordedImpliesExecuted is not inductive: a row becomes durable by a    *)
(* commit, so uncommitted rows must be backed by statements that are       *)
(* durable or will become so with them; and a row is written when the      *)
(* cursor has passed every statement, so the cursor must account for them. *)
(***************************************************************************)

(* Rows are backed: committed ones by durable statements, the others by    *)
(* statements the same commit makes durable.  ClickHouse commits a row at  *)
(* once, so nothing may be waiting there.                                  *)
RowsBacked ==
  /\ \A j \in history : Statements(j) \subseteq done
  /\ \A j \in dirtyRows : Statements(j) \subseteq Written
  /\ engine = "clickhouse" => dirty = {}

(* The cursor tells which statements of the current file were executed.    *)
CursorMeans(where, left, written) ==
  /\ where = "txn" =>
       /\ left \subseteq Transactional(job)
       /\ \A k \in Transactional(job) \ left : <<job, k>> \in written
  /\ where \in {"inner", "tail"} =>
       /\ left \subseteq Autocommit(job)
       /\ \A k \in DOMAIN Body[job] \ left : <<job, k>> \in written
  /\ where = "commit" => Statements(job) \subseteq written

RecordInv == TypeOK /\ RowsBacked /\ CursorMeans(pc, todo, Written)

(* What each operation of the migration connection does to the rows.  A    *)
(* rollback is the only one that forgets a statement.                      *)
LEMMA ConnectionBacked ==
  ASSUME RowsBacked
  PROVE  /\ CommitConnection => RowsBacked' /\ Written' = Written
         /\ RollbackConnection => RowsBacked'
         /\ \A s : Execute(s) => RowsBacked' /\ Written' = Written \cup {s}
         /\ \A j : InsertRow(j) /\ Statements(j) \subseteq Written =>
                    RowsBacked' /\ Written' = Written
         /\ \A s : Persist({s}, {}) /\ UNCHANGED conn =>
                    RowsBacked' /\ Written' = Written \cup {s}
         /\ UNCHANGED <<db, conn>> => RowsBacked' /\ Written' = Written
<1> USE DEF RowsBacked, Written, Statements
<1>1. CommitConnection => RowsBacked' /\ Written' = Written
  BY DEF CommitConnection, Persist
<1>2. RollbackConnection => RowsBacked'
  BY DEF RollbackConnection, db
<1>3. \A s : Execute(s) => RowsBacked' /\ Written' = Written \cup {s}
  <2> SUFFICES ASSUME NEW s, Execute(s) PROVE RowsBacked' /\ Written' = Written \cup {s}
    OBVIOUS
  <2>1. CASE /\ engine # "clickhouse"
             /\ dirty' = dirty \cup {s} /\ UNCHANGED <<db, dirtyRows>>
    BY <2>1 DEF db
  <2>2. CASE Persist({s}, {}) /\ UNCHANGED conn
    BY <2>2 DEF Persist, conn
  <2>3. CASE Persist(dirty \cup {s}, dirtyRows) /\ dirty' = {} /\ dirtyRows' = {}
    BY <2>3 DEF Persist
  <2> QED BY <2>1, <2>2, <2>3 DEF Execute
<1>4. \A j : InsertRow(j) /\ Statements(j) \subseteq Written => RowsBacked' /\ Written' = Written
  <2> SUFFICES ASSUME NEW j, InsertRow(j), Statements(j) \subseteq Written
               PROVE  RowsBacked' /\ Written' = Written
    OBVIOUS
  <2>1. CASE engine = "clickhouse"
    BY <2>1 DEF InsertRow, Persist, conn
  <2>2. CASE engine # "clickhouse"
    BY <2>2 DEF InsertRow, db
  <2> QED BY <2>1, <2>2
<1>5. \A s : Persist({s}, {}) /\ UNCHANGED conn => RowsBacked' /\ Written' = Written \cup {s}
  BY DEF Persist, conn
<1>6. UNCHANGED <<db, conn>> => RowsBacked' /\ Written' = Written
  BY DEF db, conn
<1> QED BY <1>1, <1>2, <1>3, <1>4, <1>5, <1>6

(* Every statement before the record: the cursor has passed the file.      *)
LEMMA AllExecuted ==
  ASSUME RecordInv, todo = {},
         (pc = "txn" /\ Autocommit(job) = {}) \/ pc \in {"inner", "tail"}
  PROVE  Statements(job) \subseteq Written
<1>1. job \in Jobs BY DEF RecordInv, TypeOK
<1>2. \A k \in DOMAIN Body[job] : <<job, k>> \in Written
  BY <1>1, PhasesOfJob DEF RecordInv, CursorMeans
<1> QED BY <1>2 DEF Statements

(* A committed history row means that every statement of the file is       *)
(* durable (run_migration, run_repeatable_migration and the close or the   *)
(* crash that may follow any of their steps).                              *)
THEOREM RecordedStatementsDurable == Spec => []RecordedImpliesExecuted
<1>1. Init => RowsBacked /\ CursorMeans(pc, todo, Written)
  BY DEF Init, RowsBacked, CursorMeans
<1>2. RecordInv /\ [Next]_vars => RowsBacked' /\ CursorMeans(pc, todo, Written)'
  <2> SUFFICES ASSUME RecordInv, [Next]_vars
               PROVE  RowsBacked' /\ CursorMeans(pc, todo, Written)'
    OBVIOUS
  <2>0. TypeOK /\ RowsBacked /\ CursorMeans(pc, todo, Written)
    BY DEF RecordInv
  <2>a. pc' \in {"idle", "load", "versions", "repeatables", "close"} =>
          CursorMeans(pc, todo, Written)'
    BY DEF CursorMeans
  <2>1. CASE StartRun
    BY <2>1, <2>0, <2>a DEF StartRun, RowsBacked, Written, db
  <2>2. CASE LoadHistory
    BY <2>2, <2>0, <2>a, ConnectionBacked DEF LoadHistory
  <2>3. ASSUME NEW v \in Versioned, SkipApplied(v) \/ StartVersion(v)
        PROVE  RowsBacked' /\ CursorMeans(pc, todo, Written)'
    <3>1. CASE SkipApplied(v)
      BY <3>1, <2>0, <2>a, ConnectionBacked DEF SkipApplied, NextVersion
    <3>2. CASE StartVersion(v)
      BY <3>2, <2>0, ConnectionBacked DEF StartVersion, CursorMeans
    <3> QED BY <2>3, <3>1, <3>2
  <2>4. CASE ReadRunsAlways
    BY <2>4, <2>0, <2>a, ConnectionBacked DEF ReadRunsAlways
  <2>5. ASSUME NEW j \in Repeatable, StartRepeatable(j)
        PROVE  RowsBacked' /\ CursorMeans(pc, todo, Written)'
    BY <2>5, <2>0, ConnectionBacked DEF StartRepeatable, CursorMeans
  <2>6. ASSUME NEW k \in Indices, ExecStatement(k)
        PROVE  RowsBacked' /\ CursorMeans(pc, todo, Written)'
    <3>1. RowsBacked' /\ Written' = Written \cup {<<job, k>>}
      BY <2>6, <2>0, ConnectionBacked DEF ExecStatement
    <3> QED BY <2>6, <2>0, <3>1 DEF ExecStatement, CursorMeans
  <2>7. ASSUME NEW k \in Indices, ExecAutocommit(k)
        PROVE  RowsBacked' /\ CursorMeans(pc, todo, Written)'
    <3>1. RowsBacked' /\ Written' = Written \cup {<<job, k>>}
      BY <2>7, <2>0, ConnectionBacked DEF ExecAutocommit
    <3> QED BY <2>7, <2>0, <3>1 DEF ExecAutocommit, CursorMeans
  <2>8. CASE RecordWithStatements
    <3>1. Statements(job) \subseteq Written
      BY <2>8, AllExecuted DEF RecordWithStatements
    <3>2. RowsBacked' /\ Written' = Written
      BY <2>8, <2>0, <3>1, ConnectionBacked DEF RecordWithStatements
    <3> QED BY <2>8, <3>1, <3>2 DEF RecordWithStatements, CursorMeans, cursor
  <2>9. CASE CommitBeforeAutocommit
    <3>1. RowsBacked' /\ Written' = Written
      BY <2>9, <2>0, ConnectionBacked DEF CommitBeforeAutocommit
    <3>2. job \in Jobs BY <2>9, <2>0 DEF CommitBeforeAutocommit, TypeOK
    <3>3. \A k \in DOMAIN Body[job] \ Autocommit(job) : <<job, k>> \in Written
      BY <2>9, <2>0, <3>2, PhasesOfJob DEF CommitBeforeAutocommit, CursorMeans
    <3> QED BY <2>9, <3>1, <3>3 DEF CommitBeforeAutocommit, CursorMeans
  <2>10. CASE StartInnerAutocommit
    <3>1. RowsBacked' /\ Written' = Written
      BY <2>10, <2>0, ConnectionBacked DEF StartInnerAutocommit
    <3>2. job \in Jobs BY <2>10, <2>0 DEF StartInnerAutocommit, TypeOK
    <3>3. \A k \in DOMAIN Body[job] \ Autocommit(job) : <<job, k>> \in Written
      BY <2>10, <2>0, <3>2, PhasesOfJob DEF StartInnerAutocommit, CursorMeans
    <3> QED BY <2>10, <3>1, <3>3 DEF StartInnerAutocommit, CursorMeans
  <2>11. CASE InnerRecord
    <3>1. Statements(job) \subseteq Written
      BY <2>11, AllExecuted DEF InnerRecord
    <3>2. RowsBacked' /\ Written' = Written
      BY <2>11, <2>0, <3>1, ConnectionBacked DEF InnerRecord
    <3> QED BY <2>11, <3>1, <3>2 DEF InnerRecord, CursorMeans, cursor
  <2>12. CASE Commit
    <3>1. RowsBacked' /\ Written' = Written
      BY <2>12, <2>0, ConnectionBacked DEF Commit
    <3>2. CASE Autocommit(job) = {}
      BY <2>12, <2>a, <3>1, <3>2 DEF Commit, JobDone
    <3>3. CASE Autocommit(job) # {}
      <4>1. \A k \in DOMAIN Body[job] : <<job, k>> \in Written
        BY <2>12, <2>0 DEF Commit, CursorMeans, Statements
      <4> QED BY <2>12, <3>1, <3>3, <4>1 DEF Commit, CursorMeans
    <3> QED BY <3>2, <3>3
  <2>13. CASE TailRecord
    <3>1. Statements(job) \subseteq Written
      BY <2>13, AllExecuted DEF TailRecord
    <3> QED BY <2>13, <2>0, <2>a, <3>1, ConnectionBacked DEF TailRecord, JobDone
  <2>14. CASE FinishRun
    BY <2>14, <2>0, <2>a, ConnectionBacked DEF FinishRun
  <2>15. CASE CloseConnection
    BY <2>15, <2>0, <2>a, ConnectionBacked DEF CloseConnection
  <2>16. CASE FailStatement
    BY <2>16, <2>0, <2>a, ConnectionBacked DEF FailStatement
  <2>17. CASE Abort
    BY <2>17, <2>0, <2>a, ConnectionBacked DEF Abort
  <2>18. CASE Crash
    BY <2>18, <2>0, <2>a, ConnectionBacked DEF Crash
  <2>19. CASE UNCHANGED vars
    BY <2>19, <2>0, ConnectionBacked DEF vars, CursorMeans, cursor
  <2> QED
    BY <2>1, <2>2, <2>3, <2>4, <2>5, <2>6, <2>7, <2>8, <2>9, <2>10, <2>11, <2>12,
       <2>13, <2>14, <2>15, <2>16, <2>17, <2>18, <2>19
       DEF Next, Progress, Versions, Repeats, Apply
<1>3. RowsBacked => RecordedImpliesExecuted
  BY DEF RowsBacked, RecordedImpliesExecuted
<1> QED BY <1>1, <1>2, <1>3, TypeCorrect, PTL DEF Spec, RecordInv

-----------------------------------------------------------------------------
(***************************************************************************)
(* Versions are recorded without gaps.                                     *)
(*                                                                         *)
(* HistoryIsPrefix is not inductive: a row may become durable with the     *)
(* commit of a later file, and what keeps a later file from overtaking is  *)
(* the order in which the run takes its plan.                              *)
(***************************************************************************)

Rows == history \cup dirtyRows

(* A version is recorded, or skipped for the checksum of a recorded file.  *)
Covered(v, rows) == v \in rows \/ \E u \in rows : Checksum[u] = Checksum[v]

Prefix(rows) ==
  \A v, w \in Versioned : v < w /\ w \in rows => Covered(v, rows)

(* Every version before j is.                                              *)
EarlierCovered(j) ==
  j \in Versioned => \A v \in Versioned : v < j => Covered(v, Rows)

(* Where the run relies on what it has read and done.                      *)
InLoop == pc \in {"versions", "repeatables", "txn", "inner", "commit", "tail"}

(* What the run has passed is covered; the file in hand comes before the   *)
(* rest of the plan, and after everything else.                            *)
PlanOrdered ==
  /\ \A v, w \in Versioned : v < w /\ w \in plan => v \in plan \/ Covered(v, Rows)
  /\ pc \in {"txn", "inner", "commit", "tail"} => EarlierCovered(job)
  /\ pc = "commit" => job \in Rows
  /\ seen \subseteq {Checksum[j] : j \in Rows}

RowsOrdered ==
  /\ Prefix(history) /\ Prefix(Rows)
  /\ engine = "clickhouse" => dirtyRows = {}

PrefixInv == RowsOrdered /\ (InLoop => PlanOrdered)

(* A version stays covered as rows are added.                              *)
LEMMA CoveredGrows ==
  ASSUME NEW v, NEW small, NEW large, small \subseteq large, Covered(v, small)
  PROVE  Covered(v, large)
BY DEF Covered

(* A row may be added once every earlier version is covered.               *)
LEMMA PrefixGrows ==
  ASSUME NEW j, NEW rows, Prefix(rows),
         j \in Versioned => \A v \in Versioned : v < j => Covered(v, rows)
  PROVE  Prefix(rows \cup {j})
<1> SUFFICES ASSUME NEW v \in Versioned, NEW w \in Versioned, v < w, w \in rows \cup {j}
             PROVE  Covered(v, rows \cup {j})
  BY DEF Prefix
<1>1. Covered(v, rows) BY DEF Prefix
<1> QED BY <1>1, CoveredGrows

(* What each operation of the migration connection does to the rows.  Only *)
(* a record adds one, and only a rollback forgets some.                    *)
LEMMA ConnectionOrdered ==
  ASSUME RowsOrdered
  PROVE  /\ CommitConnection => RowsOrdered' /\ Rows' = Rows
         /\ RollbackConnection => RowsOrdered'
         /\ \A s : Execute(s) => RowsOrdered' /\ Rows' = Rows
         /\ \A j : InsertRow(j) /\ EarlierCovered(j) => RowsOrdered' /\ Rows' = Rows \cup {j}
         /\ \A s : Persist({s}, {}) /\ UNCHANGED conn => RowsOrdered' /\ Rows' = Rows
         /\ UNCHANGED <<db, conn>> => RowsOrdered' /\ Rows' = Rows
<1>a. ASSUME history' = Rows, dirtyRows' = {} PROVE RowsOrdered' /\ Rows' = Rows
  BY <1>a DEF RowsOrdered, Rows, Prefix, Covered
<1>b. ASSUME history' = history, dirtyRows' = dirtyRows, engine' = engine
      PROVE  RowsOrdered' /\ Rows' = Rows
  BY <1>b DEF RowsOrdered, Rows, Prefix, Covered
<1>1. CommitConnection => RowsOrdered' /\ Rows' = Rows
  BY <1>a DEF CommitConnection, Persist, Rows
<1>2. RollbackConnection => RowsOrdered'
  BY DEF RollbackConnection, db, RowsOrdered, Rows, Prefix, Covered
<1>3. \A s : Execute(s) => RowsOrdered' /\ Rows' = Rows
  <2> SUFFICES ASSUME NEW s, Execute(s) PROVE RowsOrdered' /\ Rows' = Rows
    OBVIOUS
  <2>1. CASE UNCHANGED <<db, dirtyRows>>
    BY <2>1, <1>b DEF db
  <2>2. CASE Persist({s}, {}) /\ UNCHANGED conn
    BY <2>2, <1>b DEF Persist, conn
  <2>3. CASE Persist(dirty \cup {s}, dirtyRows) /\ dirtyRows' = {}
    BY <2>3, <1>a DEF Persist, Rows
  <2> QED BY <2>1, <2>2, <2>3 DEF Execute
<1>4. \A j : InsertRow(j) /\ EarlierCovered(j) => RowsOrdered' /\ Rows' = Rows \cup {j}
  <2> SUFFICES ASSUME NEW j, InsertRow(j), EarlierCovered(j)
               PROVE  RowsOrdered' /\ Rows' = Rows \cup {j}
    OBVIOUS
  <2>0. Prefix(Rows \cup {j}) BY PrefixGrows DEF RowsOrdered, EarlierCovered
  <2>1. CASE engine = "clickhouse"
    <3>1. dirtyRows = {} /\ dirtyRows' = {} /\ history' = history \cup {j} /\ engine' = engine
      BY <2>1 DEF InsertRow, Persist, conn, RowsOrdered
    <3>2. Rows' = Rows \cup {j} /\ history' = Rows \cup {j} BY <3>1 DEF Rows
    <3> QED BY <2>0, <3>1, <3>2 DEF RowsOrdered, Prefix, Covered
  <2>2. CASE engine # "clickhouse"
    <3>1. dirtyRows' = dirtyRows \cup {j} /\ history' = history /\ engine' = engine
      BY <2>2 DEF InsertRow, db
    <3>2. Rows' = Rows \cup {j} BY <3>1 DEF Rows
    <3> QED BY <2>0, <2>2, <3>1, <3>2 DEF RowsOrdered, Prefix, Covered
  <2> QED BY <2>1, <2>2
<1>5. \A s : Persist({s}, {}) /\ UNCHANGED conn => RowsOrdered' /\ Rows' = Rows
  BY <1>b DEF Persist, conn
<1>6. UNCHANGED <<db, conn>> => RowsOrdered' /\ Rows' = Rows
  BY <1>b DEF db, conn
<1> QED BY <1>1, <1>2, <1>3, <1>4, <1>5, <1>6

(* Back in the loop, the file is recorded and leaves the plan.             *)
LEMMA JobDoneOrdered ==
  ASSUME PlanOrdered, JobDone, UNCHANGED job, Rows \subseteq Rows', job \in Rows'
  PROVE  PlanOrdered'
<1>1. pc' \in {"versions", "repeatables"} /\ plan' = plan \ {job}
  BY DEF JobDone
<1>2. seen' \subseteq seen \cup {Checksum[job]}
  BY DEF JobDone
<1>3. seen' \subseteq {Checksum[j] : j \in Rows'}
  BY <1>2 DEF PlanOrdered
<1>4. \A v, w \in Versioned : v < w /\ w \in plan' => v \in plan' \/ Covered(v, Rows')
  BY <1>1 DEF PlanOrdered, Covered
<1> QED BY <1>1, <1>3, <1>4 DEF PlanOrdered

(* Versions are recorded without gaps (_run_versioned_migrations and what  *)
(* run_migration leaves to a later commit), whatever failed or crashed.    *)
THEOREM VersionsRecordedInOrder == Spec => []HistoryIsPrefix
<1>1. Init => PrefixInv
  BY DEF Init, PrefixInv, RowsOrdered, InLoop, Prefix, Rows
<1>2. PrefixInv /\ [Next]_vars => PrefixInv'
  <2> SUFFICES ASSUME RowsOrdered, InLoop => PlanOrdered, [Next]_vars
               PROVE  RowsOrdered' /\ (InLoop => PlanOrdered)'
    BY DEF PrefixInv
  <2>a. pc' \in {"idle", "load", "close"} => (InLoop => PlanOrdered)'
    BY DEF InLoop
  <2>1. CASE StartRun
    BY <2>1, <2>a DEF StartRun, RowsOrdered, Rows, Prefix, Covered, db
  <2>2. CASE LoadHistory
    <3>1. RowsOrdered' /\ Rows' = Rows BY <2>2, ConnectionOrdered DEF LoadHistory
    <3>2. \A v, w \in Versioned : v < w /\ w \in plan' => v \in plan' \/ v \in history
      <4> SUFFICES ASSUME NEW v \in Versioned, NEW w \in Versioned, v < w, w \in plan',
                          v \notin history
                   PROVE  v \in plan'
        OBVIOUS
      <4>1. PICK to \in 0 .. NumJobs :
              /\ {x \in Versioned \ history : x <= to} \subseteq plan'
              /\ \A x \in plan' \cap Versioned : x <= to
        BY <2>2 DEF LoadHistory, Repeatable
      <4>2. v \in Int /\ w \in Int /\ to \in Int
        BY JobsAssumption DEF Versioned, Jobs
      <4> QED BY <4>1, <4>2
    <3>3. pc' = "versions" /\ seen' \subseteq {Checksum[j] : j \in Rows}
      BY <2>2 DEF LoadHistory, Rows
    <3> QED BY <3>1, <3>2, <3>3 DEF PlanOrdered, Covered, Rows
  <2>3. ASSUME NEW v \in Versioned, SkipApplied(v) \/ StartVersion(v)
        PROVE  RowsOrdered' /\ (InLoop => PlanOrdered)'
    <3>1. PlanOrdered BY <2>3 DEF SkipApplied, StartVersion, NextVersion, InLoop
    <3>2. RowsOrdered' /\ Rows' = Rows
      BY <2>3, ConnectionOrdered DEF SkipApplied, StartVersion
    <3>3. CASE SkipApplied(v)
      <4>1. Covered(v, Rows) BY <3>1, <3>3 DEF SkipApplied, PlanOrdered, Covered
      <4> QED BY <3>1, <3>2, <3>3, <4>1
              DEF SkipApplied, NextVersion, PlanOrdered, EarlierCovered, Covered
    <3>4. CASE StartVersion(v)
      <4>1. \A u \in Versioned : u < v => u \notin plan
        <5> SUFFICES ASSUME NEW u \in Versioned, u < v, u \in plan PROVE FALSE
          OBVIOUS
        <5>1. v <= u BY <3>4 DEF StartVersion, NextVersion
        <5>2. u \in Int /\ v \in Int BY JobsAssumption DEF Versioned, Jobs
        <5> QED BY <5>1, <5>2
      <4> QED BY <3>1, <3>2, <3>4, <4>1
              DEF StartVersion, NextVersion, run, PlanOrdered, EarlierCovered, Covered
    <3> QED BY <2>3, <3>3, <3>4
  <2>4. CASE ReadRunsAlways
    BY <2>4, ConnectionOrdered
       DEF ReadRunsAlways, InLoop, PlanOrdered, EarlierCovered, Covered
  <2>5. ASSUME NEW j \in Repeatable, StartRepeatable(j)
        PROVE  RowsOrdered' /\ (InLoop => PlanOrdered)'
    BY <2>5, ConnectionOrdered
       DEF StartRepeatable, InLoop, PlanOrdered, EarlierCovered, Covered, Repeatable, run
  <2>6. ASSUME NEW k \in Indices, ExecStatement(k) \/ ExecAutocommit(k)
        PROVE  RowsOrdered' /\ (InLoop => PlanOrdered)'
    <3>1. RowsOrdered' /\ Rows' = Rows
      BY <2>6, ConnectionOrdered DEF ExecStatement, ExecAutocommit
    <3>2. UNCHANGED <<plan, seen, job>> /\ pc' \in {"txn", "inner", "tail"} /\ pc' = pc
      BY <2>6 DEF ExecStatement, ExecAutocommit, run
    <3> QED BY <3>1, <3>2 DEF InLoop, PlanOrdered, EarlierCovered, Covered
  <2>7. CASE RecordWithStatements \/ InnerRecord
    <3>1. EarlierCovered(job) /\ PlanOrdered
      BY <2>7 DEF RecordWithStatements, InnerRecord, InLoop, PlanOrdered
    <3>2. RowsOrdered' /\ Rows' = Rows \cup {job}
      BY <2>7, <3>1, ConnectionOrdered DEF RecordWithStatements, InnerRecord
    <3>3. UNCHANGED <<plan, seen, job>> /\ pc' = "commit"
      BY <2>7 DEF RecordWithStatements, InnerRecord, run, cursor
    <3> QED BY <3>1, <3>2, <3>3 DEF PlanOrdered, EarlierCovered, Covered
  <2>8. CASE CommitBeforeAutocommit \/ StartInnerAutocommit
    <3>1. PlanOrdered
      BY <2>8 DEF CommitBeforeAutocommit, StartInnerAutocommit, InLoop
    <3>2. RowsOrdered' /\ Rows' = Rows
      BY <2>8, ConnectionOrdered DEF CommitBeforeAutocommit, StartInnerAutocommit
    <3>3. UNCHANGED <<plan, seen, job>> /\ pc = "txn" /\ pc' \in {"tail", "inner"}
      BY <2>8 DEF CommitBeforeAutocommit, StartInnerAutocommit, run
    <3> QED BY <3>1, <3>2, <3>3 DEF PlanOrdered, EarlierCovered, Covered
  <2>9. CASE Commit
    <3>1. PlanOrdered /\ job \in Rows BY <2>9 DEF Commit, InLoop, PlanOrdered
    <3>2. RowsOrdered' /\ Rows' = Rows BY <2>9, ConnectionOrdered DEF Commit
    <3>3. CASE Autocommit(job) = {}
      BY <2>9, <3>1, <3>2, <3>3, JobDoneOrdered DEF Commit
    <3>4. CASE Autocommit(job) # {}
      BY <2>9, <3>1, <3>2, <3>4 DEF Commit, run, PlanOrdered, EarlierCovered, Covered
    <3> QED BY <3>3, <3>4
  <2>10. CASE TailRecord
    <3>1. PlanOrdered /\ EarlierCovered(job) BY <2>10 DEF TailRecord, InLoop, PlanOrdered
    <3>2. RowsOrdered' /\ Rows' = Rows \cup {job}
      BY <2>10, <3>1, ConnectionOrdered DEF TailRecord
    <3> QED BY <2>10, <3>1, <3>2, JobDoneOrdered DEF TailRecord, cursor
  <2>11. CASE FinishRun \/ Abort
    BY <2>11, <2>a, ConnectionOrdered DEF FinishRun, Abort
  <2>12. CASE CloseConnection \/ Crash
    BY <2>12, <2>a, ConnectionOrdered DEF CloseConnection, Crash
  <2>13. CASE FailStatement
    BY <2>13, <2>a, ConnectionOrdered DEF FailStatement
  <2>14. CASE UNCHANGED vars
    BY <2>14, ConnectionOrdered
       DEF vars, run, cursor, InLoop, PlanOrdered, EarlierCovered, Covered
  <2> QED
    BY <2>1, <2>2, <2>3, <2>4, <2>5, <2>6, <2>7, <2>8, <2>9, <2>10, <2>11, <2>12,
       <2>13, <2>14
       DEF Next, Progress, Versions, Repeats, Apply
<1>3. PrefixInv => HistoryIsPrefix
  BY DEF PrefixInv, RowsOrdered, Prefix, Covered, HistoryIsPrefix
<1> QED BY <1>1, <1>2, <1>3, PTL DEF Spec

-----------------------------------------------------------------------------
(***************************************************************************)
(* A recorded version is never executed again.                             *)
(***************************************************************************)

(* What is uncommitted belongs to no recorded version.                     *)
DirtyFresh ==
  /\ \A v \in Versioned \cap history : Statements(v) \cap dirty = {}
  /\ engine = "clickhouse" => dirty = {} /\ dirtyRows = {}

(* A run begins with an empty transaction; what it has planned, and what   *)
(* it has in hand before the record, has no row.                           *)
PlanFresh ==
  /\ pc \in {"idle", "load"} => dirtyRows = {}
  /\ InLoop => \A v \in plan \cap Versioned :
                  v \in Rows => v = job /\ pc \in {"commit", "tail"}
  /\ pc \in {"txn", "inner"} \/ (pc = "tail" /\ engine # "mysql") =>
       (job \in Versioned => job \notin Rows)

(* Only MySQL commits after it has run the autocommit statements.          *)
InnerIsMySql ==
  /\ pc = "inner" => engine = "mysql"
  /\ pc = "commit" => Autocommit(job) = {} \/ engine = "mysql"

FreshInv == DirtyFresh /\ PlanFresh /\ InnerIsMySql

LEMMA EngineKept == [Next]_vars => engine' = engine
<1> SUFFICES ASSUME [Next]_vars PROVE engine' = engine
  OBVIOUS
<1> USE DEF Persist, RollbackConnection, CommitConnection, db
<1>1. CASE \E k \in Indices : ExecStatement(k) \/ ExecAutocommit(k)
  BY <1>1 DEF ExecStatement, ExecAutocommit, Execute
<1>2. CASE RecordWithStatements \/ InnerRecord \/ TailRecord
  BY <1>2 DEF RecordWithStatements, InnerRecord, TailRecord, InsertRow
<1>3. CASE CommitBeforeAutocommit \/ StartInnerAutocommit \/ Commit
  BY <1>3 DEF CommitBeforeAutocommit, StartInnerAutocommit, Commit
<1>4. CASE LoadHistory \/ Versions \/ Repeats
  BY <1>4 DEF LoadHistory, Versions, Repeats, SkipApplied, StartVersion, ReadRunsAlways,
              StartRepeatable
<1>5. CASE StartRun \/ FinishRun \/ Abort \/ FailStatement \/ CloseConnection \/ Crash
  BY <1>5 DEF StartRun, FinishRun, Abort, FailStatement, CloseConnection, Crash
<1>6. CASE UNCHANGED vars
  BY <1>6 DEF vars
<1> QED BY <1>1, <1>2, <1>3, <1>4, <1>5, <1>6 DEF Next, Progress, Apply

LEMMA InnerStep == InnerIsMySql /\ [Next]_vars => InnerIsMySql'
<1> SUFFICES ASSUME InnerIsMySql, [Next]_vars PROVE InnerIsMySql'
  OBVIOUS
<1>1. engine' = engine
  BY EngineKept
<1> USE <1>1 DEF InnerIsMySql
<1>2. CASE \E k \in Indices : ExecStatement(k) \/ ExecAutocommit(k)
  BY <1>2 DEF ExecStatement, ExecAutocommit
<1>3. CASE RecordWithStatements \/ InnerRecord
  BY <1>3 DEF RecordWithStatements, InnerRecord, cursor
<1>4. CASE CommitBeforeAutocommit \/ StartInnerAutocommit \/ Commit \/ TailRecord
  BY <1>4 DEF CommitBeforeAutocommit, StartInnerAutocommit, Commit, TailRecord, JobDone
<1>5. CASE LoadHistory \/ Versions \/ Repeats
  BY <1>5 DEF LoadHistory, Versions, Repeats, SkipApplied, StartVersion, NextVersion,
              ReadRunsAlways, StartRepeatable
<1>6. CASE StartRun \/ FinishRun \/ Abort \/ FailStatement \/ CloseConnection \/ Crash
  BY <1>6 DEF StartRun, FinishRun, Abort, FailStatement, CloseConnection, Crash
<1>7. CASE UNCHANGED vars
  BY <1>7 DEF vars, cursor
<1> QED BY <1>2, <1>3, <1>4, <1>5, <1>6, <1>7 DEF Next, Progress, Apply

LEMMA ConnectionFresh ==
  ASSUME DirtyFresh
  PROVE  /\ CommitConnection => DirtyFresh' /\ Rows' = Rows
         /\ RollbackConnection => DirtyFresh' /\ Rows' \subseteq Rows /\ dirtyRows' = {}
         /\ \A j, k : Execute(<<j, k>>) /\ (j \in Versioned => j \notin Rows) =>
                       DirtyFresh' /\ Rows' = Rows
         /\ \A j : InsertRow(j) => DirtyFresh' /\ Rows' = Rows \cup {j}
         /\ \A s : Persist({s}, {}) /\ UNCHANGED conn => DirtyFresh' /\ Rows' = Rows
         /\ UNCHANGED <<db, conn>> => DirtyFresh' /\ Rows' = Rows
<1> USE DEF DirtyFresh, Rows
<1>1. CommitConnection => DirtyFresh' /\ Rows' = Rows
  BY DEF CommitConnection, Persist
<1>2. RollbackConnection => DirtyFresh' /\ Rows' \subseteq Rows /\ dirtyRows' = {}
  BY DEF RollbackConnection, db
<1>3. \A j, k : Execute(<<j, k>>) /\ (j \in Versioned => j \notin Rows) =>
                DirtyFresh' /\ Rows' = Rows
  <2> SUFFICES ASSUME NEW j, NEW k, Execute(<<j, k>>), j \in Versioned => j \notin Rows
               PROVE  DirtyFresh' /\ Rows' = Rows
    OBVIOUS
  <2>1. CASE engine # "clickhouse" /\ dirty' = dirty \cup {<<j, k>>} /\ UNCHANGED <<db, dirtyRows>>
    <3>1. \A v \in Versioned \cap history : <<j, k>> \notin Statements(v)
      BY DEF Statements
    <3> QED BY <2>1, <3>1 DEF db, Statements
  <2>2. CASE Persist({<<j, k>>}, {}) /\ UNCHANGED conn
    BY <2>2 DEF Persist, conn, Statements
  <2>3. CASE Persist(dirty \cup {<<j, k>>}, dirtyRows) /\ dirty' = {} /\ dirtyRows' = {}
    BY <2>3 DEF Persist, Statements
  <2> QED BY <2>1, <2>2, <2>3 DEF Execute
<1>4. \A j : InsertRow(j) => DirtyFresh' /\ Rows' = Rows \cup {j}
  <2> SUFFICES ASSUME NEW j, InsertRow(j) PROVE DirtyFresh' /\ Rows' = Rows \cup {j}
    OBVIOUS
  <2>1. CASE engine = "clickhouse"
    BY <2>1 DEF InsertRow, Persist, conn
  <2>2. CASE engine # "clickhouse"
    BY <2>2 DEF InsertRow, db, Statements
  <2> QED BY <2>1, <2>2
<1>5. \A s : Persist({s}, {}) /\ UNCHANGED conn => DirtyFresh' /\ Rows' = Rows
  BY DEF Persist, conn, Statements
<1>6. UNCHANGED <<db, conn>> => DirtyFresh' /\ Rows' = Rows
  BY DEF db, conn, Statements
<1> QED BY <1>1, <1>2, <1>3, <1>4, <1>5, <1>6

(* Where a step leaves the loop, nothing is claimed of the plan.           *)
LEMMA OutsideLoop ==
  ASSUME pc' \in {"idle", "load", "close"}, pc' # "close" => dirtyRows' = {}
  PROVE  PlanFresh'
BY DEF PlanFresh, InLoop

LEMMA JobDoneFresh ==
  ASSUME PlanFresh, JobDone, UNCHANGED job, pc \in {"commit", "tail"},
         Rows' \subseteq Rows \cup {job}
  PROVE  PlanFresh'
<1>1. pc' \in {"versions", "repeatables"} /\ plan' = plan \ {job}
  BY DEF JobDone
<1> QED BY <1>1 DEF PlanFresh, InLoop

LEMMA FreshStep == FreshInv /\ [Next]_vars => FreshInv'
<1> SUFFICES ASSUME DirtyFresh, PlanFresh, InnerIsMySql, [Next]_vars
             PROVE  DirtyFresh' /\ PlanFresh'
  BY InnerStep DEF FreshInv
<1>1. CASE StartRun
  <2>1. UNCHANGED <<db, dirty, dirtyRows>> /\ pc = "idle" /\ pc' = "load"
    BY <1>1 DEF StartRun
  <2>2. DirtyFresh'
    BY <2>1 DEF DirtyFresh, db, Statements
  <2>3. dirtyRows' = {}
    BY <2>1 DEF PlanFresh
  <2> QED BY <2>1, <2>2, <2>3, OutsideLoop
<1>2. CASE LoadHistory
  <2>1. DirtyFresh' /\ Rows' = Rows
    BY <1>2, ConnectionFresh DEF LoadHistory
  <2>2. Rows = history /\ plan' \cap Versioned \cap history = {}
    BY <1>2 DEF LoadHistory, PlanFresh, Rows, Repeatable
  <2> QED BY <1>2, <2>1, <2>2 DEF LoadHistory, PlanFresh
<1>3. ASSUME NEW v \in Versioned, SkipApplied(v) \/ StartVersion(v)
      PROVE  DirtyFresh' /\ PlanFresh'
  <2>1. DirtyFresh' /\ Rows' = Rows
    BY <1>3, ConnectionFresh DEF SkipApplied, StartVersion
  <2>2. v \notin Rows
    BY <1>3 DEF SkipApplied, StartVersion, NextVersion, PlanFresh, InLoop
  <2>3. CASE SkipApplied(v)
    BY <2>1, <2>3 DEF SkipApplied, NextVersion, PlanFresh, InLoop
  <2>4. CASE StartVersion(v)
    BY <2>1, <2>2, <2>4 DEF StartVersion, NextVersion, PlanFresh, InLoop, run
  <2> QED BY <1>3, <2>3, <2>4
<1>4. CASE ReadRunsAlways
  BY <1>4, ConnectionFresh DEF ReadRunsAlways, PlanFresh, InLoop
<1>5. ASSUME NEW j \in Repeatable, StartRepeatable(j) PROVE DirtyFresh' /\ PlanFresh'
  BY <1>5, ConnectionFresh DEF StartRepeatable, PlanFresh, InLoop, run, Repeatable
<1>6. ASSUME NEW k \in Indices, ExecStatement(k) PROVE DirtyFresh' /\ PlanFresh'
  <2>1. DirtyFresh' /\ Rows' = Rows
    BY <1>6, ConnectionFresh DEF ExecStatement, PlanFresh
  <2>2. pc = "txn" /\ UNCHANGED <<pc, plan, job>>
    BY <1>6 DEF ExecStatement, run
  <2> QED BY <2>1, <2>2 DEF PlanFresh, InLoop
<1>7. ASSUME NEW k \in Indices, ExecAutocommit(k) PROVE DirtyFresh' /\ PlanFresh'
  <2>1. DirtyFresh' /\ Rows' = Rows
    BY <1>7, ConnectionFresh DEF ExecAutocommit
  <2>2. UNCHANGED <<pc, plan, job, engine>> /\ pc \in {"inner", "tail"}
    BY <1>7 DEF ExecAutocommit, run, Persist
  <2> QED BY <2>1, <2>2 DEF PlanFresh, InLoop
<1>8. CASE RecordWithStatements \/ InnerRecord
  <2>1. DirtyFresh' /\ Rows' = Rows \cup {job}
    BY <1>8, ConnectionFresh DEF RecordWithStatements, InnerRecord
  <2>2. pc \in {"txn", "inner"} /\ pc' = "commit" /\ UNCHANGED <<plan, job>>
    BY <1>8 DEF RecordWithStatements, InnerRecord, run, cursor
  <2> QED BY <2>1, <2>2 DEF PlanFresh, InLoop
<1>9. CASE CommitBeforeAutocommit \/ StartInnerAutocommit
  <2>1. DirtyFresh' /\ Rows' = Rows
    BY <1>9, ConnectionFresh DEF CommitBeforeAutocommit, StartInnerAutocommit
  <2>2. pc = "txn" /\ pc' \in {"tail", "inner"} /\ UNCHANGED <<plan, job>>
    BY <1>9 DEF CommitBeforeAutocommit, StartInnerAutocommit, run
  <2> QED BY <2>1, <2>2 DEF PlanFresh, InLoop
<1>10. CASE Commit
  <2>1. DirtyFresh' /\ Rows' = Rows
    BY <1>10, ConnectionFresh DEF Commit
  <2>2. CASE Autocommit(job) = {}
    BY <1>10, <2>1, <2>2, JobDoneFresh DEF Commit
  <2>3. CASE Autocommit(job) # {}
    <3>1. pc = "commit" /\ pc' = "tail" /\ UNCHANGED <<plan, job>>
      BY <1>10, <2>3 DEF Commit, run
    <3>2. engine' = "mysql"
      BY <1>10, <2>3, EngineKept DEF Commit, InnerIsMySql
    <3> QED BY <2>1, <3>1, <3>2 DEF PlanFresh, InLoop
  <2> QED BY <2>1, <2>2, <2>3
<1>11. CASE TailRecord
  <2>1. DirtyFresh' /\ Rows' = Rows \cup {job}
    BY <1>11, ConnectionFresh DEF TailRecord
  <2> QED BY <1>11, <2>1, JobDoneFresh DEF TailRecord, cursor
<1>12. CASE FinishRun \/ Abort
  BY <1>12, ConnectionFresh, OutsideLoop DEF FinishRun, Abort
<1>13. CASE CloseConnection \/ Crash
  BY <1>13, ConnectionFresh, OutsideLoop DEF CloseConnection, Crash
<1>14. CASE FailStatement
  BY <1>14, ConnectionFresh, OutsideLoop DEF FailStatement
<1>15. CASE UNCHANGED vars
  <2>1. DirtyFresh' /\ Rows' = Rows
    BY <1>15, ConnectionFresh DEF vars
  <2> QED BY <1>15, <2>1 DEF vars, db, conn, run, cursor, PlanFresh, InLoop
<1> QED
  BY <1>1, <1>2, <1>3, <1>4, <1>5, <1>6, <1>7, <1>8, <1>9, <1>10, <1>11, <1>12, <1>13,
     <1>14, <1>15
     DEF Next, Progress, Versions, Repeats, Apply

(* What no recorded version has a part in leaves its statements as done as *)
(* they were.                                                              *)
LEMMA PersistOthers ==
  ASSUME NEW v, NEW stmts, NEW rows, Persist(stmts, rows), stmts \cap Statements(v) = {}
  PROVE  redone' \cap Statements(v) \subseteq redone
BY DEF Persist

LEMMA FreshMeans ==
  FreshInv /\ [Next]_vars =>
    \A v \in Versioned \cap history :
      \/ redone' \cap Statements(v) \subseteq redone
      \/ engine = "mysql" /\ pc = "tail" /\ v = job
<1> SUFFICES ASSUME FreshInv, [Next]_vars, NEW v \in Versioned \cap history,
                    ~(engine = "mysql" /\ pc = "tail" /\ v = job)
             PROVE  redone' \cap Statements(v) \subseteq redone
  OBVIOUS
<1>1. dirty \cap Statements(v) = {}
  BY DEF FreshInv, DirtyFresh
<1>2. pc \in {"txn", "inner", "tail"} =>
        \A k : <<job, k>> \notin Statements(v) /\ {<<job, k>>} \cap Statements(v) = {}
  BY DEF FreshInv, PlanFresh, Rows, Statements
<1>3. CommitConnection => redone' \cap Statements(v) \subseteq redone
  BY <1>1, PersistOthers DEF CommitConnection
<1>4. RollbackConnection \/ UNCHANGED db => redone' \cap Statements(v) \subseteq redone
  BY DEF RollbackConnection, db
<1>5. ASSUME NEW j, InsertRow(j) PROVE redone' \cap Statements(v) \subseteq redone
  BY <1>5, <1>4, PersistOthers DEF InsertRow
<1>6. ASSUME NEW k \in Indices, ExecStatement(k)
      PROVE  redone' \cap Statements(v) \subseteq redone
  <2>1. \A s : s = <<job, k>> => s \notin Statements(v)
    BY <1>2, <1>6 DEF ExecStatement
  <2>2. {<<job, k>>} \cap Statements(v) = {} /\ (dirty \cup {<<job, k>>}) \cap Statements(v) = {}
    BY <1>1, <2>1
  <2> QED BY <1>4, <1>6, <2>2, PersistOthers DEF ExecStatement, Execute, db
<1>7. ASSUME NEW k \in Indices, ExecAutocommit(k)
      PROVE  redone' \cap Statements(v) \subseteq redone
  BY <1>2, <1>7, PersistOthers DEF ExecAutocommit
<1>8. CASE RecordWithStatements \/ InnerRecord \/ TailRecord
  BY <1>5, <1>8 DEF RecordWithStatements, InnerRecord, TailRecord
<1>9. CASE CommitBeforeAutocommit \/ StartInnerAutocommit \/ Commit
  BY <1>3, <1>4, <1>9 DEF CommitBeforeAutocommit, StartInnerAutocommit, Commit, db
<1>10. CASE LoadHistory \/ Versions \/ Repeats
  BY <1>4, <1>10 DEF LoadHistory, Versions, Repeats, SkipApplied, StartVersion,
                     ReadRunsAlways, StartRepeatable, db
<1>11. CASE StartRun \/ FinishRun \/ Abort \/ FailStatement \/ CloseConnection \/ Crash
  BY <1>4, <1>11 DEF StartRun, FinishRun, Abort, FailStatement, CloseConnection, Crash, db
<1>12. CASE UNCHANGED vars
  BY <1>4, <1>12 DEF vars, db
<1> QED
  BY <1>6, <1>7, <1>8, <1>9, <1>10, <1>11, <1>12 DEF Next, Progress, Apply

(* Whatever fails or crashes, no run executes a statement of a version     *)
(* that has a committed row: a version is recorded on the connection that  *)
(* holds its statements, and the next history read sees the row; only on   *)
(* MySQL does the run itself repeat the autocommit statements of the file  *)
(* it has just recorded (migrate_single, run_migration).                   *)
THEOREM RecordedNeverReexecuted == Spec => NeverReapplied
<1>1. Init => FreshInv
  BY DEF Init, FreshInv, DirtyFresh, PlanFresh, InnerIsMySql, InLoop, Statements
<1>2. FreshInv /\ [Next]_vars => FreshInv'
  BY FreshStep
<1>3. FreshInv /\ [Next]_vars =>
        [\A v \in Versioned \cap history :
           \/ redone' \cap Statements(v) \subseteq redone
           \/ engine = "mysql" /\ pc = "tail" /\ v = job]_vars
  BY FreshMeans
<1> QED BY <1>1, <1>2, <1>3, PTL DEF Spec, NeverReapplied

-----------------------------------------------------------------------------
(***************************************************************************)
(* A run that reports success has recorded what it set out to apply.       *)
(*                                                                         *)
(* CompletedRunIsRecorded speaks of the moment after the close; what leads *)
(* there is that a file leaves the plan only when its row is durable, or   *)
(* is one of those that the close may lose, and that the checksums the run *)
(* skips by are those of such files.                                       *)
(***************************************************************************)

(* The files whose row the close does not lose.                            *)
Kept(j) == Autocommit(j) = {} /\ ~(engine = "mysql" /\ Kind[j] = "change")
Treated(j) == Kept(j) => \E u \in history : Checksum[u] = Checksum[j]

DoneInv ==
  /\ TypeOK
  /\ \A j \in asked \ plan : Treated(j)
  /\ \A v \in Versioned : Checksum[v] \in seen => Treated(v)
  /\ existing \subseteq history
  /\ pc = "commit" => job \in Rows
  /\ pc \in {"inner", "tail"} => Autocommit(job) # {}
  /\ outcome = "ok" => plan = {} /\ pc \in {"close", "idle"}

(* No step takes a committed row back.                                     *)
LEMMA HistoryGrows == [Next]_vars => history \subseteq history'
<1> SUFFICES ASSUME [Next]_vars PROVE history \subseteq history'
  OBVIOUS
<1>1. \A stmts, rows : Persist(stmts, rows) => history \subseteq history'
  BY DEF Persist
<1>2. UNCHANGED db => history \subseteq history'
  BY DEF db
<1>3. CommitConnection \/ RollbackConnection => history \subseteq history'
  BY <1>1, <1>2 DEF CommitConnection, RollbackConnection
<1>4. \A s : Execute(s) => history \subseteq history'
  BY <1>1, <1>2 DEF Execute
<1>5. \A j : InsertRow(j) => history \subseteq history'
  BY <1>1, <1>2 DEF InsertRow
<1>6. ASSUME NEW k \in Indices, ExecStatement(k) \/ ExecAutocommit(k)
      PROVE  history \subseteq history'
  BY <1>1, <1>4, <1>6 DEF ExecStatement, ExecAutocommit
<1>7. CASE RecordWithStatements \/ InnerRecord \/ TailRecord
  BY <1>5, <1>7 DEF RecordWithStatements, InnerRecord, TailRecord
<1>8. CASE CommitBeforeAutocommit \/ StartInnerAutocommit \/ Commit
  BY <1>2, <1>3, <1>8 DEF CommitBeforeAutocommit, StartInnerAutocommit, Commit, db
<1>9. CASE LoadHistory \/ Versions \/ Repeats
  BY <1>2, <1>9 DEF LoadHistory, Versions, Repeats, SkipApplied, StartVersion,
                    ReadRunsAlways, StartRepeatable, db
<1>10. CASE StartRun \/ FinishRun \/ Abort \/ FailStatement \/ CloseConnection \/ Crash
  BY <1>2, <1>3, <1>10 DEF StartRun, FinishRun, Abort, FailStatement, CloseConnection, Crash, db
<1>11. CASE UNCHANGED vars
  BY <1>2, <1>11 DEF vars, db
<1> QED BY <1>6, <1>7, <1>8, <1>9, <1>10, <1>11 DEF Next, Progress, Apply

LEMMA TreatedGrows == [Next]_vars => \A j : Treated(j) => Treated(j)'
BY HistoryGrows, EngineKept DEF Treated, Kept

(* The file in hand leaves the plan.                                       *)
LEMMA JobDoneTreated ==
  ASSUME DoneInv, [Next]_vars, job \in Jobs, JobDone, UNCHANGED job, Treated(job)'
  PROVE  /\ \A j \in asked' \ plan' : Treated(j)'
         /\ \A v \in Versioned : Checksum[v] \in seen' => Treated(v)'
         /\ existing' \subseteq history'
         /\ pc' \in {"versions", "repeatables"}
<1>1. \A j \in asked' \ plan' : j \in asked \ plan \/ j = job
  BY DEF JobDone
<1>2. \A j \in asked' \ plan' : Treated(j)'
  BY <1>1, TreatedGrows DEF DoneInv
<1>3. ASSUME NEW v \in Versioned, Checksum[v] \in seen' PROVE Treated(v)'
  <2>1. CASE Checksum[v] \in seen
    BY <2>1, TreatedGrows DEF DoneInv
  <2>2. CASE Checksum[v] = Checksum[job] /\ job \in Versioned
    <3>1. v \in Jobs /\ Kind[v] = "versioned" /\ Kind[job] = "versioned"
      BY <2>2 DEF Versioned
    <3>2. Autocommit(v) = {} => Autocommit(job) = {}
      BY <2>2, <3>1, ChecksumAssumption
    <3>3. Kept(v)' => Kept(job)'
      BY <3>1, <3>2 DEF Kept
    <3> QED BY <2>2, <3>3 DEF Treated
  <2> QED BY <1>3, <2>1, <2>2 DEF JobDone
<1>4. existing' \subseteq history'
  BY HistoryGrows DEF JobDone, DoneInv
<1> QED BY <1>2, <1>3, <1>4 DEF JobDone

(* A step that leaves what the run has read and set out to do as it is.    *)
LEMMA SameRunTreated ==
  ASSUME DoneInv, [Next]_vars, UNCHANGED <<asked, plan, seen, existing>>
  PROVE  /\ \A j \in asked' \ plan' : Treated(j)'
         /\ \A v \in Versioned : Checksum[v] \in seen' => Treated(v)'
         /\ existing' \subseteq history'
BY TreatedGrows, HistoryGrows DEF DoneInv

LEMMA InsertRowAdds ==
  ASSUME NEW j, InsertRow(j)
  PROVE  j \in Rows'
BY DEF InsertRow, Persist, Rows, conn

LEMMA DoneInvStep == DoneInv /\ TypeOK' /\ [Next]_vars => DoneInv'
<1> SUFFICES ASSUME DoneInv, TypeOK', [Next]_vars PROVE DoneInv'
  OBVIOUS
<1> DEFINE Rest == /\ \A j \in asked' \ plan' : Treated(j)'
                   /\ \A v \in Versioned : Checksum[v] \in seen' => Treated(v)'
                   /\ existing' \subseteq history'
<1>0. UNCHANGED run => Rest
  BY SameRunTreated DEF run
<1>a. Rest /\ pc' \notin {"commit", "inner", "tail"}
        /\ (outcome' = "ok" => plan' = {} /\ pc' \in {"close", "idle"}) => DoneInv'
  BY DEF DoneInv
<1>b. UNCHANGED outcome /\ pc \notin {"close", "idle"} => outcome' # "ok"
  BY DEF DoneInv
<1>1. CASE StartRun
  <2>1. Rest
    <3>1. asked' = {} /\ UNCHANGED <<seen, existing>>
      BY <1>1 DEF StartRun
    <3> QED BY <3>1, TreatedGrows, HistoryGrows DEF DoneInv
  <2> QED BY <1>1, <1>a, <2>1 DEF StartRun
<1>2. CASE LoadHistory
  <2>1. /\ plan' = asked' /\ seen' = {Checksum[j] : j \in history} /\ UNCHANGED existing
        /\ history' = history /\ pc = "load" /\ pc' = "versions" /\ UNCHANGED outcome
    BY <1>2 DEF LoadHistory, db
  <2>2. Rest
    <3>1. \A v \in Versioned : Checksum[v] \in seen' => Treated(v)'
      BY <2>1 DEF Treated
    <3> QED BY <2>1, <3>1 DEF DoneInv
  <2> QED BY <1>a, <1>b, <2>1, <2>2
<1>3. ASSUME NEW v \in Versioned, SkipApplied(v) PROVE DoneInv'
  <2>1. /\ plan' = plan \ {v} /\ Checksum[v] \in seen /\ pc = "versions"
        /\ UNCHANGED <<asked, seen, existing, pc, outcome>>
    BY <1>3 DEF SkipApplied, NextVersion
  <2>2. \A j \in asked' \ plan' : j \in asked \ plan \/ j = v
    BY <2>1
  <2>3. Rest
    BY <2>1, <2>2, TreatedGrows, HistoryGrows DEF DoneInv
  <2> QED BY <1>a, <1>b, <2>1, <2>3
<1>4. ASSUME NEW v \in Jobs, StartVersion(v) \/ StartRepeatable(v) PROVE DoneInv'
  BY <1>4, <1>0, <1>a, <1>b DEF StartVersion, StartRepeatable, NextVersion
<1>5. CASE ReadRunsAlways
  <2>1. /\ existing' \subseteq history /\ UNCHANGED <<plan, asked, seen, outcome, history>>
        /\ pc = "versions" /\ pc' = "repeatables"
    BY <1>5 DEF ReadRunsAlways, db
  <2>2. Rest
    BY <2>1, TreatedGrows DEF DoneInv
  <2> QED BY <1>a, <1>b, <2>1, <2>2
<1>6. ASSUME NEW k \in Indices, ExecStatement(k) \/ ExecAutocommit(k) PROVE DoneInv'
  BY <1>6, <1>0, <1>b DEF ExecStatement, ExecAutocommit, DoneInv
<1>7. CASE RecordWithStatements \/ InnerRecord
  BY <1>7, <1>0, <1>b, InsertRowAdds DEF RecordWithStatements, InnerRecord, DoneInv, cursor
<1>8. CASE CommitBeforeAutocommit \/ StartInnerAutocommit
  BY <1>8, <1>0, <1>b DEF CommitBeforeAutocommit, StartInnerAutocommit, DoneInv
<1>9. CASE Commit
  <2>1. /\ pc = "commit" /\ job \in Jobs /\ job \in Rows /\ UNCHANGED <<job, outcome>>
        /\ existing \subseteq history
    BY <1>9 DEF Commit, DoneInv, TypeOK
  <2>2. CASE Autocommit(job) = {}
    <3>1. JobDone
      BY <1>9, <2>2 DEF Commit
    <3>2. Treated(job)'
      <4>1. CASE engine = "mysql" /\ Upserts(job)
        <5>1. engine' = engine
          BY EngineKept
        <5>2. Kind[job] = "change" \/ job \in history'
          BY <2>1, <4>1, HistoryGrows DEF Upserts
        <5> QED BY <2>1, <4>1, <5>1, <5>2 DEF Treated, Kept
      <4>2. CASE ~ (engine = "mysql" /\ Upserts(job))
        <5>1. CommitConnection
          BY <1>9, <4>2 DEF Commit
        <5>2. job \in history'
          BY <2>1, <5>1 DEF CommitConnection, Persist, Rows
        <5> QED BY <2>1, <5>2 DEF Treated
      <4> QED BY <4>1, <4>2
    <3> QED BY <1>a, <1>b, <2>1, <3>1, <3>2, JobDoneTreated
  <2>3. CASE Autocommit(job) # {}
    <3>1. pc' = "tail" /\ UNCHANGED run
      BY <1>9, <2>3 DEF Commit
    <3> QED BY <1>0, <1>b, <2>1, <2>3, <3>1 DEF DoneInv
  <2> QED BY <2>2, <2>3
<1>10. CASE TailRecord
  <2>1. /\ pc = "tail" /\ job \in Jobs /\ Autocommit(job) # {} /\ JobDone
        /\ UNCHANGED <<job, outcome>>
    BY <1>10 DEF TailRecord, DoneInv, TypeOK, cursor
  <2>2. Treated(job)'
    BY <2>1 DEF Treated, Kept
  <2> QED BY <1>a, <1>b, <2>1, <2>2, JobDoneTreated
<1>11. CASE FinishRun
  BY <1>11, <1>0, <1>a DEF FinishRun, run
<1>12. CASE FailStatement \/ Abort \/ Crash
  BY <1>12, <1>0, <1>a DEF FailStatement, Abort, Crash
<1>13. CASE CloseConnection
  BY <1>13, <1>0, <1>a DEF CloseConnection, DoneInv, run
<1>14. CASE UNCHANGED vars
  BY <1>14, <1>0 DEF vars, run, cursor, db, conn, DoneInv, Rows
<1> QED
  BY <1>1, <1>2, <1>3, <1>4, <1>5, <1>6, <1>7, <1>8, <1>9, <1>10, <1>11, <1>12, <1>13, <1>14
     DEF Next, Progress, Versions, Repeats, Apply, Versioned, Repeatable

(* A run that reports success has left a committed row for every file it   *)
(* set out to apply (or for one of the same checksum), on every engine and *)
(* whatever the runs before it left: all but the files with autocommit     *)
(* statements and, on MySQL, the ROC__ files, whose row is still           *)
(* uncommitted when the connection is closed (migrate_single,              *)
(* run_migration, run_repeatable_migration).                               *)
THEOREM SuccessIsRecorded == Spec => []CompletedRunIsRecorded
<1>1. Init /\ TypeOK => DoneInv
  BY DEF Init, DoneInv
<1>2. DoneInv /\ TypeOK' /\ [Next]_vars => DoneInv'
  BY DoneInvStep
<1>3. DoneInv => CompletedRunIsRecorded
  BY DEF DoneInv, CompletedRunIsRecorded, Treated, Kept
<1> QED BY <1>1, <1>2, <1>3, TypeCorrect, PTL DEF Spec
=============================================================================
