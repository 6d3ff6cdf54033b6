-------------------------- MODULE RollbackRunProofs --------------------------
(***************************************************************************)
(* What RollbackRun guarantees for every engine, every set of files, every *)
(* number of upgrades, commands and faults, and every tie of applied_at.   *)
(***************************************************************************)
EXTENDS RollbackRun, FiniteSetTheorems, TLAPS

InHand == {"txn", "inner", "commit", "tail"}
PCs == {"idle", "each", "close"} \cup InHand

(* What the open transaction holds: effects of the version in hand, and    *)
(* rows that only a file with autocommit statements leaves uncommitted.    *)
Connection ==
  /\ \A s \in undone : s[1] = job
  /\ undone # {} => pc \in {"txn", "commit"}
  /\ \A v \in gone : Plain(v) => v = job /\ pc = "commit"
  /\ pc = "idle" => gone = {}
  /\ engine = "clickhouse" => undone = {} /\ gone = {}
  /\ engine = "mysql" => undone = {}

(* The version in hand.                                                    *)
Position ==
  /\ pc \in PCs /\ faults \in Nat
  /\ pc \in InHand => job \in Versions /\ todo \subseteq 1 .. Effects[job]
  /\ pc \in {"inner", "tail"} => ~Plain(job)
  /\ pc = "commit" => todo = {} /\ (job \in gone \/ job \notin Applied)

Base == Connection /\ Position

(* What a commit or an autocommit statement leaves.                        *)
LEMMA Persisted ==
  ASSUME NEW undo, NEW delete, Persist(undo, delete)
  PROVE  /\ effects' = effects \ undo
         /\ Applied' = Applied \ delete
         /\ \A v \in Applied' : rows'[v] = rows[v]
         /\ engine' = engine
BY DEF Persist, Applied

LEMMA BaseInit == Init => Base
BY DEF Init, Base, Connection, Position, PCs, InHand

(* Steps with nothing in hand.                                             *)
LEMMA BaseBetween ==
  ASSUME Base, NEW v \in Versions
  PROVE  /\ AddFile(v) => Base'
         /\ LoseFile(v) => Base'
         /\ Upgrade(v) => Base'
         /\ Skip(v) => Base'
         /\ Begin(v) => Base'
<1>1. AddFile(v) => Base'
  BY DEF AddFile, Base, Connection, Position, Applied, Plain, AutoOf,
         db, conn, cursor, counters
<1>2. LoseFile(v) => Base'
  BY DEF LoseFile, Base, Connection, Position, Applied, Plain, AutoOf,
         db, conn, cursor, counters
<1>3. Upgrade(v) => Base'
  BY DEF Upgrade, Base, Connection, Position, Plain, AutoOf, conn, cursor, InHand
<1>4. Skip(v) => Base'
  BY DEF Skip, NextVersion, Base, Connection, Position, Applied, Plain, AutoOf,
         db, conn, counters
<1>5. Begin(v) => Base'
  BY DEF Begin, NextVersion, Base, Connection, Position, PCs, InHand, Plain, AutoOf,
         StatementsOf, db, conn, counters
<1> QED BY <1>1, <1>2, <1>3, <1>4, <1>5

(* Steps with a version in hand.                                           *)
LEMMA BaseRevert ==
  ASSUME Base, NEW k
  PROVE  /\ ExecStatement(k) => Base'
         /\ ExecAutocommit(k) => Base'
         /\ DeleteWithStatements => Base'
         /\ StartAutocommit => Base'
         /\ InnerDelete => Base'
         /\ Commit => Base'
         /\ TailDelete => Base'
<1> USE DEF Base, Connection, Position, PCs, InHand, Plain, AutoOf
<1>1. ExecStatement(k) => Base'
  BY DEF Persist, Applied, counters, ExecStatement, Undo, db, conn
<1>2. ExecAutocommit(k) => Base'
  BY DEF Persist, Applied, counters, ExecAutocommit, conn
<1>3. DeleteWithStatements => Base'
  BY DEF Persist, Applied, counters, DeleteWithStatements, DeleteRow, db, conn, cursor
<1>4. StartAutocommit => Base'
  BY DEF Persist, Applied, counters, StartAutocommit, CommitConnection, db, conn
<1>5. InnerDelete => Base'
  BY DEF Persist, Applied, counters, InnerDelete, DeleteRow, db, conn, cursor
<1>6. Commit => Base'
  BY DEF Persist, Applied, counters, Commit, CommitConnection
<1>7. TailDelete => Base'
  BY DEF Persist, Applied, counters, TailDelete, DeleteRow, db, conn, cursor
<1> QED BY <1>1, <1>2, <1>3, <1>4, <1>5, <1>6, <1>7

(* Start, and the steps that end a command.                                *)
LEMMA BaseEnds ==
  ASSUME Base
  PROVE  /\ Start => Base'
         /\ Fail => Base'
         /\ Finish => Base'
         /\ Close => Base'
         /\ Crash => Base'
<1> USE DEF Base, Connection, Position, PCs, InHand, Plain, AutoOf
<1>1. Start => Base'
  BY DEF Start, db, counters
<1>2. Fail => Base'
  BY DEF Fail, RollbackConnection, Missing, NextVersion, db, conn, cursor
<1>3. Finish => Base'
  BY DEF Finish, db, conn, cursor, counters
<1>4. Close => Base'
  BY DEF Close, RollbackConnection, db, counters
<1>5. Crash => Base'
  BY DEF Crash, RollbackConnection, db
<1> QED BY <1>1, <1>2, <1>3, <1>4, <1>5

LEMMA BaseNext == Base /\ [Next]_vars => Base'
<1> SUFFICES ASSUME Base, [Next]_vars PROVE Base'
  OBVIOUS
<1>1. CASE Environment
  BY <1>1, BaseBetween DEF Environment
<1>2. CASE Revert
  BY <1>2, BaseBetween, BaseRevert DEF Revert
<1>3. CASE Start \/ Fail \/ Finish \/ Close \/ Crash
  BY <1>3, BaseEnds
<1>4. CASE UNCHANGED vars
  BY <1>4 DEF vars, Base, Connection, Position, Plain, AutoOf, Applied,
              db, conn, cursor, counters
<1> QED BY <1>1, <1>2, <1>3, <1>4 DEF Next

(* While a command runs, rows only go and files only get lost.             *)
LEMMA OnlyShrinks ==
  ASSUME [Next]_vars, pc # "idle"
  PROVE  /\ Applied' \subseteq Applied
         /\ \A v \in Applied' : rows'[v] = rows[v]
         /\ Revertible' \subseteq Revertible
         /\ UNCHANGED <<engine, command, target>>
<1> DEFINE Same == UNCHANGED <<effects, rows>> /\ UNCHANGED engine
           Less == \E u, d : Persist(u, d)
<1>1. ASSUME Same \/ Less
      PROVE  /\ Applied' \subseteq Applied
             /\ \A v \in Applied' : rows'[v] = rows[v]
             /\ UNCHANGED engine
  <2>1. CASE Same
    BY <2>1 DEF Applied
  <2>2. CASE Less
    BY <2>2, Persisted
  <2> QED BY <1>1, <2>1, <2>2
<1>2. ASSUME present' \subseteq present, UNCHANGED command,
             superseded \subseteq superseded'
      PROVE  Revertible' \subseteq Revertible
  BY <1>2 DEF Revertible
<1>3. UNCHANGED request => UNCHANGED <<command, target>>
  BY DEF request
<1>4. UNCHANGED files => present' = present /\ superseded' = superseded
  BY DEF files
<1>5. UNCHANGED db => Same
  BY DEF db
<1>6. CommitConnection => Less
  BY DEF CommitConnection
<1>7. \A v : DeleteRow(v) => Same \/ Less
  BY <1>5 DEF DeleteRow
<1>8. \A s_1 : Undo(s_1) => Same \/ Less
  BY <1>5 DEF Undo
<1>9. RollbackConnection => Same
  BY <1>5 DEF RollbackConnection
<1> HIDE DEF Same, Less
<1> DEFINE Quiet == /\ Same \/ Less
                    /\ present' \subseteq present /\ superseded \subseteq superseded'
                    /\ UNCHANGED <<command, target>>
<1>10. CASE Environment
  <2> PICK v \in Versions : AddFile(v) \/ LoseFile(v) \/ Upgrade(v)
    BY <1>10 DEF Environment
  <2>1. LoseFile(v)
    BY DEF AddFile, Upgrade
  <2> QED BY <2>1, <1>1, <1>2, <1>3, <1>5 DEF LoseFile
<1>11. CASE Revert
  <2>1. CASE \E v \in Versions : Skip(v) \/ Begin(v)
    BY <2>1, <1>1, <1>2, <1>3, <1>4, <1>5 DEF Skip, Begin
  <2>2. CASE DeleteWithStatements \/ StartAutocommit \/ InnerDelete \/ Commit \/ TailDelete
    BY <2>2, <1>1, <1>2, <1>3, <1>4, <1>5, <1>6, <1>7
       DEF DeleteWithStatements, StartAutocommit, InnerDelete, Commit, TailDelete
  <2>3. CASE \E k \in UNION {1 .. Effects[v] : v \in Versions} :
               ExecStatement(k) \/ ExecAutocommit(k)
    <3>1. \A k : ExecAutocommit(k) => Less
      BY DEF ExecAutocommit, Less
    <3> QED BY <2>3, <3>1, <1>1, <1>2, <1>3, <1>4, <1>8 DEF ExecStatement, ExecAutocommit
  <2> QED BY <1>11, <2>1, <2>2, <2>3 DEF Revert
<1>12. CASE Fail \/ Finish \/ Close \/ Crash
  BY <1>12, <1>1, <1>2, <1>3, <1>4, <1>5, <1>9 DEF Fail, Finish, Close, Crash
<1>13. CASE UNCHANGED vars
  BY <1>13, <1>1, <1>2, <1>3, <1>4, <1>5 DEF vars
<1> QED BY <1>10, <1>11, <1>12, <1>13 DEF Next, Start

(* Between commands only a command starts, or the environment moves.       *)
LEMMA IdleSteps ==
  ASSUME [Next]_vars, pc = "idle"
  PROVE  Start \/ Environment \/ UNCHANGED vars
BY DEF Next, Revert, Skip, Begin, NextVersion, DeleteWithStatements, StartAutocommit, InnerDelete,
       Commit, TailDelete, ExecStatement, ExecAutocommit, Fail, Missing, Finish, Close, Crash

(* The history table: versions, and when each was applied.                 *)
History == /\ Applied \subseteq Versions
           /\ \A v \in Applied : rows[v] \in Nat

LEMMA HistoryNext == History /\ [Next]_vars => History'
<1> SUFFICES ASSUME History, [Next]_vars PROVE History'
  OBVIOUS
<1>1. CASE pc # "idle"
  BY <1>1, OnlyShrinks DEF History
<1>2. CASE UNCHANGED rows
  BY <1>2 DEF History, Applied
<1>3. ASSUME NEW v \in Versions, Upgrade(v) PROVE History'
  <2>1. \A at \in Times : at \in Nat
    BY DEF Times, History
  <2>2. CASE UNCHANGED rows
    BY <2>2 DEF History, Applied
  <2>3. CASE \E at \in Times :
               rows' = [w \in Applied \cup {v} |-> IF w = v THEN at ELSE rows[w]]
    BY <2>1, <2>3 DEF History, Applied
  <2> QED BY <1>3, <2>2, <2>3 DEF Upgrade
<1>4. pc = "idle" => UNCHANGED rows \/ \E v \in Versions : Upgrade(v)
  BY IdleSteps DEF vars, db, Environment, AddFile, LoseFile, Start
<1> QED BY <1>1, <1>2, <1>3, <1>4

-----------------------------------------------------------------------------
(***************************************************************************)
(* A command to a target reaches it.                                       *)
(***************************************************************************)

ToTarget == command = "to" \/ (command = "downgrade" /\ engine = "postgresql")

(* Every plain row above the target that the command could revert is still *)
(* queued or in hand, and none is left when the loop has ended.            *)
Ahead ==
  ToTarget =>
    /\ pc \in {"each"} \cup InHand =>
         \A v \in Applied \cap Revertible :
            v > target /\ Plain(v) => v \in queue \/ (v = job /\ pc \in InHand)
    /\ TargetReached

(* The selection holds every row above the target that can be reverted.    *)
LEMMA SelectionIsWhole ==
  ASSUME History, Start, ToTarget', pc' = "each",
         NEW v \in Applied, v \in Revertible', v > target'
  PROVE  v \in queue'
<1>1. CASE command' = "to"
  BY <1>1 DEF Start, After, WithFile, Revertible, files
<1>2. CASE command' = "downgrade"
  <2>1. engine = "postgresql" /\ queue' \in Above(target') /\ v \in present
    BY <1>2 DEF Start, ToTarget, Revertible, files, db
  <2>2. PICK e \in Applied : /\ \A w \in Applied : w > target' => ~Migrated(e, w)
                             /\ queue' = {w \in Applied : w > target'}
                                           \cap FilesBetween(target', e)
    BY <2>1 DEF Above
  <2>3. ~(e < v)
    BY <2>1, <2>2 DEF Migrated
  <2>4. v <= e
    BY <2>3 DEF History, Versions
  <2> QED BY <2>1, <2>2, <2>4 DEF FilesBetween
<1> QED BY <1>1, <1>2 DEF ToTarget

LEMMA AheadNext == Base /\ History /\ Ahead /\ [Next]_vars => Ahead'
<1> SUFFICES ASSUME Base, History, Ahead, [Next]_vars, ToTarget' PROVE Ahead'
  BY DEF Ahead
<1> DEFINE InLoop == pc \in {"each"} \cup InHand
           Waits(v) == v \in queue \/ (v = job /\ pc \in InHand)
           Due(v) == v \in Applied \cap Revertible /\ v > target /\ Plain(v)
           Done == pc = "close" /\ outcome = "ok"
<1>1. CASE pc = "idle"
  <2>1. CASE Start
    <3>1. pc' = "each" \/ (pc' = "close" /\ outcome' = "failed")
      BY <2>1 DEF Start
    <3>2. Applied' = Applied
      BY <2>1 DEF Start, db, Applied
    <3> QED BY <2>1, <3>1, <3>2, SelectionIsWhole DEF Ahead, TargetReached, InHand
  <2>2. pc' = "idle" \/ Start
    BY <1>1, IdleSteps DEF vars, Environment, AddFile, LoseFile, Upgrade
  <2> QED BY <2>1, <2>2 DEF Ahead, TargetReached, InHand
<1>2. CASE pc # "idle"
  <2>1. ToTarget /\ \A v : Due(v)' => Due(v)
    BY <1>2, OnlyShrinks DEF ToTarget, Plain, AutoOf
  <2>2. InLoop => \A v : Due(v) => Waits(v)
    BY <2>1 DEF Ahead
  <2>3. Done => \A v : ~Due(v)
    BY <2>1 DEF Ahead, TargetReached, ToTarget
  <2>4. Ahead' <=> /\ InLoop' => \A v : Due(v)' => Waits(v)'
                   /\ Done' => \A v : ~Due(v)'
    BY DEF Ahead, TargetReached, ToTarget
  <2>5. ASSUME NEW v, Due(v)', Waits(v), InLoop' PROVE Waits(v)'
    <3>1. CASE Environment
      BY <1>2, <2>5, <3>1 DEF Environment, AddFile, LoseFile, Upgrade, cursor
    <3>2. ASSUME NEW w \in Versions, Skip(w) PROVE Waits(v)'
      BY <2>5, <3>2 DEF Skip, NextVersion, Revertible, InHand, ToTarget, files, request
    <3>3. ASSUME NEW w \in Versions, Begin(w) PROVE Waits(v)'
      BY <2>5, <3>3 DEF Begin, NextVersion, InHand
    <3>4. CASE DeleteWithStatements \/ InnerDelete
      BY <2>5, <3>4 DEF DeleteWithStatements, InnerDelete, InHand, cursor
    <3>5. CASE StartAutocommit \/ \E k : ExecStatement(k) \/ ExecAutocommit(k)
      BY <2>5, <3>5 DEF StartAutocommit, ExecStatement, ExecAutocommit, InHand
    <3>6. CASE Commit
      <4>1. v = job => v \notin Applied'
        BY <3>6, Persisted DEF Commit, CommitConnection, Base, Position
      <4> QED BY <2>5, <3>6, <4>1 DEF Commit
    <3>7. CASE TailDelete
      <4>1. ~Plain(job)
        BY <3>7 DEF TailDelete, Base, Position
      <4> QED BY <2>1, <2>5, <3>7, <4>1 DEF TailDelete, cursor
    <3>8. CASE Start \/ Fail \/ Finish \/ Close \/ Crash
      BY <1>2, <2>5, <3>8 DEF Start, Fail, Finish, Close, Crash, InHand
    <3>9. CASE UNCHANGED vars
      BY <2>5, <3>9 DEF vars, cursor
    <3> QED BY <3>1, <3>2, <3>3, <3>4, <3>5, <3>6, <3>7, <3>8, <3>9 DEF Next, Revert
  <2>6. InLoop' => InLoop
    BY <1>2 DEF Next, vars, Environment, AddFile, LoseFile, Upgrade, Start, Revert, Skip, Begin,
         NextVersion, DeleteWithStatements, StartAutocommit, InnerDelete, Commit, TailDelete,
         ExecStatement, ExecAutocommit, Fail, Finish, Close, Crash, InHand
  <2>7. Done' => Done \/ (pc = "each" /\ queue = {})
    BY <1>2 DEF Next, vars, Environment, AddFile, LoseFile, Upgrade, Start, Revert, Skip, Begin,
         NextVersion, DeleteWithStatements, StartAutocommit, InnerDelete, Commit, TailDelete,
         ExecStatement, ExecAutocommit, Fail, Finish, Close, Crash, InHand
  <2> HIDE DEF Due, Waits, InLoop, Done
  <2>8. pc = "each" /\ queue = {} => InLoop /\ \A v : ~Waits(v)
    BY DEF InLoop, Waits, InHand
  <2> QED BY <2>1, <2>2, <2>3, <2>4, <2>5, <2>6, <2>7, <2>8
<1> QED BY <1>1, <1>2

(* `rollback --to-version`, and downgrade on PostgreSQL, that end without  *)
(* an error leave no plain row above the target that they could have       *)
(* reverted, whatever failed before, whatever files came or went.          *)
THEOREM TargetIsReached == Spec => []TargetReached
<1>1. Init => Base /\ History /\ Ahead
  BY BaseInit DEF Init, History, Applied, Ahead, TargetReached, InHand
<1>2. Base /\ History /\ Ahead /\ [Next]_vars => (Base /\ History /\ Ahead)'
  BY BaseNext, HistoryNext, AheadNext
<1>3. Ahead => TargetReached
  BY DEF Ahead, TargetReached, ToTarget
<1> QED BY <1>1, <1>2, <1>3, PTL DEF Spec

-----------------------------------------------------------------------------
(***************************************************************************)
(* Rows and effects.                                                       *)
(***************************************************************************)

Files == {v \in Reversible : Plain(v)}

(* The version in hand, seen through the open transaction: its row is      *)
(* there with just the effects its statements have still to undo, or       *)
(* neither the row nor an effect is.                                       *)
Clean ==
  \/ /\ job \in Applied
     /\ \A k \in 1 .. Effects[job] : (<<job, k>> \in effects \ undone) <=> k \in todo
  \/ /\ job \notin Applied
     /\ \A k \in 1 .. Effects[job] : <<job, k>> \notin effects

Unsound(v) == IF v = job /\ pc \in {"txn", "commit"} THEN ~Clean ELSE Torn(v)

LEMMA TornEffects ==
  ASSUME NEW v
  PROVE  Torn(v) <=> IF v \in Applied THEN \E k \in 1 .. Effects[v] : <<v, k>> \notin effects
                                      ELSE \E k \in 1 .. Effects[v] : <<v, k>> \in effects
<1>1. \A s : s \in EffectsOf(v) <=> \E k \in 1 .. Effects[v] : s = <<v, k>>
  BY DEF EffectsOf
<1> QED BY <1>1 DEF Torn

(* A write that does not touch a version.                                  *)
LEMMA TornElsewhere ==
  ASSUME NEW v, NEW undo, NEW delete, Persist(undo, delete), v \notin delete,
         \A k : <<v, k>> \notin undo
  PROVE  Torn(v)' <=> Torn(v)
<1>1. \A s : s \in EffectsOf(v) <=> \E k \in 1 .. Effects[v] : s = <<v, k>>
  BY DEF EffectsOf
<1>2. Torn(v)' <=> IF v \in Applied' THEN \E k \in 1 .. Effects[v] : <<v, k>> \notin effects'
                                     ELSE \E k \in 1 .. Effects[v] : <<v, k>> \in effects'
  BY <1>1 DEF Torn, Applied
<1>3. effects' = effects \ undo /\ Applied' = Applied \ delete
  BY Persisted
<1> QED BY <1>2, <1>3, TornEffects

LEMMA TornSame == UNCHANGED db => \A v : Torn(v)' <=> Torn(v)
BY DEF db, Torn, Applied, EffectsOf

(* What the open transaction holds is the version in hand's, but for rows  *)
(* of files with autocommit statements.                                    *)
LEMMA OthersNotTouched ==
  ASSUME Base, NEW v \in Files, v # job
  PROVE  v \notin gone /\ \A k : <<v, k>> \notin undone
<1>1. \A k : <<v, k>>[1] = v
  OBVIOUS
<1> QED BY <1>1 DEF Base, Connection, Files

LEMMA RevertKeepsOthers ==
  ASSUME Base, NEW v \in Files, v # job, NEW k,
         \/ ExecStatement(k) \/ ExecAutocommit(k)
         \/ DeleteWithStatements \/ StartAutocommit \/ InnerDelete \/ Commit \/ TailDelete
  PROVE  /\ Torn(v)' <=> Torn(v)
         /\ pc \in InHand /\ job' = job /\ faults' = faults
<1>1. pc \in InHand /\ job' = job /\ faults' = faults
  BY DEF ExecStatement, ExecAutocommit, DeleteWithStatements, StartAutocommit, InnerDelete,
         Commit, TailDelete, InHand, cursor, counters
<1>2. v \notin gone /\ \A l : <<v, l>> \notin undone
  BY OthersNotTouched
<1>3. Persist(undone, gone) => (Torn(v)' <=> Torn(v))
  BY <1>2, TornElsewhere
<1>4. \A l : Persist({<<job, l>>}, {}) => (Torn(v)' <=> Torn(v))
  BY TornElsewhere
<1>5. \A l : Persist(undone \cup {<<job, l>>}, gone) => (Torn(v)' <=> Torn(v))
  <2> SUFFICES ASSUME NEW l, Persist(undone \cup {<<job, l>>}, gone)
               PROVE  Torn(v)' <=> Torn(v)
    OBVIOUS
  <2>1. \A j : <<v, j>> \notin undone \cup {<<job, l>>}
    BY <1>2
  <2> QED BY <1>2, <2>1, TornElsewhere
<1>6. Persist({}, {job}) => (Torn(v)' <=> Torn(v))
  BY TornElsewhere
<1>7. UNCHANGED db => (Torn(v)' <=> Torn(v))
  BY TornSame
<1>8. \A l : Undo(<<job, l>>) => (Torn(v)' <=> Torn(v))
  BY <1>4, <1>5, <1>7 DEF Undo
<1>9. DeleteRow(job) => (Torn(v)' <=> Torn(v))
  BY <1>6, <1>7 DEF DeleteRow
<1>10. CommitConnection => (Torn(v)' <=> Torn(v))
  BY <1>3 DEF CommitConnection
<1> QED BY <1>1, <1>4, <1>7, <1>8, <1>9, <1>10
        DEF ExecStatement, ExecAutocommit, DeleteWithStatements, StartAutocommit, InnerDelete,
            Commit, TailDelete

(* The version in hand stays clean, and its commit leaves it whole.        *)
LEMMA StatementKeepsClean ==
  ASSUME Base, NEW k, ExecStatement(k), Plain(job), Clean
  PROVE  Clean' /\ pc' = "txn" /\ job' = job /\ faults' = faults
<1>1. pc = "txn" /\ pc' = "txn" /\ job' = job /\ faults' = faults /\ todo' = todo \ {k}
  BY DEF ExecStatement, counters
<1>2. job \notin gone
  BY <1>1 DEF Base, Connection
<1>3. \A l \in 1 .. Effects[job] : <<job, l>> = <<job, k>> <=> l = k
  OBVIOUS
<1>4. CASE undone' = undone \cup {<<job, k>>} /\ UNCHANGED <<db, gone, txn>>
  BY <1>1, <1>3, <1>4 DEF Clean, db, Applied
<1>5. CASE Persist(undone \cup {<<job, k>>}, gone) /\ undone' = {}
  <2>1. effects' = effects \ (undone \cup {<<job, k>>}) /\ Applied' = Applied \ gone
    BY <1>5, Persisted
  <2> QED BY <1>1, <1>2, <1>3, <1>5, <2>1 DEF Clean
<1>6. CASE Persist({<<job, k>>}, {}) /\ UNCHANGED conn
  <2>1. effects' = effects \ {<<job, k>>} /\ Applied' = Applied /\ undone' = undone
    BY <1>6, Persisted DEF conn
  <2> QED BY <1>1, <1>3, <2>1 DEF Clean
<1> QED BY <1>1, <1>4, <1>5, <1>6 DEF ExecStatement, Undo

LEMMA DeleteKeepsClean ==
  ASSUME Base, DeleteWithStatements, Clean
  PROVE  Clean' /\ job' = job
<1>1. job' = job /\ todo' = todo /\ todo = {}
  BY DEF DeleteWithStatements, cursor
<1>2. CASE engine = "clickhouse"
  <2>1. undone = {} /\ undone' = {}
    BY <1>2 DEF DeleteWithStatements, DeleteRow, Base, Connection, conn
  <2>2. effects' = effects /\ Applied' = Applied \ {job}
    BY <1>2, Persisted DEF DeleteWithStatements, DeleteRow
  <2> QED BY <1>1, <2>1, <2>2 DEF Clean
<1>3. CASE engine # "clickhouse"
  BY <1>1, <1>3 DEF DeleteWithStatements, DeleteRow, db, Clean, Applied
<1> QED BY <1>2, <1>3

LEMMA CommitLeavesWhole ==
  ASSUME Base, Commit, Clean, Plain(job)
  PROVE  ~Torn(job)' /\ job' = job /\ pc' = "each"
<1>1. job' = job /\ pc' = "each" /\ todo = {}
  BY DEF Commit, Base, Position
<1>2. effects' = effects \ undone /\ Applied' = Applied \ gone
  BY Persisted DEF Commit, CommitConnection
<1>3. job \notin Applied'
  BY <1>2 DEF Commit, Base, Position
<1>4. ~ \E k \in 1 .. Effects[job] : <<job, k>> \in effects'
  BY <1>1, <1>2 DEF Clean
<1>5. \A s : s \in EffectsOf(job) <=> \E k \in 1 .. Effects[job] : s = <<job, k>>
  BY DEF EffectsOf
<1>6. Torn(job)' <=> IF job \in Applied' THEN ~(EffectsOf(job) \subseteq effects')
                                         ELSE EffectsOf(job) \cap effects' # {}
  BY <1>1 DEF Torn, Applied, EffectsOf
<1>7. Torn(job)' <=> IF job \in Applied'
                       THEN \E k \in 1 .. Effects[job] : <<job, k>> \notin effects'
                       ELSE \E k \in 1 .. Effects[job] : <<job, k>> \in effects'
  BY <1>5, <1>6
<1> QED BY <1>1, <1>3, <1>4, <1>7

(* A version that is whole is clean when its file begins.                  *)
LEMMA BeginsClean ==
  ASSUME Base, NEW v \in Files, Begin(v), ~Torn(v)
  PROVE  Clean'
<1>1. job' = v /\ todo' = 1 .. Effects[v] /\ undone' = {} /\ UNCHANGED db
  BY DEF Begin, NextVersion, StatementsOf, Files, Plain, Base, Connection, conn
<1> QED BY <1>1, TornEffects DEF Clean, db, Applied

(* No step of the loop makes a version unsound.                            *)
LEMMA SoundRevert ==
  ASSUME Base, Revert, NEW v \in Files
  PROVE  (Unsound(v)' => Unsound(v)) /\ faults' = faults
<1>1. CASE \E w \in Versions : Skip(w)
  <2>1. UNCHANGED db /\ pc' = pc /\ pc = "each" /\ faults' = faults
    BY <1>1 DEF Skip, NextVersion, counters
  <2> QED BY <2>1, TornSame DEF Unsound
<1>2. CASE \E w \in Versions : Begin(w)
  <2> PICK w \in Versions : Begin(w)
    BY <1>2
  <2>1. UNCHANGED db /\ pc' = "txn" /\ pc = "each" /\ job' = w /\ faults' = faults
    BY DEF Begin, NextVersion, counters
  <2>2. CASE v = w
    BY <2>1, <2>2, BeginsClean DEF Unsound
  <2>3. CASE v # w
    BY <2>1, <2>3, TornSame DEF Unsound
  <2> QED BY <2>1, <2>2, <2>3
<1>3. ASSUME NEW k,
             \/ ExecStatement(k) \/ ExecAutocommit(k)
             \/ DeleteWithStatements \/ StartAutocommit \/ InnerDelete \/ Commit \/ TailDelete
      PROVE  (Unsound(v)' => Unsound(v)) /\ faults' = faults
  <2>1. CASE v # job
    <3>1. (Torn(v)' <=> Torn(v)) /\ job' = job /\ faults' = faults
      BY <1>3, <2>1, RevertKeepsOthers
    <3> QED BY <2>1, <3>1 DEF Unsound
  <2>2. CASE v = job
    <3>1. Plain(job)
      BY <2>2 DEF Files
    <3>2. pc \in {"txn", "commit"}
      BY <1>3, <3>1 DEF ExecStatement, ExecAutocommit, DeleteWithStatements, StartAutocommit,
                        InnerDelete, Commit, TailDelete, Base, Position
    <3>3. CASE ExecStatement(k)
      <4>1. Clean => Clean' /\ pc' = "txn" /\ job' = job
        BY <3>1, <3>3, StatementKeepsClean
      <4> QED BY <2>2, <3>2, <3>3, <4>1 DEF Unsound, ExecStatement, counters
    <3>4. CASE DeleteWithStatements
      <4>1. Clean => Clean'
        BY <3>4, DeleteKeepsClean
      <4>2. pc' = "commit" /\ job' = job /\ faults' = faults
        BY <3>4 DEF DeleteWithStatements, cursor, counters
      <4> QED BY <2>2, <3>2, <4>1, <4>2 DEF Unsound
    <3>5. CASE Commit
      <4>1. Clean => ~Torn(job)'
        BY <3>1, <3>5, CommitLeavesWhole
      <4>2. job' = job /\ pc' = "each" /\ faults' = faults
        BY <3>1, <3>5 DEF Commit, counters
      <4>3. Torn(v)' <=> Torn(job)'
        BY <2>2, <4>2 DEF Torn, EffectsOf, Applied
      <4> QED BY <2>2, <3>2, <4>1, <4>2, <4>3 DEF Unsound
    <3>6. ~(ExecAutocommit(k) \/ StartAutocommit \/ InnerDelete \/ TailDelete)
      BY <3>1 DEF ExecAutocommit, StartAutocommit, InnerDelete, TailDelete, Base, Position
    <3> QED BY <1>3, <3>3, <3>4, <3>5, <3>6
  <2> QED BY <2>1, <2>2
<1> QED BY <1>1, <1>2, <1>3 DEF Revert

(* A statement that fails, with no fault of the environment, finds its     *)
(* effect missing: the version was unsound.                                *)
LEMMA SoundFail ==
  ASSUME Base, Fail, faults' = faults, NEW v \in Files
  PROVE  Unsound(v)' => Unsound(v)
<1>1. faults \in Nat /\ pc' = "close" /\ UNCHANGED db
  BY DEF Fail, RollbackConnection, Base, Position
<1>2. Torn(v)' <=> Torn(v)
  BY <1>1, TornSame
<1>3. CASE v # job \/ pc # "txn"
  <2>1. pc # "commit"
    BY <1>1 DEF Fail, Missing, NextVersion
  <2> QED BY <1>1, <1>2, <1>3, <2>1 DEF Unsound
<1>4. CASE v = job /\ pc = "txn"
  <2>1. PICK k \in todo : <<job, k>> \notin effects \ undone
    BY <1>1, <1>4 DEF Fail, Missing, NextVersion, InPlace
  <2>2. k \in 1 .. Effects[job]
    BY <1>4 DEF Base, Position, InHand
  <2>3. Clean => job \notin Applied /\ \A l \in 1 .. Effects[job] : <<job, l>> \notin effects
    BY <2>1, <2>2 DEF Clean
  <2>4. Clean => ~Torn(v)
    BY <1>4, <2>3, TornEffects
  <2> QED BY <1>1, <1>2, <1>4, <2>4 DEF Unsound
<1> QED BY <1>3, <1>4

(* A file of migrate: whole when it succeeds, and torn by a fault only.    *)
LEMMA UpgradeTorn ==
  ASSUME NEW w \in Versions, Upgrade(w), NEW v \in Files, faults \in Nat
  PROVE  /\ v # w => (Torn(v)' <=> Torn(v))
         /\ faults' = faults => (Torn(v)' => Torn(v))
         /\ engine = "postgresql" => (Torn(v)' => Torn(v))
<1> DEFINE Lacks(f) == \E k \in 1 .. Effects[v] : <<v, k>> \notin f
           Holds(f) == \E k \in 1 .. Effects[v] : <<v, k>> \in f
<1>1. \A s : s \in EffectsOf(v) <=> \E k \in 1 .. Effects[v] : s = <<v, k>>
  BY DEF EffectsOf
<1>2. Torn(v)' <=> IF v \in Applied' THEN Lacks(effects') ELSE Holds(effects')
  BY <1>1 DEF Torn, Applied
<1>3. Torn(v) <=> IF v \in Applied THEN Lacks(effects) ELSE Holds(effects)
  BY <1>1 DEF Torn
<1>4. \A s : s \in EffectsOf(w) <=> \E k \in 1 .. Effects[w] : s = <<w, k>>
  BY DEF EffectsOf
<1>5. v # w => \A k, l : <<v, k>> # <<w, l>>
  OBVIOUS
<1>6. CASE /\ effects' = effects \cup EffectsOf(w) /\ UNCHANGED faults
           /\ \E at \in Times :
                rows' = [x \in Applied \cup {w} |-> IF x = w THEN at ELSE rows[x]]
  <2>1. Applied' = Applied \cup {w}
    BY <1>6 DEF Applied
  <2>2. v # w => (Torn(v)' <=> Torn(v))
    BY <1>2, <1>3, <1>4, <1>5, <1>6, <2>1
  <2>3. v = w => ~Torn(v)'
    BY <1>2, <1>4, <1>6, <2>1
  <2> QED BY <2>2, <2>3
<1>7. CASE /\ faults' = faults + 1 /\ UNCHANGED rows
           /\ ~(engine = "postgresql" /\ Plain(w))
           /\ \E k \in 1 .. Effects[w] : effects' = effects \cup ({w} \X (1 .. k))
  <2>1. Applied' = Applied
    BY <1>7 DEF Applied
  <2>2. v # w => (Torn(v)' <=> Torn(v))
    BY <1>2, <1>3, <1>5, <1>7, <2>1
  <2>3. engine = "postgresql" => v # w
    BY <1>7 DEF Files
  <2> QED BY <1>7, <2>2, <2>3
<1> QED BY <1>6, <1>7 DEF Upgrade

(* A fault makes at most one version unsound, and nothing else does.       *)
LEMMA SoundNext ==
  ASSUME Base, [Next]_vars
  PROVE  \/ faults' = faults /\ \A v \in Files : Unsound(v)' => Unsound(v)
         \/ /\ faults' = faults + 1
            /\ \E x : \A v \in Files \ {x} : Unsound(v)' => Unsound(v)
<1>1. CASE Revert
  <2>1. faults' = faults
    BY <1>1 DEF Revert, Skip, Begin, DeleteWithStatements, StartAutocommit, InnerDelete, Commit,
               TailDelete, ExecStatement, ExecAutocommit, counters
  <2> QED BY <1>1, <2>1, SoundRevert
<1>2. CASE Fail /\ faults' = faults
  BY <1>2, SoundFail
<1>3. CASE Crash \/ (Fail /\ faults' # faults)
  <2>1. UNCHANGED db /\ pc' \in {"idle", "close"} /\ faults' = faults + 1
    BY <1>3 DEF Fail, Crash, RollbackConnection
  <2>2. \A v \in Files \ {job} : Unsound(v)' => Unsound(v)
    BY <2>1, TornSame DEF Unsound
  <2> QED BY <2>1, <2>2
<1>4. CASE Start \/ Finish \/ Close
  <2>1. /\ UNCHANGED db /\ faults' = faults
        /\ pc \notin {"txn", "commit"} /\ pc' \notin {"txn", "commit"}
    BY <1>4 DEF Start, Finish, Close, RollbackConnection, counters
  <2> QED BY <2>1, TornSame DEF Unsound
<1>5. CASE UNCHANGED vars \/ \E w \in Versions : AddFile(w) \/ LoseFile(w)
  <2>1. UNCHANGED <<db, conn, cursor, pc, faults>>
    BY <1>5 DEF AddFile, LoseFile, vars, counters
  <2>2. \A v \in Files : Unsound(v)' <=> Unsound(v)
    BY <2>1, TornSame DEF Unsound, Clean, db, conn, cursor, Applied
  <2> QED BY <2>1, <2>2
<1>6. ASSUME NEW w \in Versions, Upgrade(w)
      PROVE  \/ faults' = faults /\ \A v \in Files : Unsound(v)' => Unsound(v)
             \/ /\ faults' = faults + 1
                /\ \E x : \A v \in Files \ {x} : Unsound(v)' => Unsound(v)
  <2>1. pc = "idle" /\ pc' = "idle" /\ faults \in Nat /\ faults' \in {faults, faults + 1}
    BY <1>6 DEF Upgrade, Base, Position
  <2>2. \A v \in Files : (Unsound(v) <=> Torn(v)) /\ (Unsound(v)' <=> Torn(v)')
    BY <2>1 DEF Unsound
  <2> QED BY <1>6, <2>1, <2>2, UpgradeTorn
<1> QED BY <1>1, <1>2, <1>3, <1>4, <1>5, <1>6 DEF Next, Environment

(***************************************************************************)
(* A fault costs one file.                                                 *)
(***************************************************************************)

Dirty == {v \in Files : Unsound(v)}

FaultsCover == Cardinality(Dirty) <= faults

LEMMA DirtyIsFinite == ASSUME NEW S \in SUBSET Files PROVE IsFiniteSet(S) /\ Cardinality(S) \in Nat
<1>1. IsFiniteSet(1 .. NumVersions)
  BY RollbackAssumption, FS_Interval
<1>2. S \in SUBSET (1 .. NumVersions)
  BY RollbackAssumption DEF Files, Versions
<1> QED BY <1>1, <1>2, FS_Subset, FS_CardinalityType

LEMMA FaultsCoverNext == Base /\ FaultsCover /\ [Next]_vars => FaultsCover'
<1> SUFFICES ASSUME Base, FaultsCover, [Next]_vars PROVE FaultsCover'
  OBVIOUS
<1>1. Dirty \in SUBSET Files /\ Dirty' \in SUBSET Files
  BY DEF Dirty, Files, Plain, AutoOf
<1>2. /\ IsFiniteSet(Dirty) /\ Cardinality(Dirty) \in Nat
      /\ Cardinality(Dirty') \in Nat /\ faults \in Nat
  BY <1>1, DirtyIsFinite DEF Base, Position
<1>3. FaultsCover' <=> Cardinality(Dirty') <= faults'
  BY DEF FaultsCover
<1>4. CASE faults' = faults /\ \A v \in Files : Unsound(v)' => Unsound(v)
  <2>1. Dirty' \in SUBSET Dirty
    BY <1>4 DEF Dirty, Files, Plain, AutoOf
  <2>2. Cardinality(Dirty') <= Cardinality(Dirty)
    BY <1>2, <2>1, FS_Subset
  <2> QED BY <1>2, <1>3, <1>4, <2>2 DEF FaultsCover
<1>5. ASSUME faults' = faults + 1,
             NEW x, \A v \in Files \ {x} : Unsound(v)' => Unsound(v)
      PROVE  FaultsCover'
  <2>1. Dirty' \in SUBSET (Dirty \cup {x})
    BY <1>5 DEF Dirty, Files, Plain, AutoOf
  <2>2. /\ IsFiniteSet(Dirty \cup {x})
        /\ Cardinality(Dirty \cup {x}) <= Cardinality(Dirty) + 1
    <3>1. /\ IsFiniteSet(Dirty \cup {x})
          /\ Cardinality(Dirty \cup {x}) \in {Cardinality(Dirty), Cardinality(Dirty) + 1}
      BY <1>2, FS_AddElement
    <3> QED BY <1>2, <3>1
  <2>3. /\ Cardinality(Dirty') <= Cardinality(Dirty \cup {x})
        /\ Cardinality(Dirty \cup {x}) \in Nat
    BY <2>1, <2>2, FS_Subset, FS_CardinalityType
  <2> QED BY <1>2, <1>3, <1>5, <2>2, <2>3 DEF FaultsCover
<1> QED BY <1>4, <1>5, SoundNext

(* On every engine a fault, be it a crash, a refused statement or a lost   *)
(* connection, of migrate or of a command, leaves the row and the effects  *)
(* of at most one plain file in disagreement.                              *)
THEOREM OneFilePerFault == Spec => []FaultTearsOneFile
<1>1. Init => Base /\ FaultsCover
  <2> SUFFICES ASSUME Init PROVE FaultsCover
    BY BaseInit
  <2>1. \A v \in Files : ~Unsound(v)
    <3>1. ASSUME NEW v PROVE ~Torn(v)
      BY DEF Init, Torn, Applied
    <3> QED BY <3>1 DEF Init, Unsound
  <2>2. Dirty = {}
    BY <2>1 DEF Dirty
  <2> QED BY <2>2, FS_EmptySet DEF FaultsCover, Init
<1>2. Base /\ FaultsCover /\ [Next]_vars => (Base /\ FaultsCover)'
  BY BaseNext, FaultsCoverNext
<1>3. FaultsCover => FaultTearsOneFile
  <2> SUFFICES ASSUME FaultsCover, pc = "idle"
               PROVE  Cardinality({v \in Reversible : Plain(v) /\ Torn(v)}) <= faults
    BY DEF FaultTearsOneFile
  <2>1. {v \in Reversible : Plain(v) /\ Torn(v)} = Dirty
    BY DEF Dirty, Files, Unsound
  <2> QED BY <2>1 DEF FaultsCover
<1> QED BY <1>1, <1>2, <1>3, PTL DEF Spec

(***************************************************************************)
(* On PostgreSQL nothing is torn.                                          *)
(***************************************************************************)

NothingTorn ==
  engine = "postgresql" => \A v \in Files : ~Torn(v) /\ ~Unsound(v)

LEMMA NothingTornNext == Base /\ NothingTorn /\ [Next]_vars => NothingTorn'
<1> SUFFICES ASSUME Base, NothingTorn, [Next]_vars, engine' = "postgresql", NEW v \in Files
             PROVE  ~Torn(v)' /\ ~Unsound(v)'
  BY DEF NothingTorn, Files, Plain, AutoOf
<1>1. engine = "postgresql"
  <2>1. CASE pc # "idle"
    BY <2>1, OnlyShrinks
  <2>2. CASE pc = "idle"
    BY <2>2, IdleSteps DEF vars, db, Environment, AddFile, LoseFile, Upgrade, Start
  <2> QED BY <2>1, <2>2
<1>2. ~Torn(v) /\ ~Unsound(v)
  BY <1>1 DEF NothingTorn
<1>3. CASE Revert
  <2>1. ~Unsound(v)'
    BY <1>2, <1>3, SoundRevert
  <2>2. CASE v = job' /\ pc' \in {"txn", "commit"}
    <3>1. UNCHANGED db
      <4>1. ~InnerDelete /\ \A k : ~ExecAutocommit(k)
        BY <2>2 DEF InnerDelete, ExecAutocommit, Base, Position, Files, cursor
      <4>2. ~StartAutocommit /\ ~TailDelete /\ ~Commit
        BY <2>2 DEF StartAutocommit, TailDelete, Commit, Files
      <4>3. \A k : ExecStatement(k) => UNCHANGED db
        BY <1>1 DEF ExecStatement, Undo
      <4>4. DeleteWithStatements => UNCHANGED db
        BY <1>1 DEF DeleteWithStatements, DeleteRow
      <4> QED BY <1>3, <4>1, <4>2, <4>3, <4>4 DEF Revert, Skip, Begin
    <3> QED BY <1>2, <2>1, <3>1, TornSame
  <2>3. CASE ~(v = job' /\ pc' \in {"txn", "commit"})
    BY <2>1, <2>3 DEF Unsound
  <2> QED BY <2>2, <2>3
<1>4. CASE Fail \/ Crash \/ Start \/ Finish \/ Close
  <2>1. UNCHANGED db /\ pc' \notin {"txn", "commit"}
    BY <1>4 DEF Fail, Crash, Start, Finish, Close, RollbackConnection
  <2> QED BY <1>2, <2>1, TornSame DEF Unsound
<1>5. CASE UNCHANGED vars \/ \E w \in Versions : AddFile(w) \/ LoseFile(w)
  <2>1. UNCHANGED <<db, conn, cursor, pc>>
    BY <1>5 DEF AddFile, LoseFile, vars
  <2>2. Unsound(v)' <=> Unsound(v)
    BY <2>1, TornSame DEF Unsound, Clean, db, conn, cursor, Applied
  <2> QED BY <1>2, <2>1, <2>2, TornSame
<1>6. ASSUME NEW w \in Versions, Upgrade(w) PROVE ~Torn(v)' /\ ~Unsound(v)'
  <2>1. pc' = "idle"
    BY <1>6 DEF Upgrade
  <2>2. faults \in Nat
    BY DEF Base, Position
  <2> QED BY <1>1, <1>2, <1>6, <2>1, <2>2, UpgradeTorn DEF Unsound
<1> QED BY <1>3, <1>4, <1>5, <1>6 DEF Next, Environment

(* On PostgreSQL the row of a plain file and its effects are always there  *)
(* or gone together, whatever fails and whenever the process dies.         *)
THEOREM RevertsAreAtomic == Spec => []RevertIsAtomic
<1>1. Init => Base /\ NothingTorn
  BY BaseInit DEF Init, NothingTorn, Unsound, Torn, Applied
<1>2. Base /\ NothingTorn /\ [Next]_vars => (Base /\ NothingTorn)'
  BY BaseNext, NothingTornNext
<1>3. NothingTorn => RevertIsAtomic
  BY DEF NothingTorn, RevertIsAtomic, Files, Torn
<1> QED BY <1>1, <1>2, <1>3, PTL DEF Spec

-----------------------------------------------------------------------------
(***************************************************************************)
(* The newest first.                                                       *)
(***************************************************************************)

InOrder == command = "count" \/ (command = "downgrade" /\ engine = "postgresql")

(* What has to go before v.                                                *)
Before(v) == LaterThan(v) \cap Revertible

(* What the command will revert, or has reverted and not committed.        *)
Scheduled == queue \cup gone \cup (IF pc \in InHand THEN {job} ELSE {})

Ordered ==
  InOrder =>
    /\ pc \in {"each"} \cup InHand => \A v \in queue \cap Applied : Before(v) \subseteq Scheduled
    /\ pc \in InHand => \A v \in {job} \cap Applied : Before(v) \subseteq gone
    /\ \A v \in gone \cap Applied : Before(v) \subseteq gone

(* A later version is Newer, and Newer orders the rows.                    *)
LEMMA NewerOrders ==
  ASSUME History, NEW u \in Applied, NEW v \in Applied
  PROVE  /\ u \in LaterThan(v) => Newer(u, v)
         /\ \A w \in Applied : Newer(w, u) /\ Newer(u, v) => Newer(w, v)
BY DEF History, LaterThan, Newer, Versions

(* The selection takes what is later than a version it takes.              *)
LEMMA LatestIsClosed ==
  ASSUME History, NEW n \in Nat, NEW v \in Latest(n), NEW u \in LaterThan(v), WithFile(u)
  PROVE  u \in Latest(n)
<1> DEFINE Newest(x) == {w \in Applied : Newer(w, x)}
<1>1. u \in Applied /\ v \in Applied
  BY DEF Latest, LaterThan
<1>2. Newest(u) \in SUBSET Newest(v)
  BY <1>1, NewerOrders
<1>3. IsFiniteSet(Newest(v))
  <2>1. Newest(v) \in SUBSET (1 .. NumVersions)
    BY DEF History, Versions
  <2>2. IsFiniteSet(1 .. NumVersions)
    BY RollbackAssumption, FS_Interval
  <2> QED BY <2>1, <2>2, FS_Subset
<1>4. /\ Cardinality(Newest(u)) <= Cardinality(Newest(v))
      /\ Cardinality(Newest(u)) \in Nat /\ Cardinality(Newest(v)) \in Nat
  BY <1>2, <1>3, FS_Subset, FS_CardinalityType
<1>5. Cardinality(Newest(v)) < n
  BY DEF Latest
<1>6. Cardinality(Newest(u)) < n
  BY <1>4, <1>5
<1> QED BY <1>1, <1>6 DEF Latest

(* The next version has nothing before it in the queue.                    *)
LEMMA NextIsNewest ==
  ASSUME History, InOrder, NEW v \in Applied, NextVersion(v)
  PROVE  Before(v) \cap queue = {}
<1> SUFFICES ASSUME NEW w \in LaterThan(v), w \in queue PROVE FALSE
  BY DEF Before
<1>1. ~Precedes(w, v) /\ w \in Applied
  BY DEF NextVersion, LaterThan
<1>2. Newer(w, v) /\ w > v
  BY <1>1, NewerOrders DEF LaterThan
<1> QED BY <1>1, <1>2 DEF InOrder, Precedes, Migrated

LEMMA SelectionIsClosed ==
  ASSUME History, Start, InOrder', pc' = "each",
         NEW v \in queue', NEW u \in LaterThan(v), u \in Revertible'
  PROVE  u \in queue'
<1>1. CASE command' = "count"
  <2>1. queue' = Latest(target') /\ target' \in Nat
    BY <1>1 DEF Start, Versions
  <2>2. WithFile(u)
    BY <1>1 DEF Start, Revertible, WithFile, files
  <2> QED BY <2>1, <2>2, LatestIsClosed
<1>2. CASE command' = "downgrade" /\ engine' = "postgresql"
  <2>1. queue' \in Above(target') /\ target' \in Versions
    BY <1>2 DEF Start
  <2>2. v \in Applied /\ v > target'
    BY <2>1 DEF Above
  <2>3. u \in Applied /\ u > target'
    BY <2>1, <2>2 DEF LaterThan, History, Versions
  <2>4. ToTarget'
    BY <1>2 DEF ToTarget
  <2> QED BY <2>3, <2>4, SelectionIsWhole
<1> QED BY <1>1, <1>2 DEF InOrder

(* The rows that a step deletes.                                           *)
LEMMA RowsGo ==
  ASSUME Base, [Next]_vars, pc # "idle"
  PROVE  \/ Applied' = Applied
         \/ Applied' = Applied \ gone
         \/ gone = {} /\ pc \in InHand /\ Applied' = Applied \ {job}
<1> DEFINE Goes == \/ Applied' = Applied
                   \/ Applied' = Applied \ gone
                   \/ gone = {} /\ pc \in InHand /\ Applied' = Applied \ {job}
<1>1. UNCHANGED db => Goes
  BY DEF db, Applied
<1>2. \A u : Persist(u, gone) => Goes
  BY Persisted
<1>3. \A u : Persist(u, {}) => Goes
  BY Persisted
<1>4. CommitConnection => Goes
  BY <1>2 DEF CommitConnection
<1>5. \A t : Undo(t) => Goes
  BY <1>1, <1>2, <1>3 DEF Undo
<1>6. pc \in InHand /\ DeleteRow(job) => Goes
  <2>1. engine = "clickhouse" => gone = {}
    BY DEF Base, Connection
  <2> QED BY <1>1, <2>1, Persisted DEF DeleteRow
<1>7. RollbackConnection => Goes
  BY <1>1 DEF RollbackConnection
<1> HIDE DEF Goes
<1>8. Revert => Goes
  BY <1>1, <1>3, <1>4, <1>5, <1>6
     DEF Revert, Skip, Begin, DeleteWithStatements, StartAutocommit, InnerDelete, Commit,
         TailDelete, ExecStatement, ExecAutocommit, InHand
<1>9. ~Revert => Goes
  BY <1>1, <1>7
     DEF Next, vars, Environment, AddFile, LoseFile, Upgrade, Start, Fail, Finish, Close, Crash
<1> QED BY <1>8, <1>9 DEF Goes

(* A row deleted in the open transaction stays so until it is committed.   *)
LEMMA GoneStays ==
  ASSUME Base, Revert
  PROVE  /\ \A w \in gone : w \in gone' \/ w \notin Applied'
         /\ \A w \in gone' : w \in gone \/ (w = job /\ job' = job /\ pc \in InHand)
<1> DEFINE Stays == \A w \in gone : w \in gone' \/ w \notin Applied'
           Comes == \A w \in gone' : w \in gone \/ (w = job /\ job' = job /\ pc \in InHand)
<1>1. gone' = gone => Stays /\ Comes
  OBVIOUS
<1>2. \A u : Persist(u, gone) /\ gone' = {} => Stays /\ Comes
  BY Persisted
<1>3. CommitConnection => Stays /\ Comes
  BY <1>2 DEF CommitConnection
<1>4. \A t : Undo(t) => Stays /\ Comes
  BY <1>1, <1>2 DEF Undo, conn
<1>5. pc \in InHand /\ job' = job /\ DeleteRow(job) => Stays /\ Comes
  BY <1>1 DEF DeleteRow, conn
<1> HIDE DEF Stays, Comes
<1>6. Stays /\ Comes
  BY <1>1, <1>3, <1>4, <1>5
     DEF Revert, Skip, Begin, DeleteWithStatements, StartAutocommit, InnerDelete, Commit,
         TailDelete, ExecStatement, ExecAutocommit, InHand, conn, cursor
<1> QED BY <1>6 DEF Stays, Comes

(* How the loop moves from one version to the next.                        *)
LEMMA LoopMoves ==
  ASSUME Base, Revert
  PROVE  \/ /\ queue' = queue /\ job' = job /\ pc \in InHand
            /\ pc' \in InHand \/ (pc' = "each" /\ (job \in gone' \/ job \notin Applied'))
         \/ \E v \in Versions :
              \/ Begin(v) /\ queue' = queue \ {v} /\ job' = v /\ pc = "each" /\ pc' = "txn"
              \/ /\ Skip(v) /\ queue' = queue \ {v} /\ pc = "each" /\ pc' = "each"
                 /\ InOrder => v \notin Revertible
<1> DEFINE Same == queue' = queue /\ job' = job /\ pc \in InHand
           Leaves == pc' = "each" /\ (job \in gone' \/ job \notin Applied')
<1>1. CASE \E v \in Versions : Begin(v)
  BY <1>1 DEF Begin, NextVersion
<1>2. ASSUME NEW v \in Versions, Skip(v)
      PROVE  /\ Skip(v) /\ queue' = queue \ {v} /\ pc = "each" /\ pc' = "each"
             /\ InOrder => v \notin Revertible
  BY <1>2 DEF Skip, NextVersion, InOrder, Revertible
<1>3. CASE Commit
  <2>1. Same
    BY <1>3 DEF Commit, InHand
  <2>2. job \notin Applied'
    BY <1>3, Persisted DEF Commit, CommitConnection, Base, Position
  <2> QED BY <1>3, <2>1, <2>2 DEF Commit, InHand
<1>4. CASE TailDelete
  <2>1. Same
    BY <1>4 DEF TailDelete, InHand, cursor
  <2>2. job \in gone' \/ job \notin Applied'
    BY <1>4, Persisted DEF TailDelete, DeleteRow
  <2> QED BY <1>4, <2>1, <2>2 DEF TailDelete
<1>5. CASE \/ DeleteWithStatements \/ StartAutocommit \/ InnerDelete
           \/ \E k : ExecStatement(k) \/ ExecAutocommit(k)
  BY <1>5 DEF DeleteWithStatements, StartAutocommit, InnerDelete, ExecStatement, ExecAutocommit,
              InHand, cursor
<1> HIDE DEF Same, Leaves
<1> QED BY <1>1, <1>2, <1>3, <1>4, <1>5 DEF Revert

LEMMA BeforeShrinks ==
  ASSUME [Next]_vars, pc # "idle", NEW v \in Applied'
  PROVE  /\ v \in Applied
         /\ \A w \in Before(v)' : w \in Before(v) /\ w \in Applied' /\ w \in Revertible
BY OnlyShrinks DEF Before, LaterThan

LEMMA OrderedRevert ==
  ASSUME Base, History, Ordered, Revert, InOrder, InOrder'
  PROVE  Ordered'
<1>0. pc # "idle" /\ [Next]_vars
  BY DEF Next, Revert, Skip, Begin, NextVersion, DeleteWithStatements, StartAutocommit, InnerDelete,
         Commit, TailDelete, ExecStatement, ExecAutocommit
<1>1. \A v \in Applied' :
        v \in Applied /\ \A w \in Before(v)' : w \in Before(v) /\ w \in Applied' /\ w \in Revertible
  BY <1>0, BeforeShrinks
<1>2. \A w \in gone : w \in gone' \/ w \notin Applied'
  BY GoneStays
<1>3. ASSUME pc' \in {"each"} \cup InHand, NEW v \in queue', v \in Applied', NEW w \in Before(v)'
      PROVE  w \in Scheduled'
  <2>1. w \in Before(v) /\ w \in Applied' /\ w \in Revertible /\ v \in Applied
    BY <1>1, <1>3
  <2>2. v \in queue /\ pc \in {"each"} \cup InHand
    BY <1>3, LoopMoves
  <2>3. w \in queue \/ w \in gone \/ (pc \in InHand /\ w = job)
    BY <2>1, <2>2 DEF Ordered, Scheduled
  <2>4. Scheduled' = queue' \cup gone' \cup (IF pc' \in InHand THEN {job'} ELSE {})
    BY DEF Scheduled
  <2>5. w \in queue' \/ w \in gone' \/ (pc' \in InHand /\ w = job')
    <3>1. CASE w \in gone
      BY <1>2, <2>1, <3>1
    <3>2. CASE w \in queue
      BY <2>1, <3>2, LoopMoves DEF InHand
    <3>3. CASE pc \in InHand /\ w = job
      BY <2>1, <3>3, LoopMoves DEF InHand
    <3> QED BY <2>3, <3>1, <3>2, <3>3
  <2> QED BY <2>4, <2>5
<1>4. ASSUME pc' \in InHand, NEW v \in Applied', v = job', NEW w \in Before(v)'
      PROVE  w \in gone'
  <2>1. w \in Before(v) /\ w \in Applied' /\ v \in Applied
    BY <1>1, <1>4
  <2>2. CASE Begin(v) /\ pc = "each"
    <3>1. v \in queue /\ NextVersion(v)
      BY <2>2 DEF Begin, NextVersion
    <3>2. w \notin queue
      BY <2>1, <3>1, NextIsNewest
    <3>3. w \in gone
      BY <2>1, <2>2, <3>1, <3>2 DEF Ordered, Scheduled, InHand
    <3> QED BY <1>2, <2>1, <3>3
  <2>3. CASE job' = job /\ pc \in InHand
    BY <1>2, <1>4, <2>1, <2>3 DEF Ordered
  <2> QED BY <1>4, <2>2, <2>3, LoopMoves DEF InHand
<1>5. ASSUME NEW v \in gone', v \in Applied', NEW w \in Before(v)'
      PROVE  w \in gone'
  <2>1. w \in Before(v) /\ w \in Applied' /\ v \in Applied
    BY <1>1, <1>5
  <2>2. v \in gone \/ (v = job /\ pc \in InHand)
    BY <1>5, GoneStays
  <2> QED BY <1>2, <2>1, <2>2 DEF Ordered
<1>6. /\ pc' \in {"each"} \cup InHand =>
           \A v \in queue' \cap Applied' : Before(v)' \subseteq Scheduled'
      /\ pc' \in InHand => \A v \in {job'} \cap Applied' : Before(v)' \subseteq gone'
      /\ \A v \in gone' \cap Applied' : Before(v)' \subseteq gone'
  BY <1>3, <1>4, <1>5
<1> QED BY <1>6 DEF Ordered

LEMMA OrderedNext == Base /\ History /\ Ordered /\ [Next]_vars => Ordered'
<1> SUFFICES ASSUME Base, History, Ordered, [Next]_vars, InOrder' PROVE Ordered'
  BY DEF Ordered
<1>1. CASE pc = "idle" /\ Start
  <2>1. gone' = {} /\ Applied' = Applied /\ pc' \notin InHand
    BY <1>1 DEF Start, Base, Connection, Applied, db, InHand
  <2>2. ASSUME pc' = "each", NEW v \in queue', NEW w \in Before(v)' PROVE w \in queue'
    <3>1. w \in LaterThan(v) /\ w \in Revertible'
      BY <1>1, <2>2 DEF Before, LaterThan, Applied, Start, db
    <3> QED BY <1>1, <2>2, <3>1, SelectionIsClosed
  <2> QED BY <2>1, <2>2 DEF Ordered, Scheduled
<1>2. CASE pc = "idle" /\ ~Start
  <2>1. pc' = "idle" /\ gone' = {}
    BY <1>2, IdleSteps DEF Base, Connection, vars, conn, Environment, AddFile, LoseFile, Upgrade
  <2> QED BY <2>1 DEF Ordered, InHand
<1>3. CASE pc # "idle"
  <2>1. InOrder
    BY <1>3, OnlyShrinks DEF InOrder
  <2>2. CASE Revert
    BY <2>1, <2>2, OrderedRevert
  <2>3. \A v \in Applied' : v \in Applied /\ Before(v)' \subseteq Before(v)
    BY <1>3, BeforeShrinks
  <2>4. CASE Fail \/ Finish \/ Close \/ Crash
    <3>1. pc' \notin {"each"} \cup InHand /\ (gone' = gone \/ gone' = {})
      BY <2>4 DEF Fail, Finish, Close, Crash, RollbackConnection, InHand, conn
    <3> QED BY <2>1, <2>3, <3>1 DEF Ordered
  <2>5. CASE UNCHANGED vars \/ \E v \in Versions : LoseFile(v)
    <3>1. queue' = queue /\ job' = job /\ gone' = gone /\ pc' = pc
      BY <2>5 DEF LoseFile, vars, conn, cursor
    <3>2. Scheduled' = Scheduled
      BY <3>1 DEF Scheduled
    <3> QED BY <2>1, <2>3, <3>1, <3>2 DEF Ordered
  <2> QED BY <1>3, <2>2, <2>4, <2>5 DEF Next, Environment, AddFile, Upgrade, Start
<1> QED BY <1>1, <1>2, <1>3

(* rollback --count, and downgrade on PostgreSQL, never revert a version   *)
(* while a later one that they could revert stays applied, on any engine,  *)
(* in any transaction, after any fault.                                    *)
THEOREM NewestRevertedFirst == Spec => NewestFirst
<1>1. Init => Base /\ History /\ Ordered
  BY BaseInit DEF Init, History, Applied, Ordered, InHand
<1>2. Base /\ History /\ Ordered /\ [Next]_vars => (Base /\ History /\ Ordered)'
  BY BaseNext, HistoryNext, OrderedNext
<1>3. Base /\ Ordered /\ [Next]_vars => [InOrder => KeepsOrder]_vars
  <2> SUFFICES ASSUME Base, Ordered, [Next]_vars, InOrder,
                      NEW v \in Applied \ Applied', NEW w \in Before(v), w \in Applied'
               PROVE  FALSE
    BY DEF KeepsOrder, Before
  <2>1. pc # "idle"
    <3>1. UNCHANGED rows \/ (\E u \in Versions : Upgrade(u)) => Applied \subseteq Applied'
      BY DEF Upgrade, Applied
    <3> QED BY <3>1, IdleSteps DEF vars, db, Environment, AddFile, LoseFile, Start
  <2>2. CASE Applied' = Applied \ gone
    BY <2>2 DEF Ordered
  <2>3. CASE gone = {} /\ pc \in InHand /\ Applied' = Applied \ {job}
    BY <2>3 DEF Ordered
  <2> QED BY <2>1, <2>2, <2>3, RowsGo
<1>4. NewestFirst <=> [][InOrder => KeepsOrder]_vars
  BY DEF NewestFirst, InOrder
<1> QED BY <1>1, <1>2, <1>3, <1>4, PTL DEF Spec

==============================================================================
