--------------------------- MODULE SqliteLockProofs ---------------------------
(***************************************************************************)
(* What SqliteLock guarantees for any number of processes, of any users,   *)
(* over any directory and any number of crashes: no statement is committed *)
(* twice, a history row stands for its file and for those before it, and   *)
(* with one pending file the lock is the one that was promised.            *)
(***************************************************************************)
EXTENDS SqliteLock, TLAPS, FiniteSetTheorems, WellFoundedInduction

Running == {"load", "next", "file", "commit"}

LockType ==
  /\ body \in Seq(Seq({"ddl", "dml"}))
  /\ writer \in Procs \cup {None}
  /\ pc \in [Procs -> PCs]
  /\ plan \in [Procs -> SUBSET Files]
  /\ step \in [Procs -> Nat \ {0}]
  /\ history \subseteq Files

(* The write lock belongs to a process that runs; what is uncommitted is   *)
(* of the file it has in hand, and is its row only at the commit.          *)
WriterRuns ==
  /\ writer = None => dirty = {} /\ dirtyRows = {}
  /\ \A p \in Procs : writer = p =>
       /\ pc[p] \in Running
       /\ IF Migrating(p) THEN dirty \subseteq Statements(File(p)) ELSE dirty = {}
       /\ pc[p] # "commit" => dirtyRows = {}

(* A commit is of a complete file that nobody has recorded.                *)
CommitReady ==
  \A p \in Procs : pc[p] = "commit" =>
    /\ writer = p /\ dirtyRows = {File(p)}
    /\ File(p) \notin history
    /\ step[p] \notin DOMAIN body[File(p)]

(* What the cursor has passed is durable or in the transaction.            *)
CursorMeans ==
  \A p \in Procs : Migrating(p) =>
    /\ plan[p] # {}
    /\ \A k \in DOMAIN body[File(p)] : k < step[p] =>
         <<File(p), k>> \in done \/ (writer = p /\ <<File(p), k>> \in dirty)

(* What lies outside the plan is recorded, also when others have applied   *)
(* files in the meantime.                                                  *)
PlanTail ==
  \A p \in Procs : pc[p] \in {"next", "file", "commit"} => Files \ plan[p] \subseteq history

(* Only DDL is ever durable without the row of its file, and DDL is not    *)
(* executed over its own effect.                                           *)
EffectsNew ==
  \A f \in Files : \A k \in DOMAIN body[f] :
    /\ body[f][k] = "dml" /\ <<f, k>> \in done => f \in history
    /\ <<f, k>> \in dirty \cap done => body[f][k] = "dml"

(* With one pending file, its lock is kept until it is committed.          *)
OneFileLock ==
  Len(body) = 1 =>
    \A p \in Procs :
      pc[p] \in {"load", "file", "commit"} \/ (pc[p] = "next" /\ plan[p] # {}) => writer = p

LockInv ==
  /\ LockType /\ WriterRuns /\ CommitReady /\ CursorMeans /\ PlanTail
  /\ EffectsNew /\ OneFileLock /\ AppliedOnce /\ HistoryHonest

-----------------------------------------------------------------------------
(* Files are numbered, so that one of those that are left is the first:    *)
(* the shortest of the initial segments of S ends with it.                 *)
LEMMA SmallestMember ==
  ASSUME NEW n \in Nat, NEW S \in SUBSET (1 .. n), S # {}
  PROVE  \E m \in S : \A k \in S : m <= k
<1> DEFINE Segment(m) == {k \in S : k <= m}
           Segments == {Segment(m) : m \in S}
<1>1. IsWellFoundedOn(StrictSubsetOrdering(S), SUBSET S)
  <2>1. IsFiniteSet(S)
    <3>1. IsFiniteSet(1 .. n)
      BY FS_Interval
    <3> QED BY <3>1, FS_Subset
  <2> QED BY <2>1, FS_FiniteSubsetsOfFinite, FS_StrictSubsetOrderingWellFounded
<1>2. PICK T \in Segments : \A U \in Segments : <<U, T>> \notin StrictSubsetOrdering(S)
  <2>1. Segments \subseteq SUBSET S /\ Segments # {}
    OBVIOUS
  <2> HIDE DEF Segments
  <2> QED BY <1>1, <2>1, WFMin
<1>3. PICK m \in S : T = Segment(m)
  BY <1>2
<1>4. ASSUME NEW k \in S, k < m PROVE FALSE
  <2>1. Segment(k) \subseteq Segment(m)
    <3>1. ASSUME NEW x \in S, x <= k PROVE x <= m
      <4>1. x \in Int /\ k \in Int /\ m \in Int
        OBVIOUS
      <4> QED BY <1>4, <3>1, <4>1
    <3> QED BY <3>1
  <2>2. m \in Segment(m) /\ m \notin Segment(k)
    <3>1. k \in Int /\ m \in Int
      OBVIOUS
    <3> QED BY <1>4, <3>1
  <2>3. <<Segment(k), Segment(m)>> \in StrictSubsetOrdering(S)
    <3>1. Segment(k) \in SUBSET S /\ Segment(m) \in SUBSET S /\ Segment(k) # Segment(m)
      BY <2>2
    <3> HIDE DEF Segment
    <3> QED BY <2>1, <3>1 DEF StrictSubsetOrdering
  <2> QED BY <1>2, <1>3, <2>3
<1> QED BY <1>4

(* The file in hand is the first of the plan.                              *)
LEMMA FirstFile ==
  ASSUME LockType, NEW p \in Procs, plan[p] # {}
  PROVE  /\ File(p) \in plan[p] /\ File(p) \in Files
         /\ \A g \in plan[p] : File(p) <= g
<1>1. plan[p] \in SUBSET (1 .. Len(body)) /\ Len(body) \in Nat
  BY DEF LockType, Files
<1>2. \E f \in plan[p] : \A g \in plan[p] : f <= g
  BY <1>1, SmallestMember
<1> QED BY <1>1, <1>2 DEF File, Files

LEMMA SameFile ==
  ASSUME NEW p \in Procs, plan'[p] = plan[p]
  PROVE  File(p)' = File(p)
BY DEF File

LEMMA LockInvInit == Init => LockInv
<1> SUFFICES ASSUME Init PROVE LockInv
  OBVIOUS
<1> USE DEF Init
<1>1. LockType
  BY FilesAssumption DEF LockType, PCs, Files
<1>2. WriterRuns /\ CommitReady /\ CursorMeans /\ PlanTail
  BY NoneAssumption DEF WriterRuns, CommitReady, CursorMeans, PlanTail, Migrating
<1>3. EffectsNew /\ OneFileLock /\ AppliedOnce /\ HistoryHonest
  BY DEF EffectsNew, OneFileLock, AppliedOnce, HistoryHonest
<1> QED BY <1>1, <1>2, <1>3 DEF LockInv

(* A step of a process that neither runs nor begins to.                    *)
LEMMA OutsideStep ==
  ASSUME LockInv, NEW p \in Procs, NEW l \in PCs \ Running,
         pc[p] \notin Running, pc' = [pc EXCEPT ![p] = l],
         UNCHANGED <<body, db, txn, local>>
  PROVE  LockInv'
<1> USE DEF LockInv, db, txn, local, Running
<1>1. \A q \in Procs : File(q)' = File(q)
  BY SameFile
<1>2. \A q \in Procs : Migrating(q)' <=> Migrating(q)
  BY DEF LockType, Migrating
<1>3. LockType'
  BY DEF LockType, Files
<1>4. WriterRuns'
  BY <1>1, <1>2 DEF WriterRuns, LockType, Statements
<1>5. CommitReady' /\ PlanTail' /\ OneFileLock'
  BY <1>1 DEF CommitReady, PlanTail, OneFileLock, LockType, Files
<1>6. CursorMeans'
  BY <1>1, <1>2 DEF CursorMeans
<1>7. EffectsNew' /\ AppliedOnce' /\ HistoryHonest'
  BY DEF EffectsNew, AppliedOnce, HistoryHonest, Statements, Files
<1> QED BY <1>3, <1>4, <1>5, <1>6, <1>7

(* A process that stops running: its transaction is rolled back.           *)
LEMMA LeaveStep ==
  ASSUME LockInv, NEW p \in Procs, NEW l \in PCs \ Running,
         RollbackWriter(p), pc' = [pc EXCEPT ![p] = l],
         UNCHANGED <<body, local>>
  PROVE  LockInv'
<1> USE DEF LockInv, db, txn, local, Running
<1>1. \A q \in Procs : File(q)' = File(q)
  BY SameFile
<1>2. /\ \A q \in Procs \ {p} : Migrating(q)' <=> Migrating(q)
      /\ ~ Migrating(p)'
  BY DEF LockType, Migrating
<1>3. /\ UNCHANGED <<done, redone, history>>
      /\ \/ writer = p /\ writer' = None /\ dirty' = {} /\ dirtyRows' = {}
         \/ writer # p /\ UNCHANGED <<writer, dirty, dirtyRows>>
  BY DEF RollbackWriter
<1>4. LockType'
  BY <1>3 DEF LockType, Files
<1>5. WriterRuns'
  BY <1>1, <1>2, <1>3, NoneAssumption DEF WriterRuns, LockType, Statements
<1>6. CommitReady'
  BY <1>1, <1>3 DEF CommitReady, LockType
<1>7. PlanTail' /\ OneFileLock'
  BY <1>3 DEF PlanTail, OneFileLock, LockType, Files
<1>8. CursorMeans'
  BY <1>1, <1>2, <1>3 DEF CursorMeans
<1>9. EffectsNew' /\ AppliedOnce' /\ HistoryHonest'
  BY <1>3 DEF EffectsNew, AppliedOnce, HistoryHonest, Statements, Files
<1> QED BY <1>4, <1>5, <1>6, <1>7, <1>8, <1>9

LEMMA BeginStep ==
  ASSUME LockInv, NEW p \in Procs, BeginImmediate(p)
  PROVE  LockInv'
<1> USE DEF LockInv, db, local, Running, BeginImmediate, Goto
<1>1. \A q \in Procs : File(q)' = File(q)
  BY SameFile
<1>2. \A q \in Procs : Migrating(q)' <=> Migrating(q)
  BY DEF LockType, Migrating
<1>3. LockType'
  BY DEF LockType, Files, PCs
<1>4. WriterRuns'
  BY <1>1, <1>2, NoneAssumption DEF WriterRuns, LockType, Statements, Migrating
<1>5. CommitReady' /\ PlanTail' /\ CursorMeans'
  BY <1>1, <1>2, NoneAssumption DEF CommitReady, PlanTail, CursorMeans, LockType, Files
<1>6. OneFileLock'
  BY NoneAssumption DEF OneFileLock, LockType
<1>7. EffectsNew' /\ AppliedOnce' /\ HistoryHonest'
  BY DEF EffectsNew, AppliedOnce, HistoryHonest, Statements, Files
<1> QED BY <1>3, <1>4, <1>5, <1>6, <1>7

LEMMA LoadStep ==
  ASSUME LockInv, NEW p \in Procs, LoadHistory(p)
  PROVE  LockInv'
<1> USE DEF LockInv, db, txn, Running, LoadHistory, Goto
<1>1. \A q \in Procs \ {p} : File(q)' = File(q)
  BY SameFile DEF LockType
<1>2. (\A q \in Procs : Migrating(q)' <=> Migrating(q)) /\ ~ Migrating(p)
  BY DEF LockType, Migrating
<1>3. LockType'
  BY DEF LockType, Files, PCs
<1>4. WriterRuns'
  BY <1>1, <1>2 DEF WriterRuns, LockType, Statements
<1>5. CommitReady' /\ CursorMeans'
  BY <1>1, <1>2 DEF CommitReady, CursorMeans, LockType, Migrating
<1>6. PlanTail' /\ OneFileLock'
  BY DEF PlanTail, OneFileLock, LockType, Files
<1>7. EffectsNew' /\ AppliedOnce' /\ HistoryHonest'
  BY DEF EffectsNew, AppliedOnce, HistoryHonest, Statements, Files
<1> QED BY <1>3, <1>4, <1>5, <1>6, <1>7

LEMMA StartStep ==
  ASSUME LockInv, NEW p \in Procs, StartFile(p)
  PROVE  LockInv'
<1> USE DEF LockInv, db, txn, Running, StartFile, Goto
<1>1. \A q \in Procs : File(q)' = File(q)
  BY SameFile
<1>2. \A q \in Procs \ {p} : Migrating(q)' <=> Migrating(q)
  BY DEF LockType, Migrating
<1>3. LockType'
  BY DEF LockType, Files, PCs
<1>4. WriterRuns'
  BY <1>1, <1>2 DEF WriterRuns, LockType, Statements, Migrating
<1>5. CommitReady'
  BY <1>1 DEF CommitReady, LockType
<1>6. CursorMeans'
  <2>1. \A k \in DOMAIN body[File(p)] : ~ (k < 1)
    BY FirstFile DEF LockType, Files
  <2> QED BY <1>1, <1>2, <2>1 DEF CursorMeans, LockType
<1>7. PlanTail' /\ OneFileLock'
  BY DEF PlanTail, OneFileLock, LockType, Files
<1>8. EffectsNew' /\ AppliedOnce' /\ HistoryHonest'
  BY DEF EffectsNew, AppliedOnce, HistoryHonest, Statements, Files
<1> QED BY <1>3, <1>4, <1>5, <1>6, <1>7, <1>8

(* A statement is either committed by itself, for the first time, or it    *)
(* joins the transaction of the process.                                   *)
LEMMA ExecStep ==
  ASSUME LockInv, NEW p \in Procs, ExecStatement(p)
  PROVE  LockInv'
<1> USE DEF LockInv, Running
<1> DEFINE f == File(p)
           s == <<f, step[p]>>
<1>1. /\ pc[p] = "file" /\ step[p] \in DOMAIN body[f] /\ ~ Rejected(s)
      /\ writer \in {None, p}
      /\ step' = [step EXCEPT ![p] = @ + 1]
      /\ UNCHANGED <<body, history, dirtyRows, pc, plan>>
  BY DEF ExecStatement, CanWrite, db, txn
<1>2. \/ /\ body[f][step[p]] = "ddl" /\ writer = None
         /\ done' = done \cup {s} /\ redone' = redone \cup ({s} \cap done)
         /\ UNCHANGED <<writer, dirty>>
      \/ /\ writer' = p /\ dirty' = dirty \cup {s}
         /\ UNCHANGED <<done, redone>>
  BY DEF ExecStatement, db, txn
<1>3. Migrating(p) /\ plan[p] # {} /\ f \in Files
  BY <1>1, FirstFile DEF Migrating, CursorMeans
<1>4. \A q \in Procs : File(q)' = File(q) /\ (Migrating(q)' <=> Migrating(q))
  BY <1>1, SameFile DEF Migrating
<1>5. s \in done \cup dirty => body[f][step[p]] # "ddl"
  BY <1>1 DEF Rejected
<1>6. body[f][step[p]] \in {"ddl", "dml"}
  <2>1. body[f] \in Seq({"ddl", "dml"})
    BY <1>3 DEF LockType, Files
  <2> QED BY <1>1, <2>1
<1>7. step[p] \in Nat \ {0} /\ step'[p] = step[p] + 1
      /\ \A q \in Procs \ {p} : step'[q] = step[q]
  BY <1>1 DEF LockType
<1>8. f \notin history \/ f \in history
  OBVIOUS
<1> HIDE DEF f, s
<1>9. LockType'
  BY <1>1, <1>2, <1>7 DEF LockType, Files
<1>10. WriterRuns'
  <2>1. s \in Statements(f)
    BY <1>1 DEF s, Statements
  <2>2. \A q \in Procs : Statements(File(q))' = Statements(File(q))
    BY <1>1, <1>4 DEF Statements
  <2>3. writer' = None => dirty' = {} /\ dirtyRows' = {}
    BY <1>1, <1>2, NoneAssumption DEF WriterRuns
  <2>4. ASSUME NEW q \in Procs, writer' = q
        PROVE  /\ pc'[q] \in Running
               /\ IF Migrating(q)' THEN dirty' \subseteq Statements(File(q))' ELSE dirty' = {}
               /\ pc'[q] # "commit" => dirtyRows' = {}
    <3>1. q = p /\ writer' = p /\ dirty' = dirty \cup {s}
      BY <1>1, <1>2, <2>4, NoneAssumption
    <3>2. dirty \subseteq Statements(f) /\ dirtyRows = {}
      BY <1>1, <1>3, NoneAssumption DEF WriterRuns, f
    <3>3. Migrating(q)' /\ dirty' \subseteq Statements(File(q))'
      BY <1>3, <1>4, <2>1, <2>2, <3>1, <3>2 DEF f
    <3> QED BY <1>1, <3>1, <3>2, <3>3
  <2> QED BY <2>3, <2>4 DEF WriterRuns
<1>11. CommitReady'
  BY <1>1, <1>2, <1>4, <1>7, NoneAssumption DEF CommitReady, LockType
<1>12. CursorMeans'
  <2>1. \A k \in DOMAIN body[f] : k < step[p] + 1 => k < step[p] \/ k = step[p]
    BY <1>3, <1>7 DEF LockType, Files
  <2> QED BY <1>1, <1>2, <1>3, <1>4, <1>7, <2>1, NoneAssumption DEF CursorMeans, f, s
<1>13. PlanTail' /\ OneFileLock'
  BY <1>1, <1>2, NoneAssumption DEF PlanTail, OneFileLock, Files
<1>14. EffectsNew'
  BY <1>1, <1>2, <1>5, <1>6 DEF EffectsNew, WriterRuns, Files, s
<1>15. AppliedOnce'
  BY <1>2, <1>5 DEF AppliedOnce
<1>16. HistoryHonest'
  BY <1>1, <1>2 DEF HistoryHonest, Statements, Files
<1> QED BY <1>9, <1>10, <1>11, <1>12, <1>13, <1>14, <1>15, <1>16

LEMMA RecordStep ==
  ASSUME LockInv, NEW p \in Procs, Record(p)
  PROVE  LockInv'
<1> USE DEF LockInv, db, local, Running
<1>1. /\ pc[p] = "file" /\ step[p] \notin DOMAIN body[File(p)]
      /\ writer \in {None, p} /\ File(p) \notin history
      /\ writer' = p /\ dirtyRows' = dirtyRows \cup {File(p)}
      /\ pc' = [pc EXCEPT ![p] = "commit"]
      /\ UNCHANGED <<body, done, redone, history, dirty, plan, step>>
  BY DEF Record, CanWrite, Goto
<1>2. \A q \in Procs : File(q)' = File(q) /\ (Migrating(q)' <=> Migrating(q))
  BY <1>1, SameFile DEF Migrating, LockType
<1>3. LockType'
  BY <1>1 DEF LockType, Files, PCs
<1>4. WriterRuns'
  BY <1>1, <1>2, NoneAssumption DEF WriterRuns, LockType, Statements, Migrating
<1>5. CommitReady'
  BY <1>1, <1>2, NoneAssumption DEF CommitReady, LockType, WriterRuns
<1>6. CursorMeans'
  BY <1>1, <1>2, NoneAssumption DEF CursorMeans
<1>7. PlanTail' /\ OneFileLock'
  BY <1>1, NoneAssumption DEF PlanTail, OneFileLock, LockType, Files
<1>8. EffectsNew' /\ AppliedOnce' /\ HistoryHonest'
  BY <1>1 DEF EffectsNew, AppliedOnce, HistoryHonest, Statements, Files
<1> QED BY <1>3, <1>4, <1>5, <1>6, <1>7, <1>8

(* The commit: everything of the file is in it, nothing of it is durable   *)
(* that is not DDL committed by itself, and nobody else is at a commit.    *)
LEMMA CommitStep ==
  ASSUME LockInv, NEW p \in Procs, Commit(p)
  PROVE  LockInv'
<1> USE DEF LockInv, Running
<1> DEFINE f == File(p)
<1>1. /\ pc[p] = "commit"
      /\ done' = done \cup dirty /\ redone' = redone \cup (done \cap dirty)
      /\ history' = history \cup dirtyRows
      /\ writer' = None /\ dirty' = {} /\ dirtyRows' = {}
      /\ plan' = [plan EXCEPT ![p] = @ \ {f}]
      /\ pc' = [pc EXCEPT ![p] = "next"]
      /\ UNCHANGED <<body, step>>
  BY DEF Commit, Goto
<1>2. Migrating(p) /\ plan[p] # {} /\ f \in Files
  BY <1>1, FirstFile DEF Migrating, CursorMeans
<1>3. writer = p /\ dirtyRows = {f} /\ f \notin history /\ step[p] \notin DOMAIN body[f]
  BY <1>1 DEF CommitReady
<1>4. dirty \subseteq Statements(f)
  BY <1>2, <1>3 DEF WriterRuns
<1>5. \A q \in Procs \ {p} : File(q)' = File(q) /\ (Migrating(q)' <=> Migrating(q))
  BY <1>1, SameFile DEF Migrating, LockType
<1>6. ~ Migrating(p)' /\ \A q \in Procs : q # p => pc[q] # "commit"
  BY <1>1, <1>3 DEF Migrating, LockType, CommitReady
<1>7. done \cap dirty = {}
  BY <1>2, <1>3, <1>4 DEF EffectsNew, Statements
<1>8. Statements(f) \subseteq done \cup dirty
  <2>1. \A k \in DOMAIN body[f] : k < step[p]
    <3>1. DOMAIN body[f] = 1 .. Len(body[f]) /\ Len(body[f]) \in Nat
      BY <1>2 DEF LockType, Files
    <3>2. step[p] \in Nat \ {0}
      BY DEF LockType
    <3> QED BY <1>3, <3>1, <3>2
  <2> QED BY <1>2, <2>1 DEF CursorMeans, Statements
<1> HIDE DEF f
<1>9. LockType'
  BY <1>1, <1>2, <1>3 DEF LockType, Files, PCs
<1>10. WriterRuns' /\ CommitReady'
  BY <1>1, <1>6, NoneAssumption DEF WriterRuns, CommitReady, LockType
<1>11. CursorMeans'
  BY <1>1, <1>3, <1>5, <1>6 DEF CursorMeans, LockType
<1>12. PlanTail'
  BY <1>1, <1>3 DEF PlanTail, LockType, Files
<1>13. OneFileLock'
  <2>1. SUFFICES ASSUME Len(body) = 1, NEW q \in Procs,
                        \/ pc'[q] \in {"load", "file", "commit"}
                        \/ pc'[q] = "next" /\ plan'[q] # {}
                 PROVE  FALSE
    BY <1>1 DEF OneFileLock
  <2>2. CASE q = p
    <3>1. plan[p] \subseteq {1} /\ f = 1
      BY <1>2, <2>1 DEF LockType, Files
    <3> QED BY <1>1, <2>1, <2>2, <3>1 DEF LockType
  <2>3. CASE q # p
    BY <1>1, <1>3, <2>1, <2>3 DEF OneFileLock, LockType
  <2> QED BY <2>2, <2>3
<1>14. EffectsNew'
  BY <1>1, <1>3, <1>4 DEF EffectsNew, Statements, Files
<1>15. AppliedOnce'
  BY <1>1, <1>7 DEF AppliedOnce
<1>16. HistoryHonest'
  <2>1. \A g \in Files : g < f => g \in history
    <3>1. \A g \in plan[p] : f <= g
      BY <1>2, FirstFile DEF f
    <3>2. \A g \in Files : g \notin plan[p] => g \in history
      BY <1>1 DEF PlanTail
    <3>3. \A g \in Files : g < f => ~ (f <= g)
      BY <1>2 DEF LockType, Files
    <3> QED BY <3>1, <3>2, <3>3
  <2> QED BY <1>1, <1>3, <1>8, <2>1 DEF HistoryHonest, Statements, Files
<1> QED BY <1>9, <1>10, <1>11, <1>12, <1>13, <1>14, <1>15, <1>16

LEMMA LockInvStep == LockInv /\ [Next]_vars => LockInv'
<1> SUFFICES ASSUME LockInv, [Next]_vars PROVE LockInv'
  OBVIOUS
<1>1. ASSUME NEW p \in Procs, Process(p) \/ Crash(p) PROVE LockInv'
  <2>1. CASE \/ CheckHolder(p) \/ ClaimRow(p) \/ ClaimTimeout(p) \/ LoseRace(p)
             \/ GiveUp(p) \/ Release(p)
    <3>1. /\ pc[p] \notin Running
          /\ \E l \in PCs \ Running : pc' = [pc EXCEPT ![p] = l]
          /\ UNCHANGED <<body, db, txn, local>>
      BY <2>1 DEF CheckHolder, ClaimRow, ClaimTimeout, LoseRace, GiveUp, Release, Goto,
                  PCs, Running
    <3> QED BY <3>1, OutsideStep
  <2>2. CASE FailFile(p) \/ FinishFiles(p) \/ Crash(p)
    <3>1. /\ RollbackWriter(p)
          /\ \E l \in PCs \ Running : pc' = [pc EXCEPT ![p] = l]
          /\ UNCHANGED <<body, local>>
      BY <2>2 DEF FailFile, FinishFiles, Crash, Goto, PCs, Running
    <3> QED BY <3>1, LeaveStep
  <2> QED
    BY <1>1, <2>1, <2>2, BeginStep, LoadStep, StartStep, ExecStep, RecordStep, CommitStep
    DEF Process, Acquire, Migrate
<1>2. CASE UNCHANGED vars
  <2> USE <1>2 DEF LockInv, vars, db, txn, local
  <2>1. \A q \in Procs : File(q)' = File(q) /\ (Migrating(q)' <=> Migrating(q))
    BY SameFile DEF Migrating
  <2>2. LockType' /\ WriterRuns' /\ CommitReady' /\ CursorMeans'
    BY <2>1 DEF LockType, WriterRuns, CommitReady, CursorMeans, Files, Statements
  <2>3. PlanTail' /\ EffectsNew' /\ OneFileLock' /\ AppliedOnce' /\ HistoryHonest'
    BY DEF PlanTail, EffectsNew, OneFileLock, AppliedOnce, HistoryHonest, Files, Statements
  <2> QED BY <2>2, <2>3
<1> QED BY <1>1, <1>2 DEF Next

LEMMA LockInvariant == Spec => []LockInv
BY LockInvInit, LockInvStep, PTL DEF Spec

(* However many invocations run over the same directory, and although the  *)
(* first commit of run_migration gives the write lock of BEGIN IMMEDIATE   *)
(* away, no statement is committed twice: the history row with its unique  *)
(* filename is in the transaction of the DML, and DDL is refused.          *)
THEOREM EffectsCommittedOnce == Spec => []AppliedOnce
<1>1. LockInv => AppliedOnce
  BY DEF LockInv
<1> QED BY <1>1, LockInvariant, PTL

(* A committed history row stands for all statements of its file and for   *)
(* all files before it, whoever applied which of them.                     *)
THEOREM HistoryStandsForEffects == Spec => []HistoryHonest
<1>1. LockInv => HistoryHonest
  BY DEF LockInv
<1> QED BY <1>1, LockInvariant, PTL

Holders == IF Len(body) = 1 THEN {p \in Procs : Migrating(p)} ELSE {}

(* Where a step takes its process.                                         *)
LEMMA ProcessMoves ==
  ASSUME NEW p \in Procs, Process(p) \/ Crash(p)
  PROVE  /\ UNCHANGED body
         /\ \/ pc' = pc
            \/ StartFile(p) /\ pc' = [pc EXCEPT ![p] = "file"]
            \/ pc[p] = "file" /\ pc' = [pc EXCEPT ![p] = "commit"]
            \/ \E l \in PCs \ {"file", "commit"} : pc' = [pc EXCEPT ![p] = l]
<1> USE DEF Goto, PCs
<1>1. CASE CheckHolder(p) \/ ClaimRow(p) \/ ClaimTimeout(p)
  BY <1>1 DEF CheckHolder, ClaimRow, ClaimTimeout
<1>2. CASE BeginImmediate(p) \/ LoseRace(p) \/ GiveUp(p)
  BY <1>2 DEF BeginImmediate, LoseRace, GiveUp
<1>3. CASE LoadHistory(p) \/ StartFile(p) \/ ExecStatement(p)
  BY <1>3 DEF LoadHistory, StartFile, ExecStatement
<1>4. CASE Record(p) \/ Commit(p)
  BY <1>4 DEF Record, Commit
<1>5. CASE FailFile(p) \/ FinishFiles(p)
  BY <1>5 DEF FailFile, FinishFiles
<1>6. CASE Release(p) \/ Crash(p)
  BY <1>6 DEF Release, Crash
<1> QED BY <1>1, <1>2, <1>3, <1>4, <1>5, <1>6 DEF Process, Acquire, Migrate

(* With one pending file, a process takes a file in hand only when nobody  *)
(* has, and leaves it as the only one that had.                            *)
LEMMA HoldersStep == LockInv /\ [Next]_vars => [Lock!Next]_Holders
<1> SUFFICES ASSUME LockInv, [Next]_vars
             PROVE  Lock!Next \/ Holders' = Holders
  OBVIOUS
<1>1. CASE UNCHANGED vars
  BY <1>1 DEF vars, Holders, Migrating
<1>2. ASSUME NEW p \in Procs, Process(p) \/ Crash(p)
      PROVE  Lock!Next \/ Holders' = Holders
  <2>1. UNCHANGED body
    BY <1>2, ProcessMoves
  <2>2. CASE Len(body) # 1
    BY <2>1, <2>2 DEF Holders
  <2>3. CASE Len(body) = 1
    <3>1. /\ Holders = {q \in Procs : Migrating(q)}
          /\ Holders' = {q \in Procs : Migrating(q)'}
      BY <2>1, <2>3 DEF Holders
    <3>2. \A q \in Procs \ {p} : Migrating(q)' <=> Migrating(q)
      BY <1>2, ProcessMoves DEF Migrating, LockInv, LockType
    <3>3. \A q \in Procs : Migrating(q) => writer = q
      BY <2>3 DEF LockInv, OneFileLock, Migrating
    <3>4. CASE Migrating(p)' <=> Migrating(p)
      BY <3>1, <3>2, <3>4
    <3>5. CASE Migrating(p) /\ ~ Migrating(p)'
      <4>1. Holders = {p} /\ Holders' = {}
        BY <3>1, <3>2, <3>3, <3>5
      <4> QED BY <4>1 DEF Lock!Next, Lock!Release, Holders
    <3>6. CASE ~ Migrating(p) /\ Migrating(p)'
      <4>1. StartFile(p)
        BY <1>2, <3>6, ProcessMoves DEF Migrating, LockInv, LockType
      <4>2. writer = p
        BY <2>3, <4>1 DEF StartFile, OneFileLock, LockInv
      <4>3. Holders = {} /\ Holders' = {p}
        BY <3>1, <3>2, <3>3, <3>6, <4>2
      <4> QED BY <4>3 DEF Lock!Next, Lock!Acquire, Holders
    <3> QED BY <3>4, <3>5, <3>6
  <2> QED BY <2>2, <2>3
<1> QED BY <1>1, <1>2 DEF Next

(* SQLiteStrategy keeps what acquire_lock promises as long as one file is  *)
(* pending: the runs exclude one another although every process reads the  *)
(* status row before it claims it and may take a live holder for dead.     *)
THEOREM OneFileLockKept == Spec => LockSpec
<1>1. Init => Lock!Init
  BY DEF Init, Lock!Init, Migrating
<1>2. LockInv /\ [Next]_vars => [Lock!Next]_Holders
  BY HoldersStep
<1> QED BY <1>1, <1>2, LockInvariant, PTL DEF Spec, LockSpec, Lock!Spec, Holders
==============================================================================
