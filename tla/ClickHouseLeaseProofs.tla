------------------------ MODULE ClickHouseLeaseProofs ------------------------
(***************************************************************************)
(* For any number of invocations, files and faults, and the INSERT as      *)
(* ClickHouse executes it: runs that overlap are noticed, a heartbeat      *)
(* renews only its own lease, runs overlap only after a race or the loss   *)
(* of a lease, what it takes to lose one, and who can share a token.       *)
(***************************************************************************)
EXTENDS ClickHouseLease, SequenceTheorems, WellFoundedInduction, TLAPS

Rows == [owner : Procs, token : Nat \ {0}, left : Nat]

LeaseType ==
  /\ rows \in Seq(Rows)
  /\ token \in [Procs -> Nat]

-----------------------------------------------------------------------------

LEMMA RowTypes ==
  ASSUME NEW rs \in Seq(Rows)
  PROVE  /\ Len(rs) \in Nat /\ DOMAIN rs = 1 .. Len(rs)
         /\ rs # <<>> => Len(rs) \in DOMAIN rs
         /\ \A i \in DOMAIN rs : /\ rs[i] \in Rows /\ rs[i].token \in Nat \ {0}
                                /\ rs[i].owner \in Procs /\ rs[i].left \in Nat
<1>1. Len(rs) \in Nat /\ DOMAIN rs = 1 .. Len(rs) /\ (rs # <<>> => Len(rs) \in DOMAIN rs)
  OBVIOUS
<1>2. \A i \in DOMAIN rs : rs[i] \in Rows
  OBVIOUS
<1>3. \A r \in Rows : r.token \in Nat \ {0} /\ r.owner \in Procs /\ r.left \in Nat
  BY DEF Rows
<1> QED BY <1>1, <1>2, <1>3

LEMMA Minimum ==
  ASSUME NEW T, T \subseteq Nat, T # {}
  PROVE  \E x \in T : \A y \in T : x <= y
<1> DEFINE R == {ss \in Nat \X Nat : ss[1] < ss[2]}
<1>1. IsWellFoundedOn(R, Nat)
  BY NatLessThanWellFounded DEF OpToRel
<1>2. \A x, y \in Nat : y < x => <<y, x>> \in R
  OBVIOUS
<1> HIDE DEF R
<1>3. PICK x \in T : \A y \in T : ~ (<<y, x>> \in R)
  BY <1>1, WFMin
<1>4. ASSUME NEW y \in T PROVE x <= y
  <2>1. x \in Nat /\ y \in Nat
    OBVIOUS
  <2>2. ~ (<<y, x>> \in R)
    BY <1>3
  <2>3. ~ (y < x)
    BY <1>2, <2>1, <2>2
  <2> QED BY <2>1, <2>3
<1> QED BY <1>4

(* A table with rows has a row that FINAL returns, whatever the tokens: of *)
(* the prefixes without a last row of the highest token there would be a   *)
(* shortest one, and the row at its end would be or keep the one sought.   *)
LastGreatest(f, n) ==
  \E i \in 1 .. n : \A j \in 1 .. n : \/ f[j] < f[i]
                                      \/ f[j] = f[i] /\ j <= i

LEMMA GreatestOfNext ==
  ASSUME NEW n \in Nat \ {0}, NEW f, \A i \in 1 .. (n + 1) : f[i] \in Nat,
         LastGreatest(f, n)
  PROVE  LastGreatest(f, n + 1)
<1>1. PICK i \in 1 .. n : \A j \in 1 .. n : \/ f[j] < f[i]
                                            \/ f[j] = f[i] /\ j <= i
  BY DEF LastGreatest
<1>2. \A j \in 1 .. (n + 1) : j \in 1 .. n \/ j = n + 1
  OBVIOUS
<1>3. \A j \in 1 .. n : f[j] \in Nat /\ f[j] <= f[i] /\ j < n + 1
  <2>1. \A j \in 1 .. n : j \in 1 .. (n + 1) /\ j < n + 1
    OBVIOUS
  <2> QED BY <1>1, <2>1
<1>4. /\ f[i] \in Nat /\ f[n + 1] \in Nat
      /\ i \in 1 .. (n + 1) /\ n + 1 \in 1 .. (n + 1)
  OBVIOUS
<1>5. CASE f[n + 1] < f[i]
  <2>1. \A j \in 1 .. (n + 1) : \/ f[j] < f[i]
                                \/ f[j] = f[i] /\ j <= i
    BY <1>1, <1>2, <1>5
  <2> QED BY <1>4, <2>1 DEF LastGreatest
<1>6. CASE f[i] <= f[n + 1]
  <2>1. ASSUME NEW j \in 1 .. (n + 1)
        PROVE  \/ f[j] < f[n + 1]
               \/ f[j] = f[n + 1] /\ j <= n + 1
    <3>1. CASE j \in 1 .. n
      BY <1>3, <1>4, <1>6, <3>1
    <3>2. CASE j = n + 1
      BY <3>2
    <3> QED BY <1>2, <3>1, <3>2
  <2> QED BY <1>4, <2>1 DEF LastGreatest
<1> QED BY <1>4, <1>5, <1>6

LEMMA GreatestExists ==
  ASSUME NEW N \in Nat \ {0}, NEW f, \A i \in 1 .. N : f[i] \in Nat
  PROVE  LastGreatest(f, N)
<1> DEFINE T == {n \in 1 .. N : ~ LastGreatest(f, n)}
<1> SUFFICES ASSUME T # {} PROVE FALSE
  OBVIOUS
<1>1. T \subseteq Nat
  OBVIOUS
<1>2. \E n \in T : \A y \in T : n <= y
  <2> HIDE DEF T
  <2> QED BY <1>1, Minimum
<1>3. PICK n \in T : \A y \in T : n <= y
  BY <1>2
<1>4. n \in Nat /\ 1 <= n /\ n <= N /\ ~ LastGreatest(f, n)
  OBVIOUS
<1>5. n # 1
  <2>1. LastGreatest(f, 1)
    <3>1. 1 \in 1 .. N /\ \A j \in 1 .. 1 : j = 1
      OBVIOUS
    <3> QED BY <3>1 DEF LastGreatest
  <2> QED BY <1>4, <2>1
<1>6. n - 1 \in 1 .. N /\ n - 1 \notin T
  <2>1. n - 1 \in 1 .. N /\ ~ (n <= n - 1)
    BY <1>4, <1>5
  <2> HIDE DEF T
  <2> QED BY <1>3, <2>1
<1>7. LastGreatest(f, n - 1)
  BY <1>6
<1> HIDE DEF T
<1>8. /\ n - 1 \in Nat \ {0} /\ (n - 1) + 1 = n
      /\ \A i \in 1 .. ((n - 1) + 1) : f[i] \in Nat
  BY <1>4, <1>5
<1>9. LastGreatest(f, (n - 1) + 1)
  BY <1>7, <1>8, GreatestOfNext
<1> QED BY <1>4, <1>8, <1>9

LEMMA CurrentRow ==
  ASSUME rows \in Seq(Rows), rows # <<>>
  PROVE  \E i \in DOMAIN rows : IsCurrent(i) /\ Current = rows[i]
<1>1. /\ Len(rows) \in Nat \ {0} /\ DOMAIN rows = 1 .. Len(rows)
      /\ \A i \in 1 .. Len(rows) : rows[i].token \in Nat
  BY RowTypes DEF LeaseType
<1> DEFINE f == [i \in 1 .. Len(rows) |-> rows[i].token]
<1>2. LastGreatest(f, Len(rows))
  <2>1. \A i \in 1 .. Len(rows) : f[i] \in Nat
    BY <1>1
  <2> HIDE DEF f
  <2> QED BY <1>1, <2>1, GreatestExists
<1>3. \E i \in DOMAIN rows : IsCurrent(i)
  BY <1>1, <1>2 DEF IsCurrent, LastGreatest
<1> QED BY <1>3 DEF Current

LEMMA CurrentRowNext ==
  ASSUME rows' \in Seq(Rows), rows' # <<>>
  PROVE  \E i \in DOMAIN rows' : Current' = rows'[i]
<1>1. (rows \in Seq(Rows) /\ rows # <<>> =>
        \E i \in DOMAIN rows : IsCurrent(i) /\ Current = rows[i])'
  BY CurrentRow, PTL
<1> QED BY <1>1

LEMMA CurrentToken ==
  ASSUME rows \in Seq(Rows)
  PROVE  /\ Current.token \in Nat
         /\ \A i \in DOMAIN rows : rows[i].token <= Current.token
<1>1. CASE rows = <<>>
  BY <1>1 DEF Current
<1>2. CASE rows # <<>>
  <2>1. PICK i \in DOMAIN rows : IsCurrent(i) /\ Current = rows[i]
    BY <1>2, CurrentRow
  <2>2. \A j \in DOMAIN rows : rows[j].token \in Nat
    BY RowTypes DEF LeaseType
  <2> QED BY <2>1, <2>2 DEF IsCurrent
<1> QED BY <1>1, <1>2

LEMMA CurrentTokenNext ==
  ASSUME rows' \in Seq(Rows)
  PROVE  /\ Current'.token \in Nat
         /\ \A i \in DOMAIN rows' : rows'[i].token <= Current'.token
<1>1. (rows \in Seq(Rows) => /\ Current.token \in Nat
                             /\ \A i \in DOMAIN rows : rows[i].token <= Current.token)'
  BY CurrentToken, PTL
<1> QED BY <1>1

(* The same rows, renewed, released or aged: the same one counts.          *)
KeptRows ==
  /\ rows' \in Seq(Rows) /\ DOMAIN rows' = DOMAIN rows
  /\ \A i \in DOMAIN rows : /\ rows'[i].owner = rows[i].owner
                             /\ rows'[i].token = rows[i].token

LEMMA SameCurrent ==
  ASSUME LeaseType, KeptRows, rows # <<>>
  PROVE  \E i \in DOMAIN rows : Current = rows[i] /\ Current' = rows'[i]
<1>1. \A i \in DOMAIN rows : IsCurrent(i)' <=> IsCurrent(i)
  BY DEF IsCurrent, KeptRows
<1>2. (CHOOSE i \in DOMAIN rows' : IsCurrent(i)') = CHOOSE i \in DOMAIN rows : IsCurrent(i)
  BY <1>1 DEF KeptRows
<1>3. rows' # <<>>
  <2>1. /\ Len(rows) \in Nat \ {0} /\ DOMAIN rows = 1 .. Len(rows)
    BY RowTypes DEF LeaseType
  <2>2. DOMAIN rows' = 1 .. Len(rows)
    BY <2>1 DEF KeptRows
  <2> QED BY <2>1, <2>2
<1>4. \E i \in DOMAIN rows : IsCurrent(i)
  BY CurrentRow DEF LeaseType
<1> DEFINE k == CHOOSE i \in DOMAIN rows : IsCurrent(i)
<1>5. k \in DOMAIN rows
  BY <1>4
<1>6. Current = rows[k]
  BY DEF Current
<1>7. Current' = rows'[k]
  BY <1>2, <1>3 DEF Current
<1> QED BY <1>5, <1>6, <1>7

LEMMA KeptWhenSame == LeaseType /\ UNCHANGED rows => KeptRows
BY DEF LeaseType, KeptRows

LEMMA BeatKeeps ==
  ASSUME LeaseType, NEW p \in Procs, Beat(p)
  PROVE  KeptRows
<1>1. rows' = [i \in DOMAIN rows |-> Renewed(p, rows[i])]
  BY DEF Beat
<1>2. \A r \in Rows : /\ Renewed(p, r) \in Rows
                      /\ Renewed(p, r).owner = r.owner /\ Renewed(p, r).token = r.token
  BY TtlAssumption DEF Rows, Renewed
<1>3. rows' \in Seq(Rows)
  <2>1. /\ Len(rows) \in Nat /\ DOMAIN rows = 1 .. Len(rows)
        /\ \A i \in DOMAIN rows : rows[i] \in Rows
    BY RowTypes DEF LeaseType
  <2> QED BY <1>1, <1>2, <2>1
<1> QED BY <1>1, <1>2, <1>3, RowTypes DEF LeaseType, KeptRows

LEMMA ReleaseKeeps ==
  ASSUME LeaseType, NEW p \in Procs, Release(p)
  PROVE  KeptRows
<1> DEFINE Freed(r) == [r EXCEPT !.left = 0]
<1>1. rows' = [i \in DOMAIN rows |-> Freed(rows[i])]
  BY DEF Release
<1>2. \A r \in Rows : /\ Freed(r) \in Rows
                      /\ Freed(r).owner = r.owner /\ Freed(r).token = r.token
  BY DEF Rows
<1> HIDE DEF Freed
<1>3. rows' \in Seq(Rows)
  <2>1. /\ Len(rows) \in Nat /\ DOMAIN rows = 1 .. Len(rows)
        /\ \A i \in DOMAIN rows : rows[i] \in Rows
    BY RowTypes DEF LeaseType
  <2> QED BY <1>1, <1>2, <2>1
<1> QED BY <1>1, <1>2, <1>3, RowTypes DEF LeaseType, KeptRows

LEMMA TickKeeps == LeaseType /\ Tick => KeptRows
<1> SUFFICES ASSUME LeaseType, Tick PROVE KeptRows
  OBVIOUS
<1> DEFINE Aged(r) == [r EXCEPT !.left = IF @ = 0 THEN 0 ELSE @ - 1]
<1>1. rows' = [i \in DOMAIN rows |-> Aged(rows[i])]
  BY DEF Tick
<1>2. \A r \in Rows : /\ Aged(r) \in Rows
                      /\ Aged(r).owner = r.owner /\ Aged(r).token = r.token
  BY DEF Rows
<1> HIDE DEF Aged
<1>3. rows' \in Seq(Rows)
  <2>1. /\ Len(rows) \in Nat /\ DOMAIN rows = 1 .. Len(rows)
        /\ \A i \in DOMAIN rows : rows[i] \in Rows
    BY RowTypes DEF LeaseType
  <2> QED BY <1>1, <1>2, <2>1
<1> QED BY <1>1, <1>2, <1>3, RowTypes DEF LeaseType, KeptRows

-----------------------------------------------------------------------------
(***************************************************************************)
(* Runs that overlap.                                                      *)
(***************************************************************************)
Begun(p) == pc[p] \notin {"new", "insert", "verify"}

(* A token that was selected is one that can be inserted; the token of a   *)
(* run that was granted the lease is not beyond the current one.           *)
TokensKnown ==
  /\ DOMAIN pc = Procs
  /\ \A p \in Procs : pc[p] = "insert" => token[p] # 0
  /\ \A p \in Procs : Running(p) => token[p] <= Current.token

(* Whoever was met has begun to migrate, and keeps its token for good.     *)
MetBegun ==
  /\ met \in [Procs -> SUBSET Procs]
  /\ \A p \in Procs : \A q \in met[p] : Begun(p) /\ Begun(q) /\ token[q] <= Current.token

OverlapInv == LeaseType /\ TokensKnown /\ MetBegun /\ OverlapReported

(***************************************************************************)
(* What a step does to the table, in general: it keeps the rows, adds one  *)
(* or drops all but the current.                                           *)
(***************************************************************************)
AddsRow == \E r \in Rows : rows' = Append(rows, r)
DropsRows == rows # <<>> /\ rows' = <<Current>>

LEMMA InsertAdds ==
  ASSUME NEW p \in Procs, NEW t \in Nat \ {0}, NEW l \in TimeLeft(p)
  PROVE  Lease(p, t, l) \in Rows
BY TtlAssumption DEF Lease, Rows, TimeLeft

LEMMA RowsStep == LeaseType /\ TokensKnown /\ [Next]_vars => KeptRows \/ AddsRow \/ DropsRows
<1> SUFFICES ASSUME LeaseType, TokensKnown, [Next]_vars
             PROVE  KeptRows \/ AddsRow \/ DropsRows
  OBVIOUS
<1>2. ASSUME NEW p \in Procs, InsertSelected(p) PROVE AddsRow
  <2>1. token[p] \in Nat \ {0}
    BY <1>2 DEF InsertSelected, TokensKnown, LeaseType
  <2> QED BY <1>2, <2>1, InsertAdds DEF InsertSelected, AddsRow
<1>3. ASSUME NEW p \in Procs, SelectLease(p) \/ VerifyLease(p) \/ Migrate(p) \/ LoseBeat(p)
                              \/ Pause(p) \/ Resume(p) \/ Crash(p)
      PROVE  KeptRows
  <2>1. UNCHANGED rows
    BY <1>3 DEF SelectLease, VerifyLease, Migrate, StartFile, AbortFatal, Execute, FailFile,
                CheckToken, FinishRun, LoseBeat, Pause, Resume, Crash, lease
  <2> QED BY <2>1, KeptWhenSame
<1>4. CASE UNCHANGED vars
  BY <1>4, KeptWhenSame DEF vars, lease
<1>5. CASE Merge
  <2>1. rows # <<>>
    BY <1>5 DEF Merge
  <2> QED BY <1>5, <2>1 DEF Merge, DropsRows
<1> QED BY <1>2, <1>3, <1>4, <1>5, BeatKeeps, ReleaseKeeps, TickKeeps
       DEF Next, Thread, Acquire, Heartbeat

(* Nothing takes the current token back.                                   *)
LEMMA CurrentGrows ==
  ASSUME LeaseType, KeptRows \/ AddsRow \/ DropsRows
  PROVE  rows' \in Seq(Rows) /\ Current.token <= Current'.token
<1>1. CASE KeptRows
  <2>1. CASE rows = <<>>
    <3>1. Len(rows) = 0 /\ DOMAIN rows = {}
      BY <2>1
    <3>2. rows' \in Seq(Rows) /\ DOMAIN rows' = {}
      BY <1>1, <3>1 DEF KeptRows
    <3>3. rows' = <<>>
      BY <3>2
    <3> QED BY <2>1, <3>2, <3>3 DEF Current
  <2>2. CASE rows # <<>>
    BY <1>1, <2>2, SameCurrent, CurrentToken DEF KeptRows, LeaseType
  <2> QED BY <2>1, <2>2
<1>2. CASE AddsRow
  <2>1. PICK r \in Rows : rows' = Append(rows, r)
    BY <1>2 DEF AddsRow
  <2>2. /\ rows' \in Seq(Rows) /\ Len(rows) \in Nat
        /\ \A i \in 1 .. Len(rows) : rows'[i] = rows[i]
        /\ DOMAIN rows' = 1 .. (Len(rows) + 1) /\ DOMAIN rows = 1 .. Len(rows)
    BY <2>1, AppendProperties DEF LeaseType
  <2>3. /\ Current'.token \in Nat
        /\ \A i \in DOMAIN rows' : rows'[i].token <= Current'.token
    BY <2>2, CurrentTokenNext
  <2>4. CASE rows = <<>>
    BY <2>2, <2>3, <2>4 DEF Current
  <2>5. CASE rows # <<>>
    <3>1. PICK i \in DOMAIN rows : Current = rows[i]
      BY <2>5, CurrentRow DEF LeaseType
    <3>2. i \in DOMAIN rows' /\ rows'[i] = rows[i]
      BY <2>2
    <3> QED BY <2>2, <2>3, <3>1, <3>2
  <2> QED BY <2>4, <2>5
<1>3. CASE DropsRows
  <2>1. Current \in Rows
    BY <1>3, CurrentRow, RowTypes DEF LeaseType, DropsRows
  <2>2. rows' \in Seq(Rows) /\ rows' # <<>> /\ DOMAIN rows' = {1} /\ rows'[1] = Current
    BY <1>3, <2>1 DEF DropsRows
  <2>3. Current' = Current
    BY <2>2, CurrentRowNext
  <2> QED BY <2>2, <2>3, CurrentToken DEF LeaseType
<1> QED BY <1>1, <1>2, <1>3

LEMMA TokensKnownStep == LeaseType /\ TokensKnown /\ [Next]_vars => LeaseType' /\ TokensKnown'
<1> SUFFICES ASSUME LeaseType, TokensKnown, [Next]_vars
             PROVE  LeaseType' /\ TokensKnown'
  OBVIOUS
<1>1. rows' \in Seq(Rows) /\ Current.token <= Current'.token
  BY RowsStep, CurrentGrows
<1>2. /\ Current.token \in Nat /\ Current'.token \in Nat
      /\ \A p \in Procs : token[p] \in Nat
  BY <1>1, CurrentToken, CurrentTokenNext DEF LeaseType
<1> DEFINE Granted(p) ==
      /\ pc[p] = "verify" /\ pc' = [pc EXCEPT ![p] = "between"]
      /\ token' = [token EXCEPT ![p] = Current.token]
           Selected(p) ==
      /\ pc[p] = "new" /\ token' = [token EXCEPT ![p] = NextToken]
      /\ pc' = [pc EXCEPT ![p] = "insert"] \/ pc' = [pc EXCEPT ![p] = "verify"]
           Further(p) ==
      /\ token' = token
      /\ \E l \in {"new", "verify", "between", "file", "check", "release", "gone"} :
           pc' = [pc EXCEPT ![p] = l]
      /\ Running(p)' => Running(p)
<1>3. \/ \E p \in Procs : Granted(p) \/ Selected(p) \/ Further(p)
      \/ UNCHANGED <<pc, token>>
  <2>1. ASSUME NEW p \in Procs, Acquire(p) \/ InsertSelected(p)
        PROVE  Granted(p) \/ Selected(p) \/ Further(p)
    BY <2>1 DEF Acquire, SelectLease, InsertSelected, VerifyLease, Goto, Running,
                TokensKnown
  <2>2. ASSUME NEW p \in Procs, Migrate(p) \/ Release(p) \/ Crash(p)
        PROVE  Further(p)
    BY <2>2 DEF Migrate, StartFile, AbortFatal, Execute, FailFile, CheckToken, FinishRun,
                Release, Crash, Goto, Running, lease, TokensKnown
  <2>3. ASSUME NEW p \in Procs, Heartbeat(p) \/ Pause(p) \/ Resume(p)
        PROVE  UNCHANGED <<pc, token>>
    BY <2>3 DEF Heartbeat, Beat, LoseBeat, Pause, Resume, lease
  <2>4. Tick \/ Merge \/ UNCHANGED vars => UNCHANGED <<pc, token>>
    BY DEF Tick, Merge, vars, lease
  <2> QED BY <2>1, <2>2, <2>3, <2>4 DEF Next, Thread
<1>4. CASE UNCHANGED <<pc, token>>
  BY <1>1, <1>2, <1>4 DEF LeaseType, TokensKnown, Running
<1>5. ASSUME NEW p \in Procs, Granted(p) PROVE LeaseType' /\ TokensKnown'
  BY <1>1, <1>2, <1>5 DEF LeaseType, TokensKnown, Running
<1>6. ASSUME NEW p \in Procs, Selected(p) PROVE LeaseType' /\ TokensKnown'
  BY <1>1, <1>2, <1>6 DEF LeaseType, TokensKnown, Running, NextToken
<1>7. ASSUME NEW p \in Procs, Further(p) PROVE LeaseType' /\ TokensKnown'
  BY <1>1, <1>2, <1>7 DEF LeaseType, TokensKnown, Running
<1> QED BY <1>3, <1>4, <1>5, <1>6, <1>7

(* A step that neither begins a run nor a file: those who have met keep    *)
(* their tokens, and one of them is between two files only if it was       *)
(* before, or has been warned.                                             *)
LEMMA MeetingsKept ==
  ASSUME OverlapInv, LeaseType', TokensKnown', Current.token <= Current'.token,
         UNCHANGED met, warned \subseteq warned',
         \A p \in Procs : Begun(p) => Begun(p)' /\ token'[p] = token[p],
         \A p \in Procs : met[p] # {} /\ pc'[p] = "between" =>
           pc[p] = "between" \/ (Advanced(p) => p \in warned')
  PROVE  OverlapInv'
<1> USE DEF OverlapInv
<1>1. /\ Current.token \in Nat /\ Current'.token \in Nat
      /\ \A p \in Procs : token[p] \in Nat /\ token'[p] \in Nat
  BY CurrentToken, CurrentTokenNext DEF LeaseType
<1>2. MetBegun'
  BY <1>1 DEF MetBegun
<1>3. OverlapReported'
  <2> SUFFICES ASSUME NEW p \in Procs, NEW q \in Procs, q \in met'[p],
                      pc'[p] = "between", token'[p] < token'[q]
               PROVE  p \in warned'
    BY DEF OverlapReported
  <2>1. q \in met[p] /\ Begun(p) /\ Begun(q) /\ token[q] <= Current.token
    BY DEF MetBegun
  <2>2. token[p] < token[q]
    BY <2>1
  <2>3. Advanced(p)
    BY <1>1, <2>1, <2>2 DEF Advanced
  <2>4. CASE pc[p] = "between"
    BY <2>1, <2>2, <2>4 DEF OverlapReported
  <2> QED BY <2>1, <2>3, <2>4
<1> QED BY <1>2, <1>3

LEMMA OverlapInvStep == OverlapInv /\ [Next]_vars => OverlapInv'
<1> SUFFICES ASSUME OverlapInv, [Next]_vars PROVE OverlapInv'
  OBVIOUS
<1> USE DEF OverlapInv
<1>1. LeaseType' /\ TokensKnown' /\ Current.token <= Current'.token
  BY TokensKnownStep, RowsStep, CurrentGrows
<1>2. ASSUME NEW p \in Procs, Acquire(p) \/ InsertSelected(p) PROVE OverlapInv'
  <2>1. /\ pc[p] \in {"new", "insert", "verify"}
        /\ UNCHANGED watch
        /\ \A q \in Procs \ {p} : pc'[q] = pc[q] /\ token'[q] = token[q]
    BY <1>2 DEF Acquire, SelectLease, InsertSelected, VerifyLease, Goto,
                TokensKnown, LeaseType
  <2>2. met[p] = {}
    BY <2>1 DEF MetBegun, Begun
  <2>3. \A q \in Procs : Begun(q) => Begun(q)' /\ token'[q] = token[q]
    BY <2>1 DEF Begun
  <2>4. \A q \in Procs : met[q] # {} /\ pc'[q] = "between" => pc[q] = "between"
    BY <2>1, <2>2
  <2> QED BY <1>1, <2>1, <2>3, <2>4, MeetingsKept DEF watch
<1>3. ASSUME NEW p \in Procs, StartFile(p) PROVE OverlapInv'
  <2> DEFINE others == {q \in Procs \ {p} : Migrating(q)}
  <2>1. /\ pc[p] = "between" /\ pc' = [pc EXCEPT ![p] = "file"] /\ UNCHANGED <<lease, warned>>
        /\ met' = [q \in Procs |-> IF q = p THEN others
                                   ELSE IF q \in others THEN met[q] \cup {p} ELSE met[q]]
    BY <1>3 DEF StartFile, Goto
  <2>2. Current' = Current
    BY <2>1 DEF lease, Current, IsCurrent
  <2>3. \A q \in Procs : Begun(q) => Begun(q)'
    BY <2>1 DEF Begun, TokensKnown
  <2>4. \A q \in others : Begun(q) /\ token[q] <= Current.token
    BY DEF Migrating, Begun, TokensKnown, Running
  <2>5. Begun(p) /\ token[p] <= Current.token
    BY <2>1 DEF Begun, TokensKnown, Running
  <2>6. MetBegun'
    <3>1. met' \in [Procs -> SUBSET Procs]
      BY <2>1 DEF MetBegun
    <3>2. ASSUME NEW r \in Procs, NEW q \in met'[r]
          PROVE  Begun(r)' /\ Begun(q)' /\ token'[q] <= Current'.token
      <4>1. q \in Procs /\ Begun(r) /\ Begun(q) /\ token[q] <= Current.token
        BY <2>1, <2>4, <2>5, <3>1 DEF MetBegun
      <4> QED BY <2>1, <2>2, <2>3, <4>1 DEF lease
    <3> QED BY <3>1, <3>2 DEF MetBegun
  <2>7. \A q \in Procs : pc'[q] = "between" => /\ pc[q] = "between" /\ met'[q] = met[q]
    BY <2>1 DEF Migrating, TokensKnown
  <2>8. OverlapReported'
    BY <2>1, <2>7 DEF OverlapReported, lease
  <2> QED BY <1>1, <2>6, <2>8
<1>4. ASSUME NEW p \in Procs,
             AbortFatal(p) \/ Execute(p) \/ FailFile(p) \/ CheckToken(p) \/ FinishRun(p)
             \/ Release(p) \/ Crash(p)
      PROVE  OverlapInv'
  <2>1. UNCHANGED <<token, met>> /\ warned \subseteq warned'
    BY <1>4 DEF AbortFatal, Execute, FailFile, CheckToken, FinishRun, Release, Crash,
                lease, watch
  <2>2. \E l \in {"between", "file", "check", "release", "gone"} :
          pc' = [pc EXCEPT ![p] = l] /\ (l = "between" /\ Advanced(p) => p \in warned')
    BY <1>4 DEF AbortFatal, Execute, FailFile, CheckToken, FinishRun, Release, Crash, Goto
  <2>3. /\ \A q \in Procs : Begun(q) => Begun(q)'
        /\ \A q \in Procs : pc'[q] = "between" =>
             pc[q] = "between" \/ (Advanced(q) => q \in warned')
    BY <2>2 DEF Begun, TokensKnown
  <2> QED BY <1>1, <2>1, <2>3, MeetingsKept
<1>5. ASSUME NEW p \in Procs, Heartbeat(p) \/ Pause(p) \/ Resume(p) PROVE OverlapInv'
  <2>1. UNCHANGED <<token, met, warned, pc>>
    BY <1>5 DEF Heartbeat, Beat, LoseBeat, Pause, Resume, lease, watch
  <2>2. \A q \in Procs : Begun(q) => Begun(q)'
    BY <2>1 DEF Begun
  <2> QED BY <1>1, <2>1, <2>2, MeetingsKept
<1>6. CASE Tick \/ Merge \/ UNCHANGED vars
  <2>1. UNCHANGED <<token, met, warned, pc>>
    BY <1>6 DEF Tick, Merge, vars, lease, watch
  <2>2. \A q \in Procs : Begun(q) => Begun(q)'
    BY <2>1 DEF Begun
  <2> QED BY <1>1, <2>1, <2>2, MeetingsKept
<1> QED BY <1>2, <1>3, <1>4, <1>5, <1>6 DEF Next, Thread, Migrate

LEMMA OverlapInvariant == Spec => []OverlapInv
<1>1. Init => OverlapInv
  BY DEF Init, OverlapInv, LeaseType, TokensKnown, MetBegun, OverlapReported, Running
<1>2. OverlapInv /\ [Next]_vars => OverlapInv'
  BY OverlapInvStep
<1> QED BY <1>1, <1>2, PTL DEF Spec

(* Two runs that applied files at the same time do not both go unnoticed:  *)
(* the one with the older token has printed POSSIBLE_CONCURRENT_EXECUTION  *)
(* when its file is done.  For any number of suspended processes, lost     *)
(* heartbeats and crashes, and however many looked for a lease at once.    *)
THEOREM OverlapNoticed == Spec => []OverlapReported
<1>1. OverlapInv => OverlapReported
  BY DEF OverlapInv
<1> QED BY <1>1, OverlapInvariant, PTL

(* A heartbeat never renews the lease of a successor: of all steps only a  *)
(* heartbeat's marks its process, and its UPDATE leaves the row that FINAL *)
(* returns as it is when that row is another's.                            *)
THEOREM RenewsOwnLease == Spec => RenewsOnlyItsOwn
<1> DEFINE Own == \A p \in Procs : p \in beaten' \ beaten /\ Current.owner # p =>
                    Current'.left <= Current.left
<1>1. OverlapInv /\ [Next]_vars => [Own]_vars
  <2> SUFFICES ASSUME OverlapInv, Next, NEW p \in Procs, p \in beaten' \ beaten,
                      Current.owner # p
               PROVE  Current'.left <= Current.left
    OBVIOUS
  <2>1. Beat(p) \/ LoseBeat(p)
    <3>1. ASSUME NEW q \in Procs,
                 Thread(q) \/ InsertSelected(q) \/ Pause(q) \/ Resume(q) \/ Crash(q)
          PROVE  FALSE
      BY <3>1 DEF Thread, Acquire, SelectLease, InsertSelected, VerifyLease,
                  Migrate, StartFile, AbortFatal, Execute, FailFile, CheckToken, FinishRun,
                  Release, Pause, Resume, Crash, beat
    <3>2. ~ Tick /\ ~ Merge
      BY DEF Tick, Merge, beat
    <3>3. \A q \in Procs : Heartbeat(q) => q = p
      BY DEF Heartbeat, Beat, LoseBeat
    <3> QED BY <3>1, <3>2, <3>3 DEF Next, Heartbeat
  <2>2. LeaseType
    BY DEF OverlapInv
  <2>3. CASE rows = <<>>
    <3>1. rows' = <<>>
      BY <2>1, <2>3 DEF Beat, LoseBeat, lease
    <3> QED BY <2>3, <3>1 DEF Current
  <2>4. CASE rows # <<>> /\ Beat(p)
    <3>1. PICK i \in DOMAIN rows : Current = rows[i] /\ Current' = rows'[i]
      BY <2>2, <2>4, BeatKeeps, SameCurrent
    <3>2. Current' = Current
      BY <2>4, <3>1 DEF Beat, Renewed
    <3>3. Current.left \in Nat
      BY <2>2, <3>1, RowTypes DEF LeaseType
    <3> QED BY <3>2, <3>3
  <2>5. CASE rows # <<>> /\ LoseBeat(p)
    <3>1. Current' = Current
      BY <2>5 DEF LoseBeat, lease, Current, IsCurrent
    <3>2. Current.left \in Nat
      <4>1. PICK i \in DOMAIN rows : Current = rows[i]
        BY <2>2, <2>5, CurrentRow DEF LeaseType
      <4> QED BY <2>2, <4>1, RowTypes DEF LeaseType
    <3> QED BY <3>1, <3>2
  <2> QED BY <2>1, <2>3, <2>4, <2>5
<1> QED BY <1>1, OverlapInvariant, PTL DEF Spec, RenewsOnlyItsOwn

-----------------------------------------------------------------------------
(***************************************************************************)
(* Who has the lease.                                                      *)
(***************************************************************************)

(* A step that inserts nothing leaves owner and token of the current row.  *)
LEMMA OwnerKept ==
  ASSUME LeaseType, KeptRows \/ DropsRows
  PROVE  Current'.owner = Current.owner /\ Current'.token = Current.token
<1>1. CASE KeptRows
  <2>1. CASE rows = <<>>
    <3>1. Len(rows) = 0 /\ DOMAIN rows = {}
      BY <2>1
    <3>2. rows' \in Seq(Rows) /\ DOMAIN rows' = {}
      BY <1>1, <3>1 DEF KeptRows
    <3>3. rows' = <<>>
      BY <3>2
    <3> QED BY <2>1, <3>3 DEF Current
  <2>2. CASE rows # <<>>
    BY <1>1, <2>2, SameCurrent DEF KeptRows
  <2> QED BY <2>1, <2>2
<1>2. CASE DropsRows
  <2>1. Current \in Rows
    BY <1>2, CurrentRow, RowTypes DEF LeaseType, DropsRows
  <2>2. rows' \in Seq(Rows) /\ rows' # <<>> /\ DOMAIN rows' = {1} /\ rows'[1] = Current
    BY <1>2, <2>1 DEF DropsRows
  <2> QED BY <2>2, CurrentRowNext
<1> QED BY <1>1, <1>2

(* A row of a greater token than all becomes the current one; any other    *)
(* row does or changes nothing.                                            *)
LEMMA InsertedCurrent ==
  ASSUME LeaseType, NEW r \in Rows, rows' = Append(rows, r)
  PROVE  /\ Current' = r \/ Current' = Current
         /\ r.token > Current.token => Current' = r
<1>1. /\ rows' \in Seq(Rows) /\ Len(rows) \in Nat /\ rows' # <<>>
      /\ rows'[Len(rows) + 1] = r
      /\ \A i \in 1 .. Len(rows) : rows'[i] = rows[i]
      /\ DOMAIN rows' = 1 .. (Len(rows) + 1) /\ DOMAIN rows = 1 .. Len(rows)
  BY AppendProperties DEF LeaseType
<1>2. (rows \in Seq(Rows) /\ rows # <<>> =>
        \E i \in DOMAIN rows : IsCurrent(i) /\ Current = rows[i])'
  BY CurrentRow, PTL
<1>3. PICK i \in DOMAIN rows' : IsCurrent(i)' /\ Current' = rows'[i]
  BY <1>1, <1>2
<1>4. \A j \in DOMAIN rows : rows[j].token \in Nat
  BY RowTypes DEF LeaseType
<1>5. CASE i = Len(rows) + 1
  BY <1>1, <1>3, <1>5
<1>6. CASE i # Len(rows) + 1
  <2>1. i \in 1 .. Len(rows) /\ i \in DOMAIN rows /\ rows # <<>>
    BY <1>1, <1>6
  <2>2. PICK k \in DOMAIN rows : IsCurrent(k) /\ Current = rows[k]
    BY <2>1, CurrentRow DEF LeaseType
  <2>3. k \in 1 .. Len(rows) /\ k \in DOMAIN rows' /\ rows'[k] = rows[k]
    BY <1>1
  <2>4. \/ rows[k].token < rows[i].token
        \/ rows[k].token = rows[i].token /\ k <= i
    BY <1>1, <1>3, <2>1, <2>3 DEF IsCurrent
  <2>5. \/ rows[i].token < rows[k].token
        \/ rows[i].token = rows[k].token /\ i <= k
    BY <2>1, <2>2 DEF IsCurrent
  <2>6. i = k
    BY <1>1, <1>4, <2>1, <2>3, <2>4, <2>5
  <2>7. Current' = Current
    BY <1>1, <1>3, <2>1, <2>2, <2>6
  <2>8. /\ Len(rows) + 1 \in DOMAIN rows' /\ r.token \in Nat /\ Current.token \in Nat
        /\ rows'[i] = Current
    BY <1>1, <1>3, <1>4, <2>2, <2>7 DEF Rows
  <2>9. ~ (r.token > Current.token)
    BY <1>1, <1>3, <2>8 DEF IsCurrent
  <2> QED BY <2>7, <2>9
<1> QED BY <1>5, <1>6

(* A row that FINAL returns, and of an empty table none.                   *)
LEMMA CurrentFacts ==
  ASSUME LeaseType
  PROVE  /\ Current.left \in Nat /\ Current.token \in Nat
         /\ Current.left > 0 => ~ Free
         /\ rows = <<>> => Current.owner \notin Procs /\ Current.left = 0
         /\ rows # <<>> => \E i \in DOMAIN rows : Current = rows[i]
<1>1. CASE rows = <<>>
  BY <1>1, NoneAssumption DEF Current
<1>2. CASE rows # <<>>
  <2>1. PICK i \in DOMAIN rows : Current = rows[i]
    BY <1>2, CurrentRow DEF LeaseType
  <2> QED BY <1>2, <2>1, RowTypes DEF LeaseType, Free
<1> QED BY <1>1, <1>2

-----------------------------------------------------------------------------
(***************************************************************************)
(* Tokens that are shared.                                                 *)
(***************************************************************************)

(* Who looks for a lease does not own the current row: it would have found *)
(* that it does, when it verified its insertion.                           *)
SeekersOwnNothing == \A p \in Procs : pc[p] \in {"new", "insert"} => Current.owner # p

(* What a process selected is the next token until another's is inserted.  *)
SelectedIsNext == \A p \in Procs \ raced : pc[p] = "insert" => token[p] = Current.token + 1

(* Two processes that have not raced do not share a token, nor does one    *)
(* that is about to find its row current share it with a run.              *)
TokensApart ==
  \A p, q \in Procs \ raced : p # q /\ Running(q) =>
    /\ Running(p) => token[p] # token[q]
    /\ pc[p] = "verify" /\ Current.owner = p => Current.token # token[q]

RaceInv ==
  LeaseType /\ TokensKnown /\ SeekersOwnNothing /\ SelectedIsNext /\ TokensApart

(* A step that inserts nothing and gives nobody a token or a lease.        *)
LEMMA RaceKept ==
  ASSUME RaceInv, LeaseType', TokensKnown', UNCHANGED <<token, raced>>,
         Current'.owner = Current.owner, Current'.token = Current.token,
         \A p \in Procs : /\ pc'[p] \in {"new", "insert", "verify"} => pc[p] = pc'[p]
                          /\ Running(p)' => Running(p)
  PROVE  RaceInv'
BY DEF RaceInv, SeekersOwnNothing, SelectedIsNext, TokensApart

LEMMA RaceInvStep == RaceInv /\ [Next]_vars => RaceInv'
<1> SUFFICES ASSUME RaceInv, [Next]_vars PROVE RaceInv'
  OBVIOUS
<1> USE DEF RaceInv
<1>1. LeaseType' /\ TokensKnown'
  BY TokensKnownStep
<1>2. /\ DOMAIN pc = Procs /\ DOMAIN token = Procs /\ Current.token \in Nat
      /\ \A p \in Procs : token[p] \in Nat
  BY CurrentFacts DEF LeaseType, TokensKnown
<1>3. ASSUME NEW p \in Procs, InsertSelected(p) PROVE RaceInv'
  <2>1. PICK l \in TimeLeft(p) : rows' = Append(rows, Lease(p, token[p], l))
    BY <1>3 DEF InsertSelected
  <2>2. /\ pc[p] = "insert" /\ pc' = [pc EXCEPT ![p] = "verify"] /\ UNCHANGED token
        /\ raced' = raced \cup {q \in Procs \ {p} : pc[q] = "insert"}
    BY <1>3 DEF InsertSelected, Goto
  <2> DEFINE r == Lease(p, token[p], l)
  <2>3. r.owner = p /\ r.token = token[p] /\ token[p] \in Nat \ {0}
    BY <1>2, <2>2 DEF Lease, TokensKnown
  <2>4. r \in Rows
    BY <2>3, InsertAdds
  <2> HIDE DEF r
  <2>5. /\ Current' = r \/ Current' = Current
        /\ r.token > Current.token => Current' = r
    BY <2>1, <2>4, InsertedCurrent DEF r
  <2>6. SeekersOwnNothing'
    BY <1>2, <2>2, <2>3, <2>5 DEF SeekersOwnNothing
  <2>7. SelectedIsNext'
    BY <1>2, <2>2 DEF SelectedIsNext
  <2>8. \A q \in Procs : (Running(q)' <=> Running(q)) /\ (Running(q) => q # p)
    BY <1>2, <2>2 DEF Running
  <2>9. ASSUME NEW a \in Procs \ raced', NEW b \in Procs \ raced', a # b, Running(b)'
        PROVE  /\ Running(a)' => token'[a] # token'[b]
               /\ pc'[a] = "verify" /\ Current'.owner = a => Current'.token # token'[b]
    <3>1. a \notin raced /\ b \notin raced /\ Running(b) /\ token[b] <= Current.token
      BY <2>2, <2>8, <2>9 DEF TokensKnown
    <3>2. Running(a)' => token'[a] # token'[b]
      BY <2>2, <2>8, <2>9, <3>1 DEF TokensApart
    <3>3. CASE a = p
      <4>1. token[p] = Current.token + 1
        BY <2>2, <3>1, <3>3 DEF SelectedIsNext
      <4>2. Current'.token = token[p]
        BY <1>2, <2>3, <2>5, <4>1
      <4> QED BY <1>2, <2>2, <3>1, <3>2, <4>1, <4>2
    <3>4. CASE a # p
      BY <1>2, <2>2, <2>3, <2>5, <2>9, <3>1, <3>2, <3>4 DEF TokensApart
    <3> QED BY <3>3, <3>4
  <2> QED BY <1>1, <2>6, <2>7, <2>9 DEF TokensApart
<1>4. ASSUME NEW p \in Procs, SelectLease(p) PROVE RaceInv'
  <2>1. /\ pc[p] = "new" /\ token' = [token EXCEPT ![p] = NextToken]
        /\ pc' = [pc EXCEPT ![p] = "insert"] \/ pc' = [pc EXCEPT ![p] = "verify"]
        /\ UNCHANGED <<rows, raced>>
    BY <1>4 DEF SelectLease, Goto, slips
  <2>2. Current' = Current
    BY <2>1 DEF Current, IsCurrent
  <2>3. Current.owner # p
    BY <2>1 DEF SeekersOwnNothing
  <2>4. SeekersOwnNothing'
    BY <1>2, <2>1, <2>2 DEF SeekersOwnNothing
  <2>5. SelectedIsNext'
    BY <1>2, <2>1, <2>2 DEF SelectedIsNext, NextToken
  <2>6. \A q \in Procs : /\ Running(q)' <=> Running(q)
                         /\ Running(q) => q # p
    BY <1>2, <2>1 DEF Running
  <2>7. \A q \in Procs \ {p} : token'[q] = token[q] /\ pc'[q] = pc[q]
    BY <1>2, <2>1
  <2>8. TokensApart'
    BY <2>1, <2>2, <2>3, <2>6, <2>7 DEF TokensApart
  <2> QED BY <1>1, <2>4, <2>5, <2>8
<1>5. ASSUME NEW p \in Procs, VerifyLease(p) PROVE RaceInv'
  <2>1. pc[p] = "verify" /\ UNCHANGED <<rows, raced>>
    BY <1>5 DEF VerifyLease, slips
  <2>2. Current' = Current
    BY <2>1 DEF Current, IsCurrent
  <2>3. CASE Current.owner = p
    <3>1. /\ token' = [token EXCEPT ![p] = Current.token]
          /\ pc' = [pc EXCEPT ![p] = "between"]
      BY <1>5, <2>3 DEF VerifyLease, Goto
    <3>2. SeekersOwnNothing' /\ SelectedIsNext'
      BY <1>2, <2>1, <2>2, <3>1 DEF SeekersOwnNothing, SelectedIsNext
    <3>3. /\ \A q \in Procs \ {p} : token'[q] = token[q] /\ pc'[q] = pc[q]
          /\ token'[p] = Current.token /\ pc'[p] = "between"
      BY <1>2, <3>1
    <3>4. \A q \in Procs \ {p} : Running(q)' <=> Running(q)
      BY <3>3 DEF Running
    <3>5. TokensApart'
      BY <2>1, <2>2, <2>3, <3>3, <3>4 DEF TokensApart
    <3> QED BY <1>1, <3>2, <3>5
  <2>4. CASE Current.owner # p
    <3>1. UNCHANGED token /\ pc' = [pc EXCEPT ![p] = "new"]
      BY <1>5, <2>4 DEF VerifyLease, Goto
    <3>2. SeekersOwnNothing' /\ SelectedIsNext'
      BY <1>2, <2>1, <2>2, <2>4, <3>1 DEF SeekersOwnNothing, SelectedIsNext
    <3>3. \A q \in Procs : /\ pc'[q] = "verify" => pc[q] = "verify"
                           /\ Running(q)' <=> Running(q)
      BY <1>2, <2>1, <3>1 DEF Running
    <3>4. TokensApart'
      BY <2>1, <2>2, <3>1, <3>3 DEF TokensApart
    <3> QED BY <1>1, <3>2, <3>4
  <2> QED BY <2>3, <2>4
<1>6. ASSUME NEW p \in Procs,
             Migrate(p) \/ Release(p) \/ Heartbeat(p) \/ Pause(p) \/ Resume(p) \/ Crash(p)
      PROVE  RaceInv'
  <2>1. UNCHANGED <<token, raced>>
    BY <1>6 DEF Migrate, StartFile, AbortFatal, Execute, FailFile, CheckToken, FinishRun,
                Release, Heartbeat, Beat, LoseBeat, Pause, Resume, Crash, lease, slips
  <2>2. \/ UNCHANGED pc
        \/ \E l \in {"between", "file", "check", "release", "gone"} :
             pc' = [pc EXCEPT ![p] = l] /\ (l # "gone" => Running(p))
    BY <1>6 DEF Migrate, StartFile, AbortFatal, Execute, FailFile, CheckToken, FinishRun,
                Release, Heartbeat, Beat, LoseBeat, Pause, Resume, Crash, Goto, Running
  <2>3. \A q \in Procs : /\ pc'[q] \in {"new", "insert", "verify"} => pc[q] = pc'[q]
                         /\ Running(q)' => Running(q)
    BY <1>2, <2>2 DEF Running
  <2>4. rows' = rows \/ Beat(p) \/ Release(p)
    BY <1>6 DEF Migrate, StartFile, AbortFatal, Execute, FailFile, CheckToken, FinishRun,
                Heartbeat, LoseBeat, Pause, Resume, Crash, lease
  <2>5. KeptRows
    BY <2>4, KeptWhenSame, BeatKeeps, ReleaseKeeps
  <2> QED BY <1>1, <2>1, <2>3, <2>5, OwnerKept, RaceKept
<1>7. CASE Tick \/ Merge \/ UNCHANGED vars
  <2>1. UNCHANGED <<token, raced, pc>>
    BY <1>7 DEF Tick, Merge, vars, lease, slips
  <2>2. KeptRows \/ DropsRows
    <3>1. Merge => DropsRows
      BY DEF Merge, DropsRows
    <3>2. UNCHANGED vars => KeptRows
      BY KeptWhenSame DEF vars, lease
    <3> QED BY <1>7, <3>1, <3>2, TickKeeps
  <2>3. \A q \in Procs : Running(q)' <=> Running(q)
    BY <2>1 DEF Running
  <2> QED BY <1>1, <2>1, <2>2, <2>3, OwnerKept, RaceKept
<1> QED BY <1>3, <1>4, <1>5, <1>6, <1>7 DEF Next, Thread, Acquire

LEMMA RaceInvariant == Spec => []RaceInv
<1>1. Init => RaceInv
  BY NoneAssumption
     DEF Init, RaceInv, LeaseType, TokensKnown, SeekersOwnNothing, SelectedIsNext, TokensApart,
         Running, Current
<1>2. RaceInv /\ [Next]_vars => RaceInv'
  BY RaceInvStep
<1> QED BY <1>1, <1>2, PTL DEF Spec

(* Of two runs with the same fencing token one had looked for a lease, and *)
(* not inserted its own, when another's was inserted: whoever looks after  *)
(* that gets a greater token, for any number of processes, however many    *)
(* are suspended or killed and whatever expired or was merged away.        *)
THEOREM SharersRaced == Spec => []OnlyRacersShareTokens
<1>1. RaceInv => OnlyRacersShareTokens
  BY DEF RaceInv, TokensApart, OnlyRacersShareTokens
<1> QED BY <1>1, RaceInvariant, PTL

-----------------------------------------------------------------------------
(***************************************************************************)
(* Runs at the same time.                                                  *)
(***************************************************************************)

(* Nobody has raced, and no lease ran out under its holder.                *)
Sound == raced = {} /\ ~ lapsed

(* Whoever has the lease has it in the row that counts, and has time left; *)
(* nobody is about to insert another while it does.                        *)
LeaseHeld ==
  /\ \A p \in Procs : Holding(p) => Current.owner = p /\ Current.left > 0
  /\ \A p \in Procs : pc[p] = "insert" => Free

SoundInv == RaceInv /\ lapsed \in BOOLEAN /\ (Sound => LeaseHeld)

(* A step that inserts nothing, in which nobody comes to hold the lease or *)
(* looks for one, and the lease of a holder keeps time.                    *)
LEMMA HeldOn ==
  ASSUME RaceInv, LeaseHeld, Current'.owner = Current.owner,
         \A p \in Procs : Holding(p)' => Holding(p) /\ (Current.left > 0 => Current'.left > 0),
         \A p \in Procs : pc'[p] = "insert" => pc[p] = "insert",
         Free => Free'
  PROVE  LeaseHeld'
BY DEF LeaseHeld

LEMMA InsertSound ==
  ASSUME SoundInv, RaceInv', Sound', Sound, NEW p \in Procs, InsertSelected(p)
  PROVE  LeaseHeld'
<1> USE DEF SoundInv, RaceInv
<1>1. PICK l \in TimeLeft(p) : /\ rows' = Append(rows, Lease(p, token[p], l))
                               /\ lapsed' = (lapsed \/ l = 0)
  BY DEF InsertSelected
<1>2. /\ pc[p] = "insert" /\ pc' = [pc EXCEPT ![p] = "verify"] /\ DOMAIN pc = Procs
      /\ raced' = raced \cup {q \in Procs \ {p} : pc[q] = "insert"}
  BY DEF InsertSelected, Goto, TokensKnown
<1> DEFINE r == Lease(p, token[p], l)
<1>3. /\ r.owner = p /\ r.token = token[p] /\ r.left = l /\ token[p] \in Nat \ {0}
  BY <1>2 DEF Lease, TokensKnown, LeaseType
<1>4. r \in Rows /\ l \in Nat /\ l # 0
  <2>1. r \in Rows
    BY <1>3, InsertAdds
  <2>2. l \in Nat
    BY TtlAssumption DEF TimeLeft
  <2>3. l # 0
    BY <1>1 DEF Sound
  <2> QED BY <2>1, <2>2, <2>3
<1> HIDE DEF r
<1>5. token[p] = Current.token + 1 /\ Current.token \in Nat
  BY <1>2, CurrentFacts DEF SelectedIsNext, Sound
<1>6. Current' = r
  BY <1>1, <1>3, <1>4, <1>5, InsertedCurrent DEF r
<1>7. \A q \in Procs : ~ Holding(q)
  BY <1>2, CurrentFacts DEF LeaseHeld
<1>8. \A q \in Procs : Holding(q)' => q = p
  BY <1>2, <1>3, <1>6, <1>7 DEF Holding, Running
<1>9. \A q \in Procs : pc'[q] # "insert"
  BY <1>2 DEF Sound
<1> QED BY <1>3, <1>4, <1>6, <1>8, <1>9 DEF LeaseHeld

LEMMA SoundInvStep == SoundInv /\ [Next]_vars => SoundInv'
<1> SUFFICES ASSUME SoundInv, [Next]_vars PROVE SoundInv'
  OBVIOUS
<1> USE DEF SoundInv
<1>1. RaceInv'
  BY RaceInvStep
<1>2. /\ LeaseType /\ DOMAIN pc = Procs /\ Current.left \in Nat
  BY CurrentFacts DEF RaceInv, TokensKnown
<1>3. lapsed' \in BOOLEAN /\ (Sound' => Sound)
  <2>1. raced \subseteq raced' /\ (lapsed => lapsed') /\ lapsed' \in BOOLEAN
    BY DEF Next, Thread, Acquire, SelectLease, InsertSelected, VerifyLease, Migrate, StartFile,
           AbortFatal, Execute, FailFile, CheckToken, FinishRun, Release, Heartbeat, Beat,
           LoseBeat, Pause, Resume, Crash, Tick, Merge, vars, slips
  <2> QED BY <2>1 DEF Sound
<1> SUFFICES ASSUME Sound', Sound, LeaseHeld PROVE LeaseHeld'
  BY <1>1, <1>3
<1>4. ASSUME NEW p \in Procs, SelectLease(p) PROVE LeaseHeld'
  <2>1. /\ pc[p] = "new" /\ pc' = [pc EXCEPT ![p] = IF Free THEN "insert" ELSE "verify"]
        /\ UNCHANGED rows
    BY <1>4 DEF SelectLease, Goto
  <2>2. Current' = Current /\ (Free' <=> Free)
    BY <2>1 DEF Current, IsCurrent, Free
  <2>3. Current.owner # p
    BY <2>1 DEF RaceInv, SeekersOwnNothing
  <2>4. \A q \in Procs : Holding(q)' => Holding(q)
    BY <1>2, <2>1, <2>2, <2>3 DEF Holding, Running
  <2>5. \A q \in Procs : pc'[q] = "insert" => Free
    BY <1>2, <2>1 DEF LeaseHeld
  <2> QED BY <2>2, <2>4, <2>5 DEF LeaseHeld
<1>5. ASSUME NEW p \in Procs, VerifyLease(p) PROVE LeaseHeld'
  <2>1. pc[p] = "verify" /\ UNCHANGED rows
    BY <1>5 DEF VerifyLease
  <2>2. Current' = Current /\ (Free' <=> Free)
    BY <2>1 DEF Current, IsCurrent, Free
  <2>3. pc' = [pc EXCEPT ![p] = IF Current.owner = p THEN "between" ELSE "new"]
    BY <1>5 DEF VerifyLease, Goto
  <2>4. \A q \in Procs : Holding(q)' => Holding(q)
    BY <1>2, <2>1, <2>2, <2>3 DEF Holding, Running
  <2>5. \A q \in Procs : pc'[q] = "insert" => pc[q] = "insert"
    BY <1>2, <2>3
  <2> QED BY <2>2, <2>4, <2>5, HeldOn
<1>6. ASSUME NEW p \in Procs, Release(p) PROVE LeaseHeld'
  <2>1. /\ pc[p] = "release" /\ pc' = [pc EXCEPT ![p] = "gone"]
        /\ rows' = [i \in DOMAIN rows |-> [rows[i] EXCEPT !.left = 0]]
    BY <1>6 DEF Release, Goto
  <2>2. Current'.owner = Current.owner
    BY <1>2, <1>6, ReleaseKeeps, OwnerKept
  <2>3. Current.owner = p
    BY <2>1 DEF LeaseHeld, Holding, Running
  <2>4. \A q \in Procs : ~ Holding(q)'
    BY <1>2, <2>1, <2>2, <2>3 DEF LeaseHeld, Holding, Running
  <2>5. Free'
    <3>1. \A i \in DOMAIN rows : rows[i] \in Rows
      BY <1>2, RowTypes DEF LeaseType
    <3>2. \A r \in Rows : [r EXCEPT !.left = 0].left = 0
      BY DEF Rows
    <3>3. DOMAIN rows' = DOMAIN rows
      BY <2>1
    <3>4. ASSUME NEW i \in DOMAIN rows' PROVE rows'[i].left = 0
      <4>1. rows'[i] = [rows[i] EXCEPT !.left = 0]
        BY <2>1, <3>3
      <4>2. [rows[i] EXCEPT !.left = 0].left = 0
        BY <3>1, <3>2, <3>3
      <4> QED BY <4>1, <4>2
    <3> QED BY <3>4 DEF Free
  <2> QED BY <2>4, <2>5 DEF LeaseHeld
<1>7. ASSUME NEW p \in Procs, Beat(p) PROVE LeaseHeld'
  <2>1. /\ Beating(p) /\ UNCHANGED pc
        /\ rows' = [i \in DOMAIN rows |-> Renewed(p, rows[i])]
    BY <1>7 DEF Beat
  <2>2. Holding(p) /\ Current.owner = p /\ Current.left > 0
    BY <2>1 DEF LeaseHeld, Beating, Holding, Running
  <2>3. ~ Free /\ rows # <<>>
    BY <1>2, <2>2, CurrentFacts
  <2>4. PICK i \in DOMAIN rows : Current = rows[i] /\ Current' = rows'[i]
    BY <1>2, <1>7, <2>3, BeatKeeps, SameCurrent
  <2>5. Current'.left = Current.left \/ Current'.left = BeatTtl
    BY <1>2, <2>1, <2>4, RowTypes DEF Renewed, LeaseType, Rows
  <2>6. Current'.owner = Current.owner
    BY <1>2, <1>7, BeatKeeps, OwnerKept
  <2>7. \A q \in Procs : Holding(q)' <=> Holding(q)
    BY <2>1, <2>6 DEF Holding, Running
  <2> QED BY <2>1, <2>2, <2>3, <2>5, <2>6, <2>7, TtlAssumption, HeldOn
<1>8. ASSUME NEW p \in Procs,
             Migrate(p) \/ LoseBeat(p) \/ Pause(p) \/ Resume(p) \/ Crash(p)
      PROVE  LeaseHeld'
  <2>1. UNCHANGED rows
    BY <1>8 DEF Migrate, StartFile, AbortFatal, Execute, FailFile, CheckToken, FinishRun,
                LoseBeat, Pause, Resume, Crash, lease
  <2>2. \/ UNCHANGED pc
        \/ \E l \in {"between", "file", "check", "release", "gone"} :
             pc' = [pc EXCEPT ![p] = l] /\ (l # "gone" => Running(p))
    BY <1>8 DEF Migrate, StartFile, AbortFatal, Execute, FailFile, CheckToken, FinishRun,
                LoseBeat, Pause, Resume, Crash, Goto, Running
  <2>3. Current' = Current /\ (Free' <=> Free)
    BY <2>1 DEF Current, IsCurrent, Free
  <2>4. \A q \in Procs : /\ Holding(q)' => Holding(q)
                         /\ pc'[q] = "insert" => pc[q] = "insert"
    BY <1>2, <2>2, <2>3 DEF Holding, Running
  <2> QED BY <2>3, <2>4, HeldOn
<1>9. CASE Tick
  <2>1. /\ UNCHANGED pc
        /\ rows' = [i \in DOMAIN rows |-> [rows[i] EXCEPT !.left = IF @ = 0 THEN 0 ELSE @ - 1]]
        /\ ~ \E p \in Procs : Holding(p) /\ Current.owner = p /\ Current.left <= 1
    BY <1>9 DEF Tick, Sound
  <2>2. Current'.owner = Current.owner
    BY <1>2, <1>9, TickKeeps, OwnerKept
  <2>3. \A q \in Procs : Holding(q)' <=> Holding(q)
    BY <2>1, <2>2 DEF Holding, Running
  <2>4. ASSUME NEW q \in Procs, Holding(q)' PROVE Current'.left > 0
    <3>1. Current.owner = q /\ Current.left > 1
      BY <1>2, <2>1, <2>3, <2>4 DEF LeaseHeld
    <3>2. rows # <<>>
      BY <1>2, <3>1, CurrentFacts
    <3>3. PICK i \in DOMAIN rows : Current = rows[i] /\ Current' = rows'[i]
      BY <1>2, <1>9, <3>2, TickKeeps, SameCurrent
    <3>4. Current'.left = IF Current.left = 0 THEN 0 ELSE Current.left - 1
      BY <1>2, <2>1, <3>3, RowTypes DEF LeaseType, Rows
    <3> QED BY <1>2, <3>1, <3>4
  <2>5. ASSUME Free, NEW i \in DOMAIN rows' PROVE rows'[i].left = 0
    <3>1. i \in DOMAIN rows /\ rows[i].left = 0
      BY <2>1, <2>5 DEF Free
    <3>2. rows[i] \in Rows
      BY <1>2, <3>1, RowTypes DEF LeaseType
    <3>3. rows'[i] = [rows[i] EXCEPT !.left = 0]
      BY <2>1, <3>1
    <3> QED BY <3>2, <3>3 DEF Rows
  <2>6. Free => Free'
    BY <2>5 DEF Free
  <2> QED BY <2>1, <2>2, <2>3, <2>4, <2>6, HeldOn
<1>10. CASE Merge
  <2>1. UNCHANGED pc /\ rows # <<>> /\ rows' = <<Current>>
    BY <1>10 DEF Merge
  <2>2. rows' # <<>> /\ DOMAIN rows' = {1} /\ rows'[1] = Current
    BY <2>1
  <2>3. Current' = Current
    BY <1>1, <2>2, CurrentRowNext DEF RaceInv, LeaseType
  <2>4. \E i \in DOMAIN rows : Current = rows[i]
    BY <1>2, <2>1, CurrentFacts
  <2>5. Free => Free'
    BY <2>2, <2>4 DEF Free
  <2>6. \A q \in Procs : Holding(q)' <=> Holding(q)
    BY <2>1, <2>3 DEF Holding, Running
  <2> QED BY <2>1, <2>3, <2>5, <2>6, HeldOn
<1>11. CASE UNCHANGED vars
  <2>1. UNCHANGED <<pc, rows>>
    BY <1>11 DEF vars, lease
  <2> QED BY <2>1 DEF LeaseHeld, Holding, Running, Current, IsCurrent, Free
<1> QED BY <1>1, <1>4, <1>5, <1>6, <1>7, <1>8, <1>9, <1>10, <1>11, InsertSound
       DEF Next, Thread, Acquire, Heartbeat

LEMMA SoundInvariant == Spec => []SoundInv
<1>1. Init => SoundInv
  <2> SUFFICES ASSUME Init PROVE lapsed \in BOOLEAN /\ LeaseHeld /\ RaceInv
    BY DEF SoundInv
  <2>1. lapsed \in BOOLEAN /\ LeaseHeld
    BY DEF Init, LeaseHeld, Holding, Running
  <2>2. RaceInv
    BY NoneAssumption
       DEF Init, RaceInv, LeaseType, TokensKnown, SeekersOwnNothing, SelectedIsNext,
           TokensApart, Running, Current
  <2> QED BY <2>1, <2>2
<1>2. SoundInv /\ [Next]_vars => SoundInv'
  BY SoundInvStep
<1> QED BY <1>1, <1>2, PTL DEF Spec

(* Two runs are under way at once for two reasons only: two processes had  *)
(* looked for a lease before either inserted its own, or a lease ran out   *)
(* under its holder.  For any number of processes, crashed, suspended or   *)
(* not, and whenever merges happen.                                        *)
THEOREM OneRunWhileLeased == Spec => []ExclusiveWhileLeased
<1>1. SoundInv => ExclusiveWhileLeased
  BY DEF SoundInv, Sound, LeaseHeld, Holding, ExclusiveWhileLeased, Exclusive
<1> QED BY <1>1, SoundInvariant, PTL

-----------------------------------------------------------------------------
(***************************************************************************)
(* How a lease is lost.                                                    *)
(***************************************************************************)

FaultTypes ==
  /\ faults \in [pauses : Nat, lost : Nat, crashes : Nat]
  /\ health \in [Procs -> {"awake", "paused", "resumed"}]
  /\ faults.pauses = 0 => \A p \in Procs : health[p] = "awake"

(* Nobody has raced or been suspended, and the lease outlasts the          *)
(* heartbeats that failed by two units of time: the one the last heartbeat *)
(* is due in, and one that is left.                                        *)
Quiet == raced = {} /\ faults.pauses = 0 /\ faults.lost + 2 <= BeatTtl

(* Every unit of time in which no heartbeat failed has renewed the lease.  *)
LeaseLasts ==
  \A p \in Procs : Holding(p) =>
    /\ pc[p] = "verify" => Current.left = LeaseTtl
    /\ Beating(p) => /\ token[p] = Current.token
                     /\ Current.left + faults.lost >= BeatTtl - IF p \in beaten THEN 0 ELSE 1

QuietInv == SoundInv /\ FaultTypes /\ (Quiet => ~ lapsed /\ LeaseLasts)

LEMMA FaultTypesStep == FaultTypes /\ [Next]_vars => FaultTypes'
<1> SUFFICES ASSUME FaultTypes, [Next]_vars PROVE FaultTypes'
  OBVIOUS
<1> USE DEF FaultTypes
<1>1. ASSUME NEW p \in Procs, Pause(p) PROVE FaultTypes'
  <2>1. faults'.pauses = faults.pauses + 1
        /\ faults' \in [pauses : Nat, lost : Nat, crashes : Nat]
    BY <1>1 DEF Pause
  <2>2. health' \in [Procs -> {"awake", "paused", "resumed"}] /\ faults'.pauses # 0
    BY <1>1, <2>1 DEF Pause
  <2> QED BY <2>1, <2>2
<1>2. ASSUME NEW p \in Procs, Resume(p) PROVE FaultTypes'
  <2>1. UNCHANGED faults /\ health[p] = "paused" /\ health' = [health EXCEPT ![p] = "resumed"]
    BY <1>2 DEF Resume
  <2> QED BY <2>1
<1>3. ASSUME NEW p \in Procs, VerifyLease(p) PROVE FaultTypes'
  <2>1. UNCHANGED faults /\ (UNCHANGED health \/ health' = [health EXCEPT ![p] = "awake"])
    BY <1>3 DEF VerifyLease
  <2> QED BY <2>1
<1>4. ASSUME NEW p \in Procs, Crash(p) \/ LoseBeat(p) PROVE FaultTypes'
  <2>1. UNCHANGED health /\ \/ faults' = [faults EXCEPT !.crashes = @ + 1]
                            \/ faults' = [faults EXCEPT !.lost = @ + 1]
    BY <1>4 DEF Crash, LoseBeat
  <2>2. faults' \in [pauses : Nat, lost : Nat, crashes : Nat] /\ faults'.pauses = faults.pauses
    BY <2>1
  <2> QED BY <2>1, <2>2
<1>5. ASSUME NEW p \in Procs,
             SelectLease(p) \/ InsertSelected(p) \/ Migrate(p) \/ Release(p) \/ Beat(p)
      PROVE  FaultTypes'
  <2>1. UNCHANGED <<faults, health>>
    BY <1>5 DEF SelectLease, InsertSelected, Migrate, StartFile, AbortFatal, Execute, FailFile,
                CheckToken, FinishRun, Release, Beat
  <2> QED BY <2>1
<1>6. CASE Tick \/ Merge \/ UNCHANGED vars
  <2>1. UNCHANGED <<faults, health>>
    BY <1>6 DEF Tick, Merge, vars
  <2> QED BY <2>1
<1> QED BY <1>1, <1>2, <1>3, <1>4, <1>5, <1>6 DEF Next, Thread, Acquire, Heartbeat

(* A step in which nobody comes to hold the lease, or to beat, and the     *)
(* lease of those who do is as long as it must be.                         *)
LEMMA LastsOn ==
  ASSUME LeaseLasts, Current'.token = Current.token,
         \A p \in Procs : Holding(p)' =>
           /\ Holding(p)
           /\ pc'[p] = "verify" => pc[p] = "verify" /\ Current'.left = Current.left
           /\ Beating(p)' =>
                /\ Beating(p) /\ token'[p] = token[p]
                /\ Current'.left + faults'.lost >= BeatTtl - IF p \in beaten' THEN 0 ELSE 1
  PROVE  LeaseLasts'
BY DEF LeaseLasts

LEMMA QuietInvStep == QuietInv /\ [Next]_vars => QuietInv'
<1> SUFFICES ASSUME QuietInv, [Next]_vars PROVE QuietInv'
  OBVIOUS
<1> USE DEF QuietInv
<1>1. SoundInv' /\ FaultTypes'
  BY SoundInvStep, FaultTypesStep
<1>2. /\ LeaseType /\ DOMAIN pc = Procs /\ DOMAIN token = Procs
      /\ Current.left \in Nat /\ Current.token \in Nat
      /\ faults.lost \in Nat /\ faults'.lost \in Nat /\ BeatTtl \in Nat /\ LeaseTtl \in Nat
      /\ BeatTtl < LeaseTtl
  <2>1. LeaseType /\ TokensKnown
    BY DEF SoundInv, RaceInv
  <2>2. faults.lost \in Nat /\ faults'.lost \in Nat
    BY <1>1 DEF FaultTypes
  <2> QED BY <2>1, <2>2, CurrentFacts, TtlAssumption DEF LeaseType, TokensKnown
<1>3. Quiet' => Quiet
  <2>1. raced \subseteq raced'
    BY DEF Next, Thread, Acquire, SelectLease, InsertSelected, VerifyLease, Migrate, StartFile,
           AbortFatal, Execute, FailFile, CheckToken, FinishRun, Release, Heartbeat, Beat,
           LoseBeat, Pause, Resume, Crash, Tick, Merge, vars, slips
  <2>2. \/ UNCHANGED faults
        \/ faults' = [faults EXCEPT !.pauses = @ + 1]
        \/ faults' = [faults EXCEPT !.lost = @ + 1]
        \/ faults' = [faults EXCEPT !.crashes = @ + 1]
    BY DEF Next, Thread, Acquire, SelectLease, InsertSelected, VerifyLease, Migrate, StartFile,
           AbortFatal, Execute, FailFile, CheckToken, FinishRun, Release, Heartbeat, Beat,
           LoseBeat, Pause, Resume, Crash, Tick, Merge, vars
  <2>3. /\ faults.pauses \in Nat /\ faults'.pauses \in Nat
        /\ faults.pauses <= faults'.pauses /\ faults.lost <= faults'.lost
    BY <1>2, <2>2 DEF FaultTypes
  <2> QED BY <1>2, <2>1, <2>3 DEF Quiet
<1> SUFFICES ASSUME Quiet', Quiet, ~ lapsed, LeaseLasts PROVE ~ lapsed' /\ LeaseLasts'
  BY <1>1, <1>3
<1>4. LeaseHeld /\ RaceInv /\ \A p \in Procs : health[p] = "awake" /\ Awake(p)
  BY DEF SoundInv, Sound, Quiet, FaultTypes, Awake
<1>5. ASSUME NEW p \in Procs, InsertSelected(p) PROVE ~ lapsed' /\ LeaseLasts'
  <2>1. /\ rows' = Append(rows, Lease(p, token[p], LeaseTtl))
        /\ lapsed' = (lapsed \/ LeaseTtl = 0)
        /\ UNCHANGED token
    BY <1>4, <1>5 DEF InsertSelected, TimeLeft
  <2>2. pc[p] = "insert" /\ pc' = [pc EXCEPT ![p] = "verify"] /\ token[p] = Current.token + 1
    BY <1>4, <1>5 DEF InsertSelected, Goto, RaceInv, SelectedIsNext, Quiet
  <2> DEFINE r == Lease(p, token[p], LeaseTtl)
  <2>3. r.owner = p /\ r.token = token[p] /\ r.left = LeaseTtl
    BY DEF Lease
  <2>4. r \in Rows
    <3>1. LeaseTtl \in TimeLeft(p)
      BY <1>4 DEF TimeLeft
    <3>2. token[p] \in Nat \ {0}
      BY <1>2, <2>2
    <3> QED BY <3>1, <3>2, InsertAdds
  <2> HIDE DEF r
  <2>5. Current' = r
    BY <1>2, <2>1, <2>2, <2>3, <2>4, InsertedCurrent DEF r
  <2>6. \A q \in Procs : ~ Holding(q)
    BY <1>2, <1>4, <2>2, CurrentFacts DEF LeaseHeld
  <2>7. \A q \in Procs : Holding(q)' => pc'[q] = "verify"
    BY <1>2, <2>2, <2>6 DEF Holding, Running
  <2>8. LeaseLasts'
    BY <2>3, <2>5, <2>7 DEF LeaseLasts, Beating
  <2> QED BY <2>1, <2>8, TtlAssumption
<1>6. ASSUME NEW p \in Procs, SelectLease(p) PROVE ~ lapsed' /\ LeaseLasts'
  <2>1. /\ pc[p] = "new" /\ token' = [token EXCEPT ![p] = NextToken]
        /\ pc' = [pc EXCEPT ![p] = IF Free THEN "insert" ELSE "verify"]
        /\ UNCHANGED <<rows, lapsed, faults, beaten>>
    BY <1>6 DEF SelectLease, Goto, slips, beat
  <2>2. Current' = Current /\ Current.owner # p
    BY <1>4, <2>1 DEF Current, IsCurrent, RaceInv, SeekersOwnNothing
  <2>3. \A q \in Procs : Holding(q)' => q # p /\ Holding(q)
    BY <1>2, <2>1, <2>2 DEF Holding, Running
  <2>4. \A q \in Procs \ {p} : pc'[q] = pc[q] /\ token'[q] = token[q]
    BY <1>2, <2>1
  <2>5. \A q \in Procs \ {p} : Beating(q)' <=> Beating(q)
    BY <2>4 DEF Beating
  <2> QED BY <2>1, <2>2, <2>3, <2>4, <2>5, LastsOn DEF LeaseLasts
<1>7. ASSUME NEW p \in Procs, VerifyLease(p) PROVE ~ lapsed' /\ LeaseLasts'
  <2>1. pc[p] = "verify" /\ UNCHANGED <<rows, lapsed, faults, beaten>>
    BY <1>7 DEF VerifyLease, slips, beat
  <2>2. Current' = Current
    BY <2>1 DEF Current, IsCurrent
  <2>3. CASE Current.owner = p
    <3>1. /\ pc' = [pc EXCEPT ![p] = "between"]
          /\ token' = [token EXCEPT ![p] = Current.token]
      BY <1>7, <2>3 DEF VerifyLease, Goto
    <3>2. Holding(p) /\ Current.left = LeaseTtl
      BY <2>1, <2>3 DEF Holding, LeaseLasts
    <3>3. \A q \in Procs : Holding(q)' => q = p
      BY <1>2, <1>4, <2>2, <2>3, <3>1 DEF Holding, Running, LeaseHeld
    <3>4. Current'.left + faults'.lost >= BeatTtl - IF p \in beaten' THEN 0 ELSE 1
      BY <1>2, <2>1, <2>2, <3>2
    <3>5. pc'[p] = "between" /\ token'[p] = Current'.token
      BY <1>2, <2>2, <3>1
    <3> QED BY <2>1, <3>3, <3>4, <3>5 DEF LeaseLasts
  <2>4. CASE Current.owner # p
    <3>1. UNCHANGED token /\ pc' = [pc EXCEPT ![p] = "new"]
      BY <1>7, <2>4 DEF VerifyLease, Goto
    <3>2. \A q \in Procs : /\ Holding(q)' => Holding(q)
                           /\ Beating(q)' <=> Beating(q)
                           /\ pc'[q] = "verify" => pc[q] = "verify"
      BY <1>2, <2>1, <2>2, <3>1 DEF Holding, Running, Beating
    <3> QED BY <2>1, <2>2, <3>1, <3>2, LastsOn DEF LeaseLasts
  <2> QED BY <2>3, <2>4
<1>8. ASSUME NEW p \in Procs, Release(p) PROVE ~ lapsed' /\ LeaseLasts'
  <2>1. pc[p] = "release" /\ pc' = [pc EXCEPT ![p] = "gone"] /\ UNCHANGED lapsed
    BY <1>8 DEF Release, Goto, slips
  <2>2. Current'.owner = Current.owner /\ Current.owner = p
    BY <1>2, <1>4, <1>8, <2>1, ReleaseKeeps, OwnerKept DEF LeaseHeld, Holding, Running
  <2>3. \A q \in Procs : ~ Holding(q)'
    BY <1>2, <1>4, <2>1, <2>2 DEF LeaseHeld, Holding, Running
  <2> QED BY <2>1, <2>3 DEF LeaseLasts
<1>9. ASSUME NEW p \in Procs, Beat(p) PROVE ~ lapsed' /\ LeaseLasts'
  <2>1. /\ Beating(p) /\ UNCHANGED <<pc, token, faults, lapsed>> /\ beaten' = beaten \cup {p}
        /\ rows' = [i \in DOMAIN rows |-> Renewed(p, rows[i])]
    BY <1>9 DEF Beat, slips
  <2>2. Holding(p) /\ Current.owner = p /\ token[p] = Current.token /\ pc[p] # "verify"
    BY <1>4, <2>1 DEF LeaseHeld, LeaseLasts, Beating, Holding, Running
  <2>3. rows # <<>>
    BY <1>2, <2>2, CurrentFacts
  <2>4. PICK i \in DOMAIN rows : Current = rows[i] /\ Current' = rows'[i]
    BY <1>2, <1>9, <2>3, BeatKeeps, SameCurrent
  <2>5. Current'.left = BeatTtl
    BY <1>2, <2>1, <2>2, <2>4, RowTypes DEF Renewed, LeaseType, Rows
  <2>6. Current'.owner = Current.owner /\ Current'.token = Current.token
    BY <1>2, <1>9, BeatKeeps, OwnerKept
  <2>7. \A q \in Procs : /\ Holding(q)' <=> Holding(q)
                         /\ Holding(q) => q = p
                         /\ Beating(q)' <=> Beating(q)
    BY <1>4, <2>1, <2>2, <2>6 DEF Holding, Running, Beating, LeaseHeld
  <2>8. Current'.left + faults'.lost >= BeatTtl - IF p \in beaten' THEN 0 ELSE 1
    BY <1>2, <2>1, <2>5
  <2> QED BY <2>1, <2>2, <2>6, <2>7, <2>8, LastsOn
<1>10. ASSUME NEW p \in Procs, LoseBeat(p) PROVE ~ lapsed' /\ LeaseLasts'
  <2>1. /\ Beating(p) /\ p \notin beaten /\ UNCHANGED <<rows, pc, token, lapsed>>
        /\ beaten' = beaten \cup {p} /\ faults' = [faults EXCEPT !.lost = @ + 1]
    BY <1>10 DEF LoseBeat, lease, slips
  <2>2. faults'.lost = faults.lost + 1
    BY <2>1 DEF FaultTypes
  <2>3. Current' = Current
    BY <2>1 DEF Current, IsCurrent
  <2>4. \A q \in Procs : /\ Holding(q)' <=> Holding(q)
                         /\ Beating(q)' <=> Beating(q)
                         /\ Holding(q) => q = p
    BY <1>4, <2>1, <2>3 DEF Holding, Running, Beating, LeaseHeld
  <2>5. Holding(p) => Current.left + faults.lost >= BeatTtl - 1
    BY <2>1 DEF LeaseLasts
  <2>6. Holding(p) => Current'.left + faults'.lost >= BeatTtl - IF p \in beaten' THEN 0 ELSE 1
    BY <1>2, <2>1, <2>2, <2>3, <2>5
  <2> QED BY <2>1, <2>3, <2>4, <2>6, LastsOn
<1>11. ASSUME NEW p \in Procs, Migrate(p) \/ Pause(p) \/ Resume(p) \/ Crash(p)
       PROVE  ~ lapsed' /\ LeaseLasts'
  <2>1. UNCHANGED <<rows, token, beaten, lapsed>>
    BY <1>11 DEF Migrate, StartFile, AbortFatal, Execute, FailFile, CheckToken, FinishRun,
                 Pause, Resume, Crash, lease, slips, beat
  <2>2. faults'.lost = faults.lost
    <3>1. \/ UNCHANGED faults
          \/ faults' = [faults EXCEPT !.pauses = @ + 1]
          \/ faults' = [faults EXCEPT !.crashes = @ + 1]
      BY <1>11 DEF Migrate, StartFile, AbortFatal, Execute, FailFile, CheckToken, FinishRun,
                   Pause, Resume, Crash
    <3> QED BY <3>1 DEF FaultTypes
  <2>3. \/ UNCHANGED pc
        \/ \E l \in {"between", "file", "check", "release", "gone"} :
             pc' = [pc EXCEPT ![p] = l] /\ (l # "gone" => Beating(p))
    BY <1>11 DEF Migrate, StartFile, AbortFatal, Execute, FailFile, CheckToken, FinishRun,
                 Pause, Resume, Crash, Goto, Beating
  <2>4. Current' = Current
    BY <2>1 DEF Current, IsCurrent
  <2>5. \A q \in Procs : /\ Holding(q)' => Holding(q)
                         /\ Beating(q)' => Beating(q)
                         /\ pc'[q] = "verify" => pc[q] = "verify"
    BY <1>2, <2>3, <2>4 DEF Holding, Running, Beating
  <2> QED BY <2>1, <2>2, <2>4, <2>5, LastsOn DEF LeaseLasts
<1>12. CASE Tick
  <2>1. /\ \A p \in Procs : (Beating(p) => p \in beaten) /\ ~ Brief(p)
        /\ UNCHANGED <<token, pc, faults>> /\ beaten' = {}
        /\ rows' = [i \in DOMAIN rows |-> [rows[i] EXCEPT !.left = IF @ = 0 THEN 0 ELSE @ - 1]]
        /\ lapsed' => \E p \in Procs : Holding(p) /\ Current.owner = p /\ Current.left <= 1
    BY <1>4, <1>12 DEF Tick
  <2>2. Current'.owner = Current.owner /\ Current'.token = Current.token
    BY <1>2, <1>12, TickKeeps, OwnerKept
  <2>3. \A q \in Procs : Holding(q) => Beating(q) /\ q \in beaten /\ pc[q] # "verify"
    BY <2>1 DEF Holding, Running, Beating, Brief
  <2>4. \A q \in Procs : Holding(q) => Current.left + faults.lost >= BeatTtl
    BY <1>2, <2>3 DEF LeaseLasts
  <2>5. \A q \in Procs : Holding(q) => Current.left >= 2
    BY <1>2, <2>4 DEF Quiet
  <2>6. ~ lapsed'
    BY <1>2, <2>1, <2>5
  <2>7. \A q \in Procs : /\ Holding(q)' <=> Holding(q)
                         /\ Beating(q)' <=> Beating(q)
    BY <2>1, <2>2 DEF Holding, Running, Beating
  <2>8. ASSUME NEW q \in Procs, Holding(q)
        PROVE  Current'.left + faults'.lost >= BeatTtl - IF q \in beaten' THEN 0 ELSE 1
    <3>1. rows # <<>>
      BY <1>2, <2>5, <2>8, CurrentFacts
    <3>2. PICK i \in DOMAIN rows : Current = rows[i] /\ Current' = rows'[i]
      BY <1>2, <1>12, <3>1, TickKeeps, SameCurrent
    <3>3. rows[i] \in Rows /\ i \in DOMAIN rows
      BY <1>2, RowTypes DEF LeaseType
    <3>4. rows'[i] = [rows[i] EXCEPT !.left = rows[i].left - 1]
      BY <1>2, <2>1, <2>5, <2>8, <3>2, <3>3
    <3>5. Current'.left = Current.left - 1
      BY <3>2, <3>3, <3>4 DEF Rows
    <3> QED BY <1>2, <2>1, <2>4, <2>5, <2>8, <3>5
  <2>9. \A q \in Procs : Holding(q)' => pc'[q] # "verify"
    BY <2>1, <2>3, <2>7
  <2> QED BY <2>1, <2>2, <2>6, <2>7, <2>8, <2>9, LastsOn
<1>13. CASE Merge \/ UNCHANGED vars
  <2>1. UNCHANGED <<token, pc, faults, beaten, lapsed>>
    BY <1>13 DEF Merge, vars, lease, slips, beat
  <2>2. Current' = Current
    <3>1. CASE Merge
      <4>1. rows' # <<>> /\ DOMAIN rows' = {1} /\ rows'[1] = Current
        BY <3>1 DEF Merge
      <4> QED BY <1>1, <4>1, CurrentRowNext DEF SoundInv, RaceInv, LeaseType
    <3>2. CASE UNCHANGED vars
      BY <3>2 DEF vars, lease, Current, IsCurrent
    <3> QED BY <1>13, <3>1, <3>2
  <2> QED BY <2>1, <2>2 DEF LeaseLasts, Holding, Running, Beating
<1> QED BY <1>5, <1>6, <1>7, <1>8, <1>9, <1>10, <1>11, <1>12, <1>13
       DEF Next, Thread, Acquire, Heartbeat

(* The lease of a run is kept alive: it runs out only if a process was     *)
(* suspended, processes raced for the lease, or -- with a lease of 45 s    *)
(* that is renewed every 15 s -- two heartbeats failed.                    *)
THEOREM BeatsKeepLease == Spec => []LeaseKeptAlive
<1>1. Init => QuietInv
  <2> SUFFICES ASSUME Init PROVE SoundInv /\ FaultTypes /\ ~ lapsed /\ LeaseLasts
    BY DEF QuietInv
  <2>1. FaultTypes /\ ~ lapsed /\ lapsed \in BOOLEAN /\ LeaseLasts
    BY DEF Init, FaultTypes, LeaseLasts, Holding, Running
  <2>2. LeaseHeld
    BY DEF Init, LeaseHeld, Holding, Running
  <2>3. RaceInv
    BY NoneAssumption
       DEF Init, RaceInv, LeaseType, TokensKnown, SeekersOwnNothing, SelectedIsNext,
           TokensApart, Running, Current
  <2> QED BY <2>1, <2>2, <2>3 DEF SoundInv
<1>2. QuietInv /\ [Next]_vars => QuietInv'
  BY QuietInvStep
<1>3. QuietInv => LeaseKeptAlive
  <2> SUFFICES ASSUME QuietInv, lapsed, raced = {}, ~ (faults.pauses > 0)
               PROVE  faults.lost + 2 > BeatTtl
    BY DEF LeaseKeptAlive
  <2>1. faults.lost \in Nat /\ faults.pauses = 0 /\ BeatTtl \in Nat
    BY TtlAssumption DEF QuietInv, FaultTypes
  <2> QED BY <2>1 DEF QuietInv, Quiet
<1> QED BY <1>1, <1>2, <1>3, PTL DEF Spec
==============================================================================
