------------------------ MODULE MigrationFilesProofs ------------------------
(***************************************************************************)
(* What is proved about the migration files, for any number of versions    *)
(* and any schema: the order they are applied in and the checks of their   *)
(* dependencies (MigrationOrder); the chain of the generated files with    *)
(* their plans (GenerationChain, from "The chain of generated files" on);  *)
(* and an environment after the merge of two branches (MergeRecovery, from *)
(* "The invariant of an environment" on).                                  *)
(***************************************************************************)
EXTENDS MigrationOrder, GenerationChain, MergeRecovery, SequenceTheorems,
        FiniteSetTheorems, WellFoundedInduction, TLAPS

(***************************************************************************)
(* Induction and recursion over the naturals, for sets and functions.      *)
(***************************************************************************)
LEMMA Minimum ==
  ASSUME NEW T, T \subseteq Nat, T # {}
  PROVE  \E x \in T : \A y \in T : x <= y
<1> DEFINE R == {ss \in Nat \X Nat : ss[1] < ss[2]}
<1>1. IsWellFoundedOn(R, Nat)
  BY NatLessThanWellFounded DEF OpToRel
<1>2. \A x, y \in Nat : y < x => <<y, x>> \in R
  OBVIOUS
<1> HIDE DEF R
<1>3. PICK x \in T : \A y \in T : ~ (<<y, x>> \in R)
  BY <1>1, WFMin
<1>4. ASSUME NEW y \in T PROVE x <= y
  <2>1. x \in Nat /\ y \in Nat
    OBVIOUS
  <2>2. ~ (<<y, x>> \in R)
    BY <1>3
  <2>3. ~ (y < x)
    BY <1>2, <2>1, <2>2
  <2> QED BY <2>1, <2>3
<1> QED BY <1>4

LEMMA Induction ==
  ASSUME NEW T, 0 \in T, \A n \in Nat : n \in T => n + 1 \in T
  PROVE  \A n \in Nat : n \in T
<1> SUFFICES ASSUME Nat \ T # {} PROVE FALSE
  OBVIOUS
<1>1. PICK x \in Nat \ T : \A y \in Nat \ T : x <= y
  BY Minimum
<1>2. x # 0 /\ x - 1 \in Nat
  OBVIOUS
<1>3. x - 1 \in T
  BY <1>1, <1>2
<1> QED BY <1>2, <1>3

(* f[n] is made from f[n - 1] by step[n], and f[0] is a.                   *)
Recurs(f, S, a, step) ==
  f \in [Nat -> S] /\ f[0] = a /\ \A n \in Nat : f[n + 1] = step[n + 1][f[n]]

(* Such a function exists.                                                 *)
LEMMA Recursion ==
  ASSUME NEW S, NEW a \in S, NEW step \in [Nat -> [S -> S]]
  PROVE  \E f : Recurs(f, S, a, step)
<1> DEFINE Upto(n, h) ==
             /\ h \in [0 .. n -> S] /\ h[0] = a
             /\ \A i \in 0 .. n : i # n => h[i + 1] = step[i + 1][h[i]]
           Some == {n \in Nat : \E h : Upto(n, h)}
<1>1. \A n \in Nat : n \in Some
  <2>1. 0 \in Some
    <3>1. Upto(0, [i \in 0 .. 0 |-> a])
      OBVIOUS
    <3> QED BY <3>1
  <2>2. ASSUME NEW n \in Nat, n \in Some PROVE n + 1 \in Some
    <3>1. PICK h : Upto(n, h)
      BY <2>2
    <3> DEFINE g == [i \in 0 .. (n + 1) |-> IF i <= n THEN h[i] ELSE step[n + 1][h[n]]]
    <3>2. step[n + 1][h[n]] \in S
      BY <3>1
    <3>3. g \in [0 .. (n + 1) -> S] /\ g[0] = a
      BY <3>1, <3>2
    <3>4. ASSUME NEW i \in 0 .. (n + 1), i # n + 1 PROVE g[i + 1] = step[i + 1][g[i]]
      <4>1. CASE i = n
        BY <4>1
      <4>2. CASE i # n
        <5>1. i \in 0 .. n /\ i + 1 \in 0 .. (n + 1) /\ i + 1 <= n
          BY <3>4, <4>2
        <5> QED BY <3>1, <4>2, <5>1
      <4> QED BY <4>1, <4>2
    <3>5. Upto(n + 1, g)
      BY <3>3, <3>4
    <3> HIDE DEF Upto, g
    <3> QED BY <3>5
  <2> HIDE DEF Some
  <2> QED BY <2>1, <2>2, Induction
<1>2. ASSUME NEW m \in Nat, NEW n \in Nat, NEW h, NEW g, Upto(m, h), Upto(n, g)
      PROVE  \A i \in Nat : i <= m /\ i <= n => h[i] = g[i]
  <2> DEFINE Same == {i \in Nat : i <= m /\ i <= n => h[i] = g[i]}
  <2>1. 0 \in Same
    BY <1>2
  <2>2. ASSUME NEW i \in Nat, i \in Same PROVE i + 1 \in Same
    <3> SUFFICES ASSUME i + 1 <= m, i + 1 <= n PROVE h[i + 1] = g[i + 1]
      OBVIOUS
    <3>1. i \in 0 .. m /\ i # m /\ i \in 0 .. n /\ i # n /\ i <= m /\ i <= n
      OBVIOUS
    <3> QED BY <1>2, <2>2, <3>1
  <2>3. \A i \in Nat : i \in Same
    <3> HIDE DEF Same
    <3> QED BY <2>1, <2>2, Induction
  <2> QED BY <2>3
<1> DEFINE c(n) == CHOOSE h : Upto(n, h)
           f == [n \in Nat |-> c(n)[n]]
<1>3. \A n \in Nat : Upto(n, c(n))
  <2> HIDE DEF Upto
  <2> QED BY <1>1
<1> HIDE DEF c
<1>4. f \in [Nat -> S] /\ f[0] = a
  BY <1>3
<1>5. ASSUME NEW n \in Nat PROVE f[n + 1] = step[n + 1][f[n]]
  <2>1. Upto(n, c(n)) /\ Upto(n + 1, c(n + 1))
    BY <1>3
  <2>2. c(n)[n] = c(n + 1)[n]
    <3> HIDE DEF Upto
    <3> QED BY <1>2, <2>1
  <2>3. n \in 0 .. (n + 1) /\ n # n + 1
    OBVIOUS
  <2>4. c(n + 1)[n + 1] = step[n + 1][c(n + 1)[n]]
    BY <2>1, <2>3
  <2> QED BY <2>2, <2>4
<1> QED BY <1>4, <1>5 DEF Recurs

(***************************************************************************)
(* The state.                                                              *)
(***************************************************************************)
OrderType ==
  /\ deps \in [Versions -> SUBSET (Versions \cup {Absent})]
  /\ present \subseteq Versions
  /\ superseded \subseteq present
  /\ applied \subseteq present
  /\ batch \subseteq Pending
  /\ running \in BOOLEAN

LEMMA VersionsAreFinite == IsFiniteSet(Versions)
<1>1. NumVersions \in Nat
  BY OrderAssumption
<1> QED BY <1>1, FS_Interval DEF Versions

LEMMA PendingIsFinite ==
  ASSUME OrderType
  PROVE  /\ Pending \subseteq Versions /\ IsFiniteSet(Pending)
         /\ Cardinality(Pending) \in Nat
<1>1. Pending \in SUBSET Versions
  BY DEF OrderType, Pending
<1>2. IsFiniteSet(Pending)
  BY <1>1, VersionsAreFinite, FS_Subset
<1> QED BY <1>1, <1>2, FS_CardinalityType

(***************************************************************************)
(* resolve_migration_order                                                 *)
(***************************************************************************)
(* What one turn of the loop keeps: the resolved files are pending, none   *)
(* is there twice, and each comes after those it depends on.               *)
Ordered(r) ==
  /\ r \in Seq(Pending)
  /\ \A i, j \in 1 .. Len(r) : r[i] = r[j] => i = j
  /\ \A i \in 1 .. Len(r) : deps[r[i]] \subseteq applied \cup {r[j] : j \in 1 .. (i - 1)}

(* Nothing that is left can be resolved.                                   *)
Closed(r) == \A v \in Pending \ ToSet(r) : ~(deps[v] \subseteq applied \cup ToSet(r))

LEMMA ElementsAppended ==
  ASSUME NEW S, NEW s \in Seq(S), NEW v \in S
  PROVE  /\ Append(s, v) \in Seq(S)
         /\ Len(Append(s, v)) = Len(s) + 1
         /\ \A i \in 1 .. Len(s) : Append(s, v)[i] = s[i]
         /\ Append(s, v)[Len(s) + 1] = v
         /\ ToSet(Append(s, v)) = ToSet(s) \cup {v}
<1>1. /\ Append(s, v) \in Seq(S) /\ Len(s) \in Nat
      /\ DOMAIN s = 1 .. Len(s) /\ DOMAIN Append(s, v) = 1 .. (Len(s) + 1)
      /\ \A i \in 1 .. Len(s) : Append(s, v)[i] = s[i]
      /\ Append(s, v)[Len(s) + 1] = v
  OBVIOUS
<1>2. \A i \in 1 .. (Len(s) + 1) : i \in 1 .. Len(s) \/ i = Len(s) + 1
  BY <1>1
<1>3. \A i \in 1 .. Len(s) : i \in 1 .. (Len(s) + 1)
  BY <1>1
<1>4. Len(s) + 1 \in 1 .. (Len(s) + 1)
  BY <1>1
<1>5. ToSet(Append(s, v)) = ToSet(s) \cup {v}
  BY <1>1, <1>2, <1>3, <1>4 DEF ToSet
<1>6. Len(Append(s, v)) = Len(s) + 1
  OBVIOUS
<1> QED BY <1>1, <1>5, <1>6

LEMMA ElementsOfSeq ==
  ASSUME NEW S, NEW s \in Seq(S)
  PROVE  /\ ToSet(s) \subseteq S /\ Len(s) \in Nat
         /\ \A x : x \in ToSet(s) <=> \E i \in 1 .. Len(s) : s[i] = x
BY DEF ToSet

LEMMA TryKeepsOrder ==
  ASSUME OrderType, NEW r, Ordered(r), NEW v \in Versions
  PROVE  /\ Ordered(Try(r, v)) /\ ToSet(r) \subseteq ToSet(Try(r, v))
         /\ (v \in Pending \ ToSet(r) /\ deps[v] \subseteq applied \cup ToSet(r))
              => v \in ToSet(Try(r, v))
<1>1. CASE v \in Pending \ ToSet(r) /\ deps[v] \subseteq applied \cup ToSet(r)
  <2> DEFINE s == Append(r, v)
  <2>1. r \in Seq(Pending) /\ v \in Pending /\ Try(r, v) = s
    BY <1>1 DEF Try, Ordered
  <2>2. /\ s \in Seq(Pending) /\ Len(s) = Len(r) + 1 /\ s[Len(r) + 1] = v
        /\ \A i \in 1 .. Len(r) : s[i] = r[i]
        /\ ToSet(s) = ToSet(r) \cup {v}
    BY <2>1, ElementsAppended
  <2> HIDE DEF s
  <2>3. Len(r) \in Nat /\ \A x : x \in ToSet(r) <=> \E i \in 1 .. Len(r) : r[i] = x
    BY <2>1, ElementsOfSeq
  <2>4. \A i \in 1 .. Len(s) : i \in 1 .. Len(r) \/ i = Len(r) + 1
    BY <2>2, <2>3
  <2>5. ASSUME NEW i \in 1 .. Len(s), NEW j \in 1 .. Len(s), s[i] = s[j] PROVE i = j
    <3>1. CASE i \in 1 .. Len(r) /\ j \in 1 .. Len(r)
      BY <3>1, <2>2, <2>5 DEF Ordered
    <3>2. CASE i = Len(r) + 1 /\ j \in 1 .. Len(r)
      BY <3>2, <2>2, <2>3, <2>5, <1>1
    <3>3. CASE j = Len(r) + 1 /\ i \in 1 .. Len(r)
      BY <3>3, <2>2, <2>3, <2>5, <1>1
    <3> QED BY <2>4, <3>1, <3>2, <3>3
  <2>6. ASSUME NEW i \in 1 .. Len(s)
        PROVE  deps[s[i]] \subseteq applied \cup {s[j] : j \in 1 .. (i - 1)}
    <3>1. CASE i \in 1 .. Len(r)
      <4>1. \A j \in 1 .. (i - 1) : j \in 1 .. Len(r)
        BY <3>1, <2>3
      <4>2. {s[j] : j \in 1 .. (i - 1)} = {r[j] : j \in 1 .. (i - 1)}
        BY <4>1, <2>2
      <4> QED BY <3>1, <4>2, <2>2 DEF Ordered
    <3>2. CASE i = Len(r) + 1
      <4>1. i - 1 = Len(r) /\ s[i] = v
        BY <3>2, <2>2, <2>3
      <4>2. \A x \in ToSet(r) : \E j \in 1 .. (i - 1) : s[j] = x
        BY <4>1, <2>2, <2>3
      <4> QED BY <4>1, <4>2, <1>1
    <3> QED BY <2>4, <3>1, <3>2
  <2> QED BY <2>1, <2>2, <2>5, <2>6 DEF Ordered
<1>2. CASE ~(v \in Pending \ ToSet(r) /\ deps[v] \subseteq applied \cup ToSet(r))
  BY <1>2 DEF Try
<1> QED BY <1>1, <1>2

LEMMA TryType ==
  ASSUME NEW r \in Seq(Versions), NEW v \in Versions
  PROVE  Try(r, v) \in Seq(Versions)
BY ElementsAppended DEF Try

(* The pass as a sequence of turns, one for each version.                  *)
LEMMA PassTurns ==
  ASSUME NEW r \in Seq(Versions)
  PROVE  \E u : /\ u[0] = r /\ \A v \in Versions : u[v] = Try(u[v - 1], v)
                /\ Pass(r) = u[NumVersions]
<1> DEFINE S == Seq(Versions)
           turn == [n \in Nat |-> [s \in S |-> IF n \in Versions THEN Try(s, n) ELSE s]]
           G(g) == [v \in 0 .. NumVersions |-> IF v = 0 THEN r ELSE Try(g[v - 1], v)]
<1>1. NumVersions \in Nat
  BY OrderAssumption
<1>2. turn \in [Nat -> [S -> S]] /\ r \in S
  BY TryType
<1>3. PICK f : Recurs(f, S, r, turn)
  <2> HIDE DEF S, turn
  <2> QED BY <1>2, Recursion
<1>4. ASSUME NEW v \in Versions PROVE f[v] = Try(f[v - 1], v)
  <2>1. v - 1 \in Nat /\ v \in Nat /\ (v - 1) + 1 = v
    BY <1>1 DEF Versions
  <2>2. f[v] = turn[v][f[v - 1]] /\ f[v - 1] \in S
    <3> HIDE DEF turn, S
    <3> QED BY <1>3, <2>1 DEF Recurs
  <2> QED BY <2>1, <2>2
<1> DEFINE h == [v \in 0 .. NumVersions |-> f[v]]
<1>5. \A v \in 0 .. NumVersions : v = 0 \/ (v \in Versions /\ v - 1 \in 0 .. NumVersions)
  BY <1>1 DEF Versions
<1>6. h = G(h)
  BY <1>3, <1>4, <1>5 DEF Recurs
<1> DEFINE u == CHOOSE g : g = G(g)
<1>7. u = G(u)
  <2> HIDE DEF G, h
  <2> QED BY <1>6
<1>8. Pass(r) = u[NumVersions]
  BY DEF Pass
<1> HIDE DEF u
<1>9. \A v \in Versions : v \in 0 .. NumVersions /\ v # 0
  BY <1>1 DEF Versions
<1>10. 0 \in 0 .. NumVersions
  BY <1>1
<1>11. u[0] = r
  BY <1>7, <1>10
<1>12. ASSUME NEW v \in Versions PROVE u[v] = Try(u[v - 1], v)
  BY <1>7, <1>9
<1> QED BY <1>8, <1>11, <1>12

(* A pass keeps the order, resolves what could be resolved when it began,  *)
(* and does nothing if that is nothing.                                    *)
LEMMA PassProgress ==
  ASSUME OrderType, NEW r, Ordered(r)
  PROVE  /\ Ordered(Pass(r)) /\ ToSet(r) \subseteq ToSet(Pass(r))
         /\ \A v \in Pending : deps[v] \subseteq applied \cup ToSet(r) => v \in ToSet(Pass(r))
         /\ Closed(r) => Pass(r) = r
<1>1. NumVersions \in Nat /\ Pending \subseteq Versions
  BY OrderAssumption, PendingIsFinite
<1>2. r \in Seq(Versions)
  BY <1>1 DEF Ordered
<1>3. PICK u : /\ u[0] = r /\ \A v \in Versions : u[v] = Try(u[v - 1], v)
               /\ Pass(r) = u[NumVersions]
  BY <1>2, PassTurns
<1> DEFINE Could(v) == v \in Pending /\ deps[v] \subseteq applied \cup ToSet(r)
           After1(n) == /\ Ordered(u[n]) /\ ToSet(r) \subseteq ToSet(u[n])
                        /\ \A v \in Versions : v <= n /\ Could(v) => v \in ToSet(u[n])
                        /\ Closed(r) => u[n] = r
           T == {n \in Nat : n <= NumVersions => After1(n)}
<1>4. After1(0)
  BY <1>3 DEF Versions
<1>5. ASSUME NEW n \in Nat, n + 1 <= NumVersions, After1(n) PROVE After1(n + 1)
  <2> DEFINE w == n + 1
  <2>1. w \in Versions /\ w - 1 = n
    BY <1>5 DEF Versions
  <2> HIDE DEF w
  <2>2. u[w] = Try(u[n], w)
    BY <1>3, <2>1
  <2>3. /\ Ordered(u[w]) /\ ToSet(u[n]) \subseteq ToSet(u[w])
        /\ (w \in Pending \ ToSet(u[n]) /\ deps[w] \subseteq applied \cup ToSet(u[n]))
             => w \in ToSet(u[w])
    BY <1>5, <2>1, <2>2, TryKeepsOrder
  <2>4. ToSet(r) \subseteq ToSet(u[w])
    BY <1>5, <2>3
  <2>5. Could(w) => w \in ToSet(u[w])
    BY <1>5, <2>3
  <2>6. \A v \in Versions : v <= w => v = w \/ v <= n
    BY <1>5, <2>1 DEF Versions
  <2>7. \A v \in Versions : v <= w /\ Could(v) => v \in ToSet(u[w])
    BY <1>5, <2>3, <2>5, <2>6
  <2>8. Closed(r) => u[w] = r
    BY <1>5, <2>2 DEF Closed, Try
  <2> QED BY <2>3, <2>4, <2>7, <2>8 DEF w
<1> HIDE DEF After1
<1>6. 0 \in T /\ \A n \in Nat : n \in T => n + 1 \in T
  BY <1>4, <1>5, <1>1
<1>7. \A n \in Nat : n \in T
  <2> HIDE DEF T
  <2> QED BY <1>6, Induction
<1>8. After1(NumVersions)
  BY <1>1, <1>7
<1>9. \A v \in Pending : v \in Versions /\ v <= NumVersions
  BY <1>1 DEF Versions
<1> QED BY <1>3, <1>8, <1>9 DEF After1

LEMMA PassType ==
  ASSUME NEW r \in Seq(Versions)
  PROVE  Pass(r) \in Seq(Versions)
<1>1. NumVersions \in Nat
  BY OrderAssumption
<1>2. PICK u : /\ u[0] = r /\ \A v \in Versions : u[v] = Try(u[v - 1], v)
               /\ Pass(r) = u[NumVersions]
  BY PassTurns
<1> DEFINE T == {n \in Nat : n <= NumVersions => u[n] \in Seq(Versions)}
<1>3. 0 \in T
  BY <1>2
<1>4. ASSUME NEW n \in Nat, n \in T PROVE n + 1 \in T
  <2> SUFFICES ASSUME n + 1 <= NumVersions PROVE u[n + 1] \in Seq(Versions)
    OBVIOUS
  <2>1. n + 1 \in Versions /\ (n + 1) - 1 = n /\ u[n] \in Seq(Versions)
    BY <1>1, <1>4 DEF Versions
  <2>2. u[n + 1] = Try(u[n], n + 1)
    BY <1>2, <2>1
  <2> QED BY <2>1, <2>2, TryType
<1>5. \A n \in Nat : n \in T
  <2> HIDE DEF T
  <2> QED BY <1>3, <1>4, Induction
<1> QED BY <1>1, <1>2, <1>5

LEMMA AfterPasses ==
  /\ After[0] = << >>
  /\ \A i \in Nat : After[i + 1] = Pass(After[i]) /\ After[i] \in Seq(Versions)
<1> DEFINE S == Seq(Versions)
           step == [n \in Nat |-> [s \in S |-> Pass(s)]]
           G(g) == [i \in Nat |-> IF i = 0 THEN << >> ELSE Pass(g[i - 1])]
<1>1. step \in [Nat -> [S -> S]] /\ << >> \in S
  BY PassType
<1>2. PICK f : Recurs(f, S, << >>, step)
  <2> HIDE DEF S, step
  <2> QED BY <1>1, Recursion
<1>3. f \in [Nat -> S] /\ f[0] = << >>
  BY <1>2 DEF Recurs
<1>4. ASSUME NEW n \in Nat PROVE f[n + 1] = Pass(f[n])
  <2>1. f[n + 1] = step[n + 1][f[n]] /\ f[n] \in S /\ n + 1 \in Nat
    <3> HIDE DEF step, S
    <3> QED BY <1>2 DEF Recurs
  <2> QED BY <2>1
<1>5. ASSUME NEW i \in Nat, i # 0 PROVE f[i] = Pass(f[i - 1])
  <2>1. i - 1 \in Nat /\ (i - 1) + 1 = i
    BY <1>5
  <2> QED BY <1>4, <2>1
<1>6. f = G(f)
  BY <1>3, <1>5
<1>7. After = G(After)
  <2>1. After = CHOOSE g : g = G(g)
    BY DEF After
  <2> HIDE DEF G
  <2> QED BY <1>6, <2>1
<1>8. After[0] = << >> /\ \A i \in Nat : After[i + 1] = Pass(After[i])
  <2>1. \A i \in Nat : i + 1 \in Nat /\ i + 1 # 0 /\ (i + 1) - 1 = i
    OBVIOUS
  <2> QED BY <1>7, <2>1
<1> DEFINE T == {i \in Nat : After[i] \in S}
<1>9. 0 \in T
  BY <1>1, <1>8
<1>10. ASSUME NEW n \in Nat, n \in T PROVE n + 1 \in T
  <2>1. Pass(After[n]) \in S
    BY <1>10, PassType
  <2>2. After[n + 1] = Pass(After[n])
    BY <1>8
  <2>3. After[n + 1] \in S
    BY <2>1, <2>2
  <2> QED BY <2>3
<1>11. \A i \in Nat : i \in T
  <2> HIDE DEF T
  <2> QED BY <1>9, <1>10, Induction
<1> QED BY <1>8, <1>11

(* The files that a pass left are resolved one by one or not at all: after *)
(* as many passes as there are files nothing that could be is left.        *)
LEMMA AfterProgress ==
  ASSUME OrderType, NEW i \in Nat
  PROVE  /\ Ordered(After[i]) /\ ToSet(After[i]) \subseteq Pending
         /\ Closed(After[i]) \/ Cardinality(ToSet(After[i])) >= i
<1> DEFINE C(n) == Cardinality(ToSet(After[n]))
           T == {n \in Nat : Ordered(After[n]) /\ (Closed(After[n]) \/ C(n) >= n)}
<1>1. \A r : Ordered(r) =>
        ToSet(r) \in SUBSET Pending /\ IsFiniteSet(ToSet(r)) /\ Cardinality(ToSet(r)) \in Nat
  <2> SUFFICES ASSUME NEW r, Ordered(r)
               PROVE  /\ ToSet(r) \in SUBSET Pending /\ IsFiniteSet(ToSet(r))
                      /\ Cardinality(ToSet(r)) \in Nat
    OBVIOUS
  <2>1. ToSet(r) \in SUBSET Pending
    BY ElementsOfSeq DEF Ordered
  <2>2. IsFiniteSet(ToSet(r))
    BY <2>1, PendingIsFinite, FS_Subset
  <2> QED BY <2>1, <2>2, FS_CardinalityType
<1>2. 0 \in T
  <2>1. Ordered(After[0])
    BY AfterPasses DEF Ordered
  <2> QED BY <1>1, <2>1
<1>3. ASSUME NEW n \in Nat, n \in T PROVE n + 1 \in T
  <2>1. /\ Ordered(After[n]) /\ After[n + 1] = Pass(After[n])
        /\ Closed(After[n]) \/ C(n) >= n
    BY <1>3, AfterPasses
  <2>2. /\ Ordered(After[n + 1]) /\ ToSet(After[n]) \subseteq ToSet(After[n + 1])
        /\ \A v \in Pending :
             deps[v] \subseteq applied \cup ToSet(After[n]) => v \in ToSet(After[n + 1])
        /\ Closed(After[n]) => After[n + 1] = After[n]
    BY <2>1, PassProgress
  <2>3. CASE Closed(After[n])
    BY <2>2, <2>3
  <2>4. CASE ~Closed(After[n])
    <3>1. PICK v \in Pending \ ToSet(After[n]) : deps[v] \subseteq applied \cup ToSet(After[n])
      BY <2>4 DEF Closed
    <3> DEFINE A == ToSet(After[n])
               B == ToSet(After[n + 1])
    <3>2. A \cup {v} \in SUBSET B
      BY <2>2, <3>1
    <3>3. IsFiniteSet(A) /\ IsFiniteSet(B) /\ Cardinality(A) \in Nat /\ Cardinality(B) \in Nat
      BY <1>1, <2>1, <2>2
    <3>4. Cardinality(A \cup {v}) = Cardinality(A) + 1
      <4>1. v \notin A
        BY <3>1
      <4> HIDE DEF A
      <4> QED BY <3>3, <4>1, FS_AddElement
    <3>5. Cardinality(A \cup {v}) <= Cardinality(B)
      <4> HIDE DEF A, B
      <4> QED BY <3>2, <3>3, FS_Subset
    <3>6. C(n + 1) >= n + 1
      BY <2>1, <2>4, <3>3, <3>4, <3>5
    <3> QED BY <2>2, <3>6
  <2> QED BY <2>3, <2>4
<1>4. \A n \in Nat : n \in T
  <2> HIDE DEF T
  <2> QED BY <1>2, <1>3, Induction
<1> QED BY <1>1, <1>4

(* What resolve_migration_order returns.                                   *)
LEMMA ResolvedIsClosed ==
  ASSUME OrderType
  PROVE  /\ Ordered(Resolved) /\ Closed(Resolved)
         /\ ToSet(Resolved) \subseteq Pending
<1> DEFINE c == Cardinality(Pending)
           i == 2 * c
<1>1. c \in Nat /\ IsFiniteSet(Pending)
  BY PendingIsFinite
<1>2. i \in Nat /\ i >= c /\ (i <= c => c = 0) /\ Resolved = After[i]
  BY <1>1 DEF Resolved
<1> HIDE DEF i
<1>3. /\ Ordered(After[i]) /\ ToSet(After[i]) \in SUBSET Pending
      /\ Closed(After[i]) \/ Cardinality(ToSet(After[i])) >= i
  BY <1>2, AfterProgress
<1>4. Cardinality(ToSet(After[i])) <= c /\ Cardinality(ToSet(After[i])) \in Nat
  <2> HIDE DEF c
  <2> QED BY <1>1, <1>3, FS_Subset, FS_CardinalityType DEF c
<1>5. c = 0 => Closed(After[i])
  <2>1. c = 0 => Pending = {}
    BY <1>1, FS_EmptySet
  <2> QED BY <2>1 DEF Closed
<1> HIDE DEF c
<1>6. Closed(After[i])
  BY <1>1, <1>2, <1>3, <1>4, <1>5
<1> QED BY <1>2, <1>3, <1>6

LEMMA Resolution == OrderType => ResolvesIfPossible
<1> SUFFICES ASSUME OrderType PROVE ResolvesIfPossible
  OBVIOUS
<1> DEFINE R == Resolved
           n == Len(R)
<1>1. /\ R \in Seq(Pending) /\ n \in Nat /\ ToSet(R) \subseteq Pending
      /\ \A i \in 1 .. n : deps[R[i]] \subseteq applied \cup {R[j] : j \in 1 .. (i - 1)}
      /\ \A v \in Pending \ ToSet(R) : ~(deps[v] \subseteq applied \cup ToSet(R))
      /\ \A x : x \in ToSet(R) <=> \E i \in 1 .. n : R[i] = x
      /\ DOMAIN R = 1 .. n
  BY ResolvedIsClosed, ElementsOfSeq DEF Ordered, Closed
<1> HIDE DEF R, n
<1>2. ASSUME ToSet(R) = Pending, NEW S \in (SUBSET Pending) \ {{}}
      PROVE  \E v \in S : deps[v] \subseteq applied \cup (Pending \ S)
  <2> DEFINE I == {i \in 1 .. n : R[i] \in S}
  <2>1. I # {} /\ I \subseteq Nat
    BY <1>1, <1>2
  <2>2. PICK i \in I : \A j \in I : i <= j
    BY <2>1, Minimum
  <2>3. \A j \in 1 .. (i - 1) : j \in 1 .. n /\ ~(i <= j)
    BY <2>2, <1>1
  <2>4. \A j \in 1 .. (i - 1) : R[j] \in Pending \ S
    BY <2>2, <2>3, <1>1, <1>2
  <2> QED BY <2>2, <2>4, <1>1
<1>3. ASSUME ToSet(R) # Pending
      PROVE  \E S \in (SUBSET Pending) \ {{}} :
               \A v \in S : ~(deps[v] \subseteq applied \cup (Pending \ S))
  <2> DEFINE S == Pending \ ToSet(R)
  <2>1. S \in (SUBSET Pending) \ {{}} /\ Pending \ S = ToSet(R)
    BY <1>1, <1>3
  <2> QED BY <2>1, <1>1
<1> QED BY <1>1, <1>2, <1>3 DEF ResolvesIfPossible, Resolves, R, n

(***************************************************************************)
(* validate_dependencies                                                   *)
(***************************************************************************)
Walks == [visited : SUBSET Pending, path : Seq(Pending), cycle : BOOLEAN]

(* In S every file depends on one of S.                                    *)
Round(S) == \A v \in S : deps[v] \cap S # {}

(* The versions whose calls have returned: they depend on each other only, *)
(* and not in a circle; those on the stack each depend on the next.        *)
Returned(w) == w.visited \ Stack(w)

WalkInv(w) ==
  /\ w \in Walks
  /\ Stack(w) \subseteq w.visited
  /\ \A i, j \in 1 .. Len(w.path) : w.path[i] = w.path[j] => i = j
  /\ \A i \in 1 .. Len(w.path) : i # Len(w.path) => w.path[i + 1] \in deps[w.path[i]]
  /\ \A v \in Returned(w) : deps[v] \cap Pending \subseteq Returned(w)
  /\ \A S \in SUBSET Returned(w) : Round(S) => S = {}
  /\ w.cycle => \E S \in SUBSET Pending : S # {} /\ Round(S)

(* The calls and returns that are left.                                    *)
Left(w) == 2 * Cardinality(Pending \ w.visited) + Len(w.path)

LEMMA MinIsElement ==
  ASSUME OrderType, NEW S, S \subseteq Pending, S # {}
  PROVE  Min(S) \in S
<1>1. S \subseteq Nat
  BY OrderAssumption, PendingIsFinite DEF Versions
<1>2. \E x \in S : \A y \in S : x <= y
  BY <1>1, Minimum
<1> QED BY <1>2 DEF Min

LEMMA EnterStep ==
  ASSUME OrderType, NEW w, WalkInv(w), ~w.cycle, NEW v \in Pending \ w.visited,
         w.path # << >> => v \in deps[Last(w.path)]
  PROVE  /\ WalkInv(Enter(w, v)) /\ ~Enter(w, v).cycle
         /\ Left(Enter(w, v)) = Left(w) - 1 /\ Left(w) \in Nat
<1> DEFINE e == Enter(w, v)
           p == w.path
           n == Len(p)
<1>1. w \in Walks /\ p \in Seq(Pending) /\ w.visited \in SUBSET Pending /\ n \in Nat
  BY ElementsOfSeq DEF WalkInv, Walks
<1>2. /\ e \in Walks /\ e.visited = w.visited \cup {v} /\ e.path = Append(p, v)
      /\ e.cycle = FALSE
  BY <1>1, ElementsAppended DEF Enter, Walks
<1> DEFINE q == e.path
<1>3. /\ q \in Seq(Pending) /\ Len(q) = n + 1 /\ q[n + 1] = v
      /\ \A i \in 1 .. n : q[i] = p[i]
      /\ ToSet(q) = ToSet(p) \cup {v}
  BY <1>1, <1>2, ElementsAppended
<1>4. /\ ToSet(p) \subseteq w.visited
      /\ \A i, j \in 1 .. n : p[i] = p[j] => i = j
      /\ \A i \in 1 .. n : i # n => p[i + 1] \in deps[p[i]]
  BY DEF WalkInv, Stack
<1>5. \A i \in 1 .. n : p[i] \in w.visited
  BY <1>1, <1>4, ElementsOfSeq
<1>6. p # << >> => p[n] = Last(p) /\ n \in 1 .. n
  BY <1>1 DEF Last
<1>7. \A i \in 1 .. n : p # << >>
  BY <1>1
<1>8. Returned(e) = Returned(w) /\ Stack(e) \subseteq e.visited
  BY <1>2, <1>3, <1>4 DEF Returned, Stack
<1> HIDE DEF e, p, n, q
<1>9. \A i \in 1 .. (n + 1) : i \in 1 .. n \/ i = n + 1
  BY <1>1
<1>10. ASSUME NEW i \in 1 .. (n + 1), NEW j \in 1 .. (n + 1), q[i] = q[j] PROVE i = j
  <2>1. CASE i \in 1 .. n /\ j \in 1 .. n
    BY <2>1, <1>3, <1>4, <1>10
  <2>2. CASE i = n + 1 /\ j \in 1 .. n
    BY <2>2, <1>3, <1>5, <1>10
  <2>3. CASE j = n + 1 /\ i \in 1 .. n
    BY <2>3, <1>3, <1>5, <1>10
  <2> QED BY <1>9, <2>1, <2>2, <2>3
<1>11. ASSUME NEW i \in 1 .. (n + 1), i # n + 1 PROVE q[i + 1] \in deps[q[i]]
  <2>1. i \in 1 .. n
    BY <1>9, <1>11
  <2>2. CASE i = n
    BY <2>1, <2>2, <1>3, <1>6, <1>7 DEF p
  <2>3. CASE i # n
    <3>1. i + 1 \in 1 .. n
      BY <2>1, <2>3, <1>1
    <3> QED BY <2>1, <2>3, <3>1, <1>3, <1>4
  <2> QED BY <2>2, <2>3
<1>12. WalkInv(e)
  BY <1>2, <1>3, <1>8, <1>10, <1>11 DEF WalkInv, q
<1>13. /\ Cardinality(Pending \ w.visited) \in Nat
       /\ Cardinality(Pending \ e.visited) = Cardinality(Pending \ w.visited) - 1
  <2> DEFINE U == Pending \ w.visited
  <2>1. IsFiniteSet(U) /\ v \in U /\ Pending \ e.visited = U \ {v}
    <3>1. U \in SUBSET Pending
      OBVIOUS
    <3>2. IsFiniteSet(U)
      BY <3>1, PendingIsFinite, FS_Subset
    <3> QED BY <3>2, <1>2
  <2>2. Cardinality(U) \in Nat /\ Cardinality(U \ {v}) = Cardinality(U) - 1
    <3> HIDE DEF U
    <3> QED BY <2>1, FS_RemoveElement, FS_CardinalityType
  <2> QED BY <2>1, <2>2
<1>14. Left(e) = Left(w) - 1 /\ Left(w) \in Nat
  <2> DEFINE c == Cardinality(Pending \ w.visited)
             d == Cardinality(Pending \ e.visited)
  <2>1. c \in Nat /\ d = c - 1 /\ n \in Nat /\ Len(q) = n + 1
    BY <1>1, <1>3, <1>13
  <2>2. Left(w) = 2 * c + n /\ Left(e) = 2 * d + Len(q)
    BY DEF Left, q, n, p
  <2> HIDE DEF c, d
  <2> QED BY <2>1, <2>2
<1> QED BY <1>2, <1>12, <1>14 DEF e

LEMMA FrontElements ==
  ASSUME NEW S, NEW s \in Seq(S), s # << >>
  PROVE  /\ Front(s) \in Seq(S) /\ Len(Front(s)) = Len(s) - 1
         /\ \A i \in 1 .. Len(Front(s)) : Front(s)[i] = s[i]
         /\ Len(s) \in Nat \ {0} /\ Last(s) = s[Len(s)] /\ Last(s) \in S
<1>1. Len(s) \in Nat \ {0} /\ \A i \in 1 .. (Len(s) - 1) : s[i] \in S
  BY EmptySeq
<1> DEFINE m == Len(s) - 1
           f == SubSeq(s, 1, m)
<1>2. f \in Seq(S) /\ Len(f) = m /\ \A i \in 1 .. m : f[i] = s[i]
  <2>1. m \in Int /\ 1 \in Int /\ \A i \in 1 .. m : s[i] \in S
    BY <1>1
  <2>2. m \in Nat
    BY <1>1
  <2>3. \A i \in 1 .. m : 1 + i - 1 = i
    BY <2>1
  <2> HIDE DEF m
  <2>4. /\ f \in Seq(S) /\ Len(f) = IF 1 <= m THEN m - 1 + 1 ELSE 0
        /\ \A i \in 1 .. (m - 1 + 1) : f[i] = s[1 + i - 1]
    BY <2>1, SubSeqProperties
  <2> HIDE DEF f
  <2>5. m - 1 + 1 = m /\ (~(1 <= m) => m = 0)
    BY <2>2
  <2> QED BY <2>3, <2>4, <2>5
<1>3. Last(s) = s[Len(s)] /\ Last(s) \in S
  BY <1>1 DEF Last
<1> QED BY <1>1, <1>2, <1>3 DEF Front

(* The call of the last version of the path returns.                       *)
LEMMA ReturnStep ==
  ASSUME OrderType, NEW w, WalkInv(w), ~w.cycle, w.path # << >>,
         deps[Last(w.path)] \cap Pending \subseteq Returned(w)
  PROVE  LET e == [w EXCEPT !.path = Front(@)]
         IN  WalkInv(e) /\ ~e.cycle /\ Left(e) = Left(w) - 1 /\ Left(w) \in Nat
<1> DEFINE e == [w EXCEPT !.path = Front(@)]
           p == w.path
           n == Len(p)
           q == e.path
           v == Last(p)
<1>1. w \in Walks /\ p \in Seq(Pending) /\ w.visited \in SUBSET Pending
  BY DEF WalkInv, Walks
<1>2. /\ Front(p) \in Seq(Pending) /\ Len(Front(p)) = n - 1
      /\ \A i \in 1 .. (n - 1) : Front(p)[i] = p[i]
      /\ n \in Nat \ {0} /\ v = p[n] /\ v \in Pending
  BY <1>1, FrontElements
<1>3. e \in Walks /\ e.visited = w.visited /\ q = Front(p) /\ e.cycle = FALSE
  BY <1>1, <1>2 DEF Walks
<1>4. /\ ToSet(p) \subseteq w.visited
      /\ \A i, j \in 1 .. n : p[i] = p[j] => i = j
      /\ \A i \in 1 .. n : i # n => p[i + 1] \in deps[p[i]]
  BY DEF WalkInv, Stack
<1>5. /\ \A x : x \in ToSet(p) <=> \E i \in 1 .. n : p[i] = x
      /\ \A x : x \in ToSet(q) <=> \E i \in 1 .. (n - 1) : p[i] = x
  BY <1>1, <1>2, <1>3, ElementsOfSeq
<1> HIDE DEF e, p, n, q, v
<1>6. \A i \in 1 .. n : i = n \/ i \in 1 .. (n - 1)
  BY <1>2
<1>7. n \in 1 .. n /\ \A i \in 1 .. (n - 1) : i \in 1 .. n /\ i # n
  BY <1>2
<1>8. ToSet(q) = ToSet(p) \ {v} /\ v \in ToSet(p)
  BY <1>2, <1>4, <1>5, <1>6, <1>7
<1>9. Returned(e) = Returned(w) \cup {v} /\ v \notin Returned(w)
  BY <1>3, <1>4, <1>8 DEF Returned, Stack, q, p
<1>10. deps[v] \cap Pending \subseteq Returned(w)
  BY DEF v, p
<1>11. /\ \A x \in Returned(w) : deps[x] \cap Pending \subseteq Returned(w)
       /\ \A S \in SUBSET Returned(w) : Round(S) => S = {}
       /\ Returned(w) \subseteq Pending
  BY <1>1 DEF WalkInv, Returned
<1>12. ASSUME NEW S \in SUBSET Returned(e), Round(S) PROVE S = {}
  <2> DEFINE U == S \ {v}
  <2>1. U \in SUBSET Returned(w) /\ S \subseteq Pending
    BY <1>2, <1>9, <1>11, <1>12
  <2>2. ASSUME NEW x \in U PROVE deps[x] \cap U # {}
    BY <2>1, <2>2, <1>9, <1>11, <1>12 DEF Round
  <2>3. U = {}
    <3>1. Round(U)
      BY <2>2 DEF Round
    <3> QED BY <2>1, <3>1, <1>11
  <2>4. v \notin S
    BY <2>1, <2>3, <1>9, <1>10, <1>12 DEF Round
  <2> QED BY <2>3, <2>4
<1>13. WalkInv(e)
  <2>1. \A i, j \in 1 .. Len(e.path) : e.path[i] = e.path[j] => i = j
    BY <1>2, <1>3, <1>4, <1>7 DEF q
  <2>2. ASSUME NEW i \in 1 .. Len(e.path), i # Len(e.path)
        PROVE  e.path[i + 1] \in deps[e.path[i]]
    <3>1. i \in 1 .. (n - 1) /\ i + 1 \in 1 .. (n - 1)
      BY <2>2, <1>2, <1>3 DEF q
    <3> QED BY <3>1, <1>2, <1>3, <1>4, <1>7 DEF q
  <2>3. Stack(e) \subseteq e.visited
    BY <1>3, <1>4, <1>8 DEF Stack, q
  <2>4. \A x \in Returned(e) : deps[x] \cap Pending \subseteq Returned(e)
    BY <1>9, <1>10, <1>11
  <2> QED BY <2>1, <2>2, <2>3, <2>4, <1>3, <1>12 DEF WalkInv
<1>14. Left(e) = Left(w) - 1 /\ Left(w) \in Nat
  <2> DEFINE c == Cardinality(Pending \ w.visited)
  <2>1. c \in Nat
    <3> DEFINE U == Pending \ w.visited
    <3>1. U \in SUBSET Pending
      OBVIOUS
    <3>2. IsFiniteSet(U)
      BY <3>1, PendingIsFinite, FS_Subset
    <3> QED BY <3>2, FS_CardinalityType
  <2>2. Left(w) = 2 * c + n /\ Left(e) = 2 * c + (n - 1)
    BY <1>2, <1>3 DEF Left, q, n, p
  <2> HIDE DEF c
  <2> QED BY <2>1, <2>2, <1>2
<1> QED BY <1>3, <1>13, <1>14 DEF e

(* The call of the last version of the path meets one of the stack.        *)
LEMMA CycleStep ==
  ASSUME OrderType, NEW w, WalkInv(w), w.path # << >>,
         NEW d \in deps[Last(w.path)] \cap Stack(w)
  PROVE  \E S \in SUBSET Pending : S # {} /\ Round(S)
<1> DEFINE p == w.path
           n == Len(p)
<1>1. p \in Seq(Pending) /\ p # << >>
  BY DEF WalkInv, Walks
<1>2. n \in Nat \ {0} /\ Last(p) = p[n] /\ \A i \in 1 .. n : p[i] \in Pending
  <2>1. n \in Nat \ {0} /\ Last(p) = p[n]
    BY <1>1, FrontElements
  <2>2. \A i \in 1 .. n : p[i] \in Pending
    BY <1>1
  <2> QED BY <2>1, <2>2
<1>3. PICK j \in 1 .. n : p[j] = d
  BY <1>1, ElementsOfSeq DEF Stack
<1>4. \A i \in 1 .. n : i # n => p[i + 1] \in deps[p[i]]
  BY DEF WalkInv
<1>5. d \in deps[p[n]]
  BY <1>2
<1> HIDE DEF p, n
<1> DEFINE S == {p[i] : i \in j .. n}
<1>6. S \subseteq Pending /\ d \in S
  BY <1>2, <1>3
<1>7. ASSUME NEW i \in j .. n PROVE deps[p[i]] \cap S # {}
  <2>1. CASE i = n
    BY <2>1, <1>5, <1>6
  <2>2. CASE i # n
    <3>1. i + 1 \in j .. n /\ i \in 1 .. n
      BY <2>2, <1>2, <1>3
    <3>2. p[i + 1] \in S /\ p[i + 1] \in deps[p[i]]
      BY <3>1, <2>2, <1>4
    <3> QED BY <3>2
  <2> QED BY <2>1, <2>2
<1>8. Round(S)
  BY <1>7 DEF Round
<1> HIDE DEF S
<1> QED BY <1>6, <1>8

LEMMA VisitStep ==
  ASSUME OrderType, NEW w, WalkInv(w)
  PROVE  /\ WalkInv(Visit(w)) /\ Left(w) \in Nat
         /\ Visit(w).cycle \/ Left(w) = 0 \/ Left(Visit(w)) = Left(w) - 1
         /\ Left(w) = 0 => Visit(w) = w
<1> DEFINE open == (deps[Last(w.path)] \cap Pending) \ (w.visited \ Stack(w))
<1>1. w \in Walks /\ Stack(w) \subseteq w.visited
  BY DEF WalkInv
<1>2. Left(w) \in Nat /\ (Left(w) = 0 => w.path = << >> /\ Pending \subseteq w.visited)
  <2> DEFINE U == Pending \ w.visited
             c == Cardinality(U)
  <2>1. U \in SUBSET Pending
    OBVIOUS
  <2>2. IsFiniteSet(U)
    BY <2>1, PendingIsFinite, FS_Subset
  <2>3. c \in Nat /\ (c = 0 => U = {})
    BY <2>2, FS_CardinalityType, FS_EmptySet
  <2>4. Len(w.path) \in Nat /\ (Len(w.path) = 0 => w.path = << >>)
    BY <1>1, EmptySeq DEF Walks
  <2>5. Left(w) = 2 * c + Len(w.path)
    BY DEF Left
  <2> DEFINE n == Len(w.path)
             l == Left(w)
  <2> HIDE DEF c, U, n, l
  <2>6. l \in Nat /\ (l = 0 => c = 0 /\ n = 0)
    <3>1. n \in Nat /\ l = 2 * c + n
      BY <2>4, <2>5 DEF n, l
    <3> QED BY <3>1, <2>3
  <2> QED BY <2>3, <2>4, <2>6 DEF U, l, n
<1>3. CASE w.cycle
  BY <1>2, <1>3 DEF Visit
<1>4. CASE ~w.cycle /\ w.path = << >> /\ Pending \subseteq w.visited
  <2>1. Visit(w) = w
    BY <1>4 DEF Visit
  <2>2. Left(w) = 0
    <3>1. Pending \ w.visited = {} /\ Len(w.path) = 0
      BY <1>4
    <3>2. Cardinality(Pending \ w.visited) = 0
      BY <3>1, FS_EmptySet
    <3> QED BY <3>1, <3>2 DEF Left
  <2> QED BY <2>1, <2>2, <1>2
<1>5. CASE ~w.cycle /\ w.path = << >> /\ ~(Pending \subseteq w.visited)
  <2> DEFINE v == Min(Pending \ w.visited)
  <2>1. v \in Pending \ w.visited
    <3> DEFINE U == Pending \ w.visited
    <3>1. U \subseteq Pending /\ U # {}
      BY <1>5
    <3> QED BY <3>1, MinIsElement
  <2>2. Visit(w) = Enter(w, v)
    BY <1>5 DEF Visit
  <2> HIDE DEF v
  <2> QED BY <2>1, <2>2, <1>2, <1>5, EnterStep
<1>6. CASE ~w.cycle /\ w.path # << >>
  <2>1. Left(w) # 0
    BY <1>2, <1>6
  <2>2. CASE open = {}
    <3>1. deps[Last(w.path)] \cap Pending \subseteq Returned(w)
      BY <2>2 DEF Returned
    <3>2. Visit(w) = [w EXCEPT !.path = Front(@)]
      BY <2>2, <1>6 DEF Visit
    <3> QED BY <3>1, <3>2, <2>1, <1>2, <1>6, ReturnStep
  <2>3. CASE open # {}
    <3> DEFINE d == Min(open)
    <3>1. d \in open
      <4>1. open \subseteq Pending
        OBVIOUS
      <4> HIDE DEF open
      <4> QED BY <4>1, <2>3, MinIsElement
    <3>2. Visit(w) = IF d \in w.visited THEN [w EXCEPT !.cycle = TRUE] ELSE Enter(w, d)
      BY <2>3, <1>6 DEF Visit
    <3>3. d \in deps[Last(w.path)] /\ d \in Pending /\ (d \in w.visited => d \in Stack(w))
      BY <3>1
    <3> HIDE DEF d
    <3>4. CASE d \notin w.visited
      BY <3>2, <3>3, <3>4, <2>1, <1>2, <1>6, EnterStep
    <3>5. CASE d \in w.visited
      <4> DEFINE e == [w EXCEPT !.cycle = TRUE]
      <4>1. \E S \in SUBSET Pending : S # {} /\ Round(S)
        BY <3>3, <3>5, <1>6, CycleStep
      <4>2. e \in Walks /\ e.cycle /\ e.path = w.path /\ e.visited = w.visited
        BY <1>1 DEF Walks
      <4> HIDE DEF e
      <4>3. Returned(e) = Returned(w) /\ Stack(e) = Stack(w)
        BY <4>2 DEF Returned, Stack
      <4>4. WalkInv(e)
        BY <4>1, <4>2, <4>3 DEF WalkInv
      <4> QED BY <3>2, <3>5, <4>2, <4>4, <2>1, <1>2 DEF e
    <3> QED BY <3>4, <3>5
  <2> QED BY <2>2, <2>3
<1> QED BY <1>3, <1>4, <1>5, <1>6

LEMMA WalkSteps ==
  ASSUME OrderType
  PROVE  /\ Walk[0] = [visited |-> {}, path |-> << >>, cycle |-> FALSE]
         /\ \A i \in Nat : Walk[i + 1] = Visit(Walk[i])
         /\ \A i \in Nat : WalkInv(Walk[i])
<1> DEFINE S == {w \in Walks : WalkInv(w)}
           first == [visited |-> {}, path |-> << >>, cycle |-> FALSE]
           step == [n \in Nat |-> [w \in S |-> Visit(w)]]
           G(g) == [i \in Nat |-> IF i = 0 THEN first ELSE Visit(g[i - 1])]
<1>1. WalkInv(first)
  <2>1. first \in Walks /\ Len(first.path) = 0 /\ ~first.cycle
    BY DEF Walks
  <2>2. Stack(first) = {} /\ Returned(first) = {}
    <3>1. \A x : x \notin ToSet(<< >>)
      BY DEF ToSet
    <3> QED BY <3>1 DEF Stack, Returned
  <2> QED BY <2>1, <2>2 DEF WalkInv
<1>2. first \in S /\ step \in [Nat -> [S -> S]]
  <2>1. first \in S
    BY <1>1 DEF WalkInv
  <2>2. \A w \in S : Visit(w) \in S
    BY VisitStep DEF WalkInv
  <2> QED BY <2>1, <2>2
<1> HIDE DEF first
<1>3. PICK f : Recurs(f, S, first, step)
  <2> HIDE DEF S, step
  <2> QED BY <1>2, Recursion
<1>4. f \in [Nat -> S] /\ f[0] = first
  BY <1>3 DEF Recurs
<1>5. ASSUME NEW n \in Nat PROVE f[n + 1] = Visit(f[n])
  <2>1. f[n + 1] = step[n + 1][f[n]] /\ f[n] \in S /\ n + 1 \in Nat
    <3> HIDE DEF step, S
    <3> QED BY <1>3 DEF Recurs
  <2> HIDE DEF S
  <2> QED BY <2>1
<1>6. ASSUME NEW i \in Nat, i # 0 PROVE f[i] = Visit(f[i - 1])
  <2>1. i - 1 \in Nat /\ (i - 1) + 1 = i
    BY <1>6
  <2> QED BY <1>5, <2>1
<1>7. f = G(f)
  <2> HIDE DEF S
  <2> QED BY <1>4, <1>6
<1>8. Walk = G(Walk)
  <2>1. Walk = CHOOSE g : g = G(g)
    BY DEF Walk, first
  <2> HIDE DEF G
  <2> QED BY <1>7, <2>1
<1>9. Walk[0] = first /\ \A i \in Nat : Walk[i + 1] = Visit(Walk[i])
  <2>1. \A i \in Nat : i + 1 \in Nat /\ i + 1 # 0 /\ (i + 1) - 1 = i
    OBVIOUS
  <2> QED BY <1>8, <2>1
<1> DEFINE T == {i \in Nat : WalkInv(Walk[i])}
<1>10. 0 \in T
  BY <1>1, <1>9 DEF first
<1>11. ASSUME NEW n \in Nat, n \in T PROVE n + 1 \in T
  <2>1. WalkInv(Visit(Walk[n]))
    BY <1>11, VisitStep
  <2>2. WalkInv(Walk[n + 1])
    BY <1>9, <2>1
  <2> QED BY <2>2
<1>12. \A i \in Nat : i \in T
  <2> HIDE DEF T
  <2> QED BY <1>10, <1>11, Induction
<1> QED BY <1>9, <1>12 DEF first

(* After a call and a return for each file nothing is left of the walk.    *)
LEMMA WalkEnds ==
  ASSUME OrderType
  PROVE  LET w == Walk[2 * Cardinality(Pending)]
         IN  WalkInv(w) /\ (w.cycle \/ Left(w) = 0)
<1> DEFINE m == 2 * Cardinality(Pending)
           Run(n) == Walk[n].cycle \/ Left(Walk[n]) = 0 \/ Left(Walk[n]) = m - n
           T == {n \in Nat : Run(n)}
<1>1. m \in Nat
  BY PendingIsFinite
<1>2. 0 \in T
  <2>1. Pending \ Walk[0].visited = Pending /\ Len(Walk[0].path) = 0
    BY WalkSteps
  <2>2. Left(Walk[0]) = m + 0
    BY <2>1 DEF Left
  <2> QED BY <2>2, <1>1
<1> HIDE DEF m
<1>3. ASSUME NEW n \in Nat, n \in T PROVE n + 1 \in T
  <2> DEFINE w == Walk[n]
             e == Walk[n + 1]
  <2>1. WalkInv(w) /\ e = Visit(w)
    BY WalkSteps
  <2>2. /\ Left(w) \in Nat /\ (e.cycle \/ Left(w) = 0 \/ Left(e) = Left(w) - 1)
        /\ Left(w) = 0 => e = w
    BY <2>1, VisitStep
  <2>3. w.cycle => e.cycle
    BY <2>1 DEF Visit
  <2>4. w.cycle \/ Left(w) = 0 \/ Left(w) = m - n
    BY <1>3
  <2> HIDE DEF w, e
  <2>5. e.cycle \/ Left(e) = 0 \/ Left(e) = m - (n + 1)
    <3>1. CASE w.cycle
      BY <2>3, <3>1
    <3>2. CASE Left(w) = 0
      BY <2>2, <3>2
    <3>3. CASE Left(w) = m - n /\ Left(w) # 0
      <4>1. e.cycle \/ Left(e) = Left(w) - 1
        BY <2>2, <3>3
      <4>2. (m - n) - 1 = m - (n + 1)
        BY <1>1
      <4> QED BY <4>1, <4>2, <3>3
    <3> QED BY <2>4, <3>1, <3>2, <3>3
  <2> QED BY <2>5 DEF e
<1>4. \A n \in Nat : n \in T
  <2> HIDE DEF T
  <2> QED BY <1>2, <1>3, Induction
<1>5. Run(m)
  BY <1>1, <1>4
<1>6. m - m = 0
  BY <1>1
<1>7. WalkInv(Walk[m])
  BY <1>1, WalkSteps
<1> QED BY <1>5, <1>6, <1>7 DEF m

LEMMA CircularMeansRound ==
  OrderType => (Circular <=> \E S \in (SUBSET Pending) \ {{}} : Round(S))
<1> SUFFICES ASSUME OrderType
             PROVE  Circular <=> \E S \in (SUBSET Pending) \ {{}} : Round(S)
  OBVIOUS
<1> DEFINE w == Walk[2 * Cardinality(Pending)]
<1>1. WalkInv(w) /\ (w.cycle \/ Left(w) = 0) /\ (Circular <=> w.cycle)
  BY WalkEnds DEF Circular
<1> HIDE DEF w
<1>2. w.cycle => \E S \in (SUBSET Pending) \ {{}} : Round(S)
  BY <1>1 DEF WalkInv
<1>3. ASSUME ~w.cycle, NEW S \in (SUBSET Pending) \ {{}}, Round(S) PROVE FALSE
  <2>1. Left(w) = 0 /\ w \in Walks
    BY <1>1, <1>3 DEF WalkInv
  <2>2. Pending \subseteq w.visited /\ w.path = << >>
    <3> DEFINE U == Pending \ w.visited
               c == Cardinality(U)
               n == Len(w.path)
    <3>1. U \in SUBSET Pending
      OBVIOUS
    <3>2. IsFiniteSet(U)
      BY <3>1, PendingIsFinite, FS_Subset
    <3>3. c \in Nat /\ (c = 0 => U = {})
      BY <3>2, FS_CardinalityType, FS_EmptySet
    <3>4. n \in Nat /\ (n = 0 => w.path = << >>)
      BY <2>1, EmptySeq DEF Walks
    <3>5. 0 = 2 * c + n
      BY <2>1 DEF Left
    <3> HIDE DEF c, n, U
    <3>6. c = 0 /\ n = 0
      BY <3>3, <3>4, <3>5
    <3> QED BY <3>3, <3>4, <3>6 DEF U
  <2>3. Returned(w) = w.visited
    <3>1. \A x : x \notin ToSet(<< >>)
      BY DEF ToSet
    <3> QED BY <3>1, <2>2 DEF Returned, Stack
  <2> QED BY <1>1, <1>3, <2>2, <2>3 DEF WalkInv
<1> QED BY <1>1, <1>2, <1>3

LEMMA Validation == OrderType => ValidationAgrees
<1> SUFFICES ASSUME OrderType PROVE ValidationAgrees
  OBVIOUS
<1>1. Circular <=> \E S \in (SUBSET Pending) \ {{}} : Round(S)
  BY CircularMeansRound
<1>2. ASSUME ~MissingTarget, ~Circular PROVE Resolves
  <2> SUFFICES ASSUME ~Resolves PROVE FALSE
    OBVIOUS
  <2>1. PICK S \in (SUBSET Pending) \ {{}} :
          \A v \in S : ~(deps[v] \subseteq applied \cup (Pending \ S))
    BY Resolution DEF ResolvesIfPossible
  <2>2. ASSUME NEW v \in S PROVE deps[v] \cap S # {}
    <3>1. PICK d \in deps[v] : d \notin applied /\ d \notin Pending \ S
      BY <2>1
    <3>2. d \in present
      BY <1>2, <2>1 DEF MissingTarget, Pending
    <3> QED BY <3>1, <3>2 DEF Pending
  <2> QED BY <1>1, <1>2, <2>2 DEF Round
<1> QED BY <1>1, <1>2 DEF ValidationAgrees, Round

(***************************************************************************)
(* The runs.                                                               *)
(***************************************************************************)
(* --to-version, --count and the ceiling each cut off an end: what is      *)
(* chosen has every candidate that is earlier.                             *)
LEMMA LimitedIsPrefix ==
  ASSUME NEW S, S \subseteq Versions, NEW o \in Options
  PROVE  /\ Limited(S, o) \subseteq S
         /\ \A v \in Limited(S, o), w \in S : w < v => w \in Limited(S, o)
<1> DEFINE upTo == {v \in S : v <= o.to}
           first == {v \in upTo : Cardinality({w \in upTo : w < v}) < o.count}
<1>1. Limited(S, o) = SeverityPrefix(first, o.ceiling)
  BY DEF Limited
<1>2. Limited(S, o) \subseteq first /\ first \subseteq upTo /\ upTo \subseteq S
  BY <1>1 DEF SeverityPrefix
<1>3. S \subseteq Nat /\ o.to \in Nat /\ o.count \in Nat
  BY OrderAssumption DEF Options, Versions
<1>4. ASSUME NEW v \in Limited(S, o), NEW w \in S, w < v PROVE w \in Limited(S, o)
  <2>1. v \in first /\ v \in S /\ w \in Nat /\ v \in Nat
    BY <1>2, <1>3
  <2>2. w \in upTo
    BY <2>1, <1>3, <1>4
  <2> DEFINE A == {x \in upTo : x < w}
             B == {x \in upTo : x < v}
  <2>3. A \in SUBSET B
    <3>1. \A x \in upTo : x \in Nat
      BY <1>3
    <3>2. \A x \in Nat : x < w => x < v
      BY <2>1, <1>4
    <3> HIDE DEF upTo
    <3> QED BY <3>1, <3>2
  <2>4. IsFiniteSet(B)
    <3>1. B \in SUBSET Versions
      OBVIOUS
    <3> HIDE DEF B
    <3> QED BY <3>1, VersionsAreFinite, FS_Subset
  <2>5. Cardinality(A) <= Cardinality(B) /\ Cardinality(A) \in Nat /\ Cardinality(B) \in Nat
    <3> HIDE DEF A, B
    <3> QED BY <2>3, <2>4, FS_Subset, FS_CardinalityType
  <2>6. Cardinality(B) < o.count
    BY <2>1
  <2>7. Cardinality(A) < o.count
    <3> HIDE DEF A, B
    <3> QED BY <2>5, <2>6, <1>3
  <2>8. w \in first
    BY <2>2, <2>7
  <2>9. \A x \in first : x <= w => x <= v
    BY <2>1, <1>2, <1>3, <1>4
  <2> HIDE DEF first, upTo, A, B
  <2> QED BY <2>8, <2>9, <1>1, <1>4 DEF SeverityPrefix
<1> QED BY <1>2, <1>4

(* The batch is complete: what a file needs is applied or in it as well.   *)
Complete ==
  Numbered =>
    /\ \A v \in applied : deps[v] \subseteq applied
    /\ \A v \in batch : deps[v] \subseteq applied \cup batch

OrderInv == OrderType /\ Complete

LEMMA OrderInvInit == Init => OrderInv
BY OrderAssumption DEF Init, OrderInv, OrderType, Complete, Pending

LEMMA SelectStep ==
  ASSUME OrderInv, Select(Options)
  PROVE  OrderInv'
<1>1. OrderType /\ Complete
  BY DEF OrderInv
<1>2. UNCHANGED <<deps, present, superseded, applied>>
  BY DEF Select, files
<1>3. UNCHANGED <<batch, running>> \/
      (running' = TRUE /\ \E o \in Options : batch' = Limited(Candidates, o))
  BY DEF Select
<1>4. CASE UNCHANGED <<batch, running>>
  BY <1>1, <1>2, <1>4 DEF OrderInv, OrderType, Complete, Numbered, Pending
<1>5. ASSUME running' = TRUE, NEW o \in Options, batch' = Limited(Candidates, o)
      PROVE  OrderInv'
  <2> DEFINE R == ToSet(Resolved)
  <2>1. R \subseteq Pending /\ Pending \subseteq Versions
    BY <1>1, ResolvedIsClosed, PendingIsFinite
  <2>2. ASSUME NEW v \in R PROVE deps[v] \subseteq applied \cup R
    <3>1. Resolved \in Seq(Pending) /\ Ordered(Resolved)
      BY <1>1, ResolvedIsClosed DEF Ordered
    <3>2. PICK i \in 1 .. Len(Resolved) : Resolved[i] = v
      BY <3>1, ElementsOfSeq
    <3>3. deps[v] \subseteq applied \cup {Resolved[j] : j \in 1 .. (i - 1)}
      BY <3>1, <3>2 DEF Ordered
    <3>4. \A j \in 1 .. (i - 1) : Resolved[j] \in R
      BY <3>1, <3>2, ElementsOfSeq
    <3> QED BY <3>3, <3>4
  <2>3. /\ Candidates \subseteq Versions /\ Candidates = R \ superseded
        /\ batch' \subseteq Candidates
        /\ \A v \in batch', w \in Candidates : w < v => w \in batch'
    <3>1. Candidates \subseteq Versions /\ Candidates = R \ superseded
      BY <2>1 DEF Candidates
    <3> QED BY <3>1, <1>5, LimitedIsPrefix
  <2> HIDE DEF R
  <2>4. OrderType'
    BY <1>1, <1>2, <1>5, <2>1, <2>3 DEF OrderType, Pending
  <2>5. ASSUME Numbered, NEW v \in batch', NEW d \in deps[v]
        PROVE  d \in applied \cup batch'
    <3>1. v \in R /\ v \in present
      BY <2>1, <2>3 DEF Pending
    <3>2. d < v /\ d \notin superseded
      BY <2>5, <3>1 DEF Numbered
    <3> QED BY <2>2, <2>3, <3>1, <3>2
  <2>6. Complete'
    BY <1>1, <1>2, <2>5 DEF Complete, Numbered
  <2> QED BY <2>4, <2>6 DEF OrderInv
<1> QED BY <1>3, <1>4, <1>5

LEMMA ApplyStep ==
  ASSUME OrderInv, ApplyNext
  PROVE  OrderInv'
<1> DEFINE m == Min(batch)
<1>1. OrderType /\ Complete
  BY DEF OrderInv
<1>2. /\ applied' = applied \cup {m} /\ batch' = batch \ {m} /\ batch # {}
      /\ UNCHANGED <<deps, present, superseded, running>>
  BY DEF ApplyNext, files
<1>3. batch \subseteq Nat /\ batch \subseteq present
  BY <1>1, OrderAssumption DEF OrderType, Pending, Versions
<1>4. \E x \in batch : \A y \in batch : x <= y
  BY <1>2, <1>3, Minimum
<1>5. m \in batch /\ \A y \in batch : m <= y
  BY <1>4 DEF Min
<1> HIDE DEF m
<1>6. OrderType'
  BY <1>1, <1>2, <1>3, <1>5 DEF OrderType, Pending
<1>7. ASSUME Numbered PROVE deps[m] \subseteq applied
  <2>1. \A d \in deps[m] : d < m
    BY <1>3, <1>5, <1>7 DEF Numbered
  <2>2. \A d \in batch : ~(d < m)
    BY <1>3, <1>5
  <2> QED BY <1>1, <1>5, <1>7, <2>1, <2>2 DEF Complete
<1>8. Complete'
  BY <1>1, <1>2, <1>7 DEF Complete, Numbered
<1> QED BY <1>6, <1>8 DEF OrderInv

(* A file that arrives or is superseded can only make the numbering wrong. *)
LEMMA FilesStep ==
  ASSUME OrderInv, NEW v \in Versions, AddFile(v) \/ Supersede(v)
  PROVE  OrderInv'
<1>1. /\ UNCHANGED <<deps, applied, batch, running>>
      /\ present \subseteq present' /\ superseded \subseteq superseded'
      /\ present' \subseteq Versions /\ superseded' \subseteq present'
  BY OrderAssumption DEF AddFile, Supersede, OrderInv, OrderType
<1>2. OrderType'
  BY <1>1 DEF OrderInv, OrderType, Pending
<1>3. Numbered' => Numbered
  BY <1>1 DEF Numbered
<1> QED BY <1>1, <1>2, <1>3 DEF OrderInv, Complete

LEMMA OrderInvNext == OrderInv /\ [Next]_vars => OrderInv'
<1> SUFFICES ASSUME OrderInv, [Next]_vars PROVE OrderInv'
  OBVIOUS
<1>1. CASE Select(Options)
  BY <1>1, SelectStep
<1>2. CASE ApplyNext
  BY <1>2, ApplyStep
<1>3. CASE EndRun
  BY <1>3 DEF EndRun, files, OrderInv, OrderType, Complete, Numbered, Pending
<1>4. CASE \E v \in Versions : AddFile(v) \/ Supersede(v)
  BY <1>4, FilesStep
<1>5. CASE UNCHANGED vars
  BY <1>5 DEF vars, files, OrderInv, OrderType, Complete, Numbered, Pending
<1> QED BY <1>1, <1>2, <1>3, <1>4, <1>5 DEF Next

LEMMA OrderInvAlways == Spec => []OrderInv
BY OrderInvInit, OrderInvNext, PTL DEF Spec

LEMMA NotBlocked == OrderInv => NeverBlocked
<1> SUFFICES ASSUME OrderInv, Numbered, ~MissingTarget PROVE Resolves /\ ~PreflightAborts
  BY DEF NeverBlocked
<1>1. OrderType /\ Complete
  BY DEF OrderInv
<1>2. ~UnmetApplied
  BY <1>1 DEF Complete, UnmetApplied
<1>3. ~Circular
  <2> SUFFICES ASSUME NEW S \in (SUBSET Pending) \ {{}}, Round(S) PROVE FALSE
    BY <1>1, CircularMeansRound
  <2>1. S \subseteq Nat /\ S # {} /\ S \subseteq present
    BY <1>1, OrderAssumption, PendingIsFinite DEF Versions, Pending
  <2>2. PICK v \in S : \A w \in S : v <= w
    BY <2>1, Minimum
  <2>3. PICK d \in deps[v] : d \in S
    BY DEF Round
  <2>4. d < v
    BY <2>1 DEF Numbered
  <2>5. d \in Nat /\ v \in Nat /\ v <= d
    BY <2>1, <2>2, <2>3
  <2> QED BY <2>4, <2>5
<1>4. Resolves
  BY <1>1, <1>3, Validation DEF ValidationAgrees
<1> QED BY <1>2, <1>3, <1>4 DEF PreflightAborts

(***************************************************************************)
(* Theorems.                                                               *)
(***************************************************************************)

(* resolve_migration_order: within its 2 * len(pending) passes it orders   *)
(* the pending files whenever they can be ordered.                         *)
THEOREM ResolutionComplete == Spec => []ResolvesIfPossible
<1>1. OrderInv => ResolvesIfPossible
  BY Resolution DEF OrderInv
<1> QED BY <1>1, OrderInvAlways, PTL

(* _detect_cycle: the search reports a circle exactly if there is one, and *)
(* what validate_dependencies lets through can be resolved.                *)
THEOREM ValidationExact == Spec => []ValidationAgrees
<1>1. OrderInv => ValidationAgrees
  BY Validation DEF OrderInv
<1> QED BY <1>1, OrderInvAlways, PTL

(* The runs, with any options and stopped anywhere, apply no version       *)
(* before those it depends on.                                             *)
THEOREM DependenciesFirst == Spec => []DependenciesApplied
<1>1. OrderInv => DependenciesApplied
  BY DEF OrderInv, Complete, DependenciesApplied
<1> QED BY <1>1, OrderInvAlways, PTL

(* No sequence of partial runs leaves a history that the next run refuses. *)
THEOREM NextRunAccepted == Spec => []NeverBlocked
<1>1. OrderInv => NeverBlocked
  BY NotBlocked
<1> QED BY <1>1, OrderInvAlways, PTL

(***************************************************************************)
(* The chain of generated files.                                           *)
(***************************************************************************)

(***************************************************************************)
(* Replaying a directory, and composing its plans, step by step.           *)
(***************************************************************************)
File ==
  [add : Schemas, drop : Schemas, role : {"unsplit", "base", "deferred"},
   base : Schemas, target : Schemas, planned : BOOLEAN]
Stage == [state : Schemas, ok : BOOLEAN]
Played(f, directory, state, versions) ==
  /\ f \in [Nat -> Stage]
  /\ f[0] = [state |-> state, ok |-> TRUE]
  /\ \A n \in Nat :
       f[n + 1] = IF n + 1 \notin versions THEN f[n]
                  ELSE [state |-> Executed(f[n].state, directory[n + 1]),
                        ok |-> f[n].ok /\ Executable(directory[n + 1], f[n].state)]

LEMMA ReplaySteps ==
  ASSUME NEW directory, NEW state \in Schemas, NEW versions,
         versions \subseteq Numbers, \A v \in versions : directory[v] \in File
  PROVE  \E f : /\ Played(f, directory, state, versions)
                /\ Replay(directory, state, versions) = f[MaxVersion]
<1> DEFINE S == Stage
           a == [state |-> state, ok |-> TRUE]
           play(x, n) == IF n \notin versions THEN x
                         ELSE [state |-> Executed(x.state, directory[n]),
                               ok |-> x.ok /\ Executable(directory[n], x.state)]
           step == [n \in Nat |-> [x \in S |-> play(x, n)]]
           G(g) == [v \in 0 .. MaxVersion |-> IF v = 0 THEN a ELSE play(g[v - 1], v)]
<1>1. \A x \in S, n \in Nat : play(x, n) \in S
  BY DEF Stage, File, Executed, Executable, Schemas
<1>2. step \in [Nat -> [S -> S]] /\ a \in S
  <2>1. a \in S
    BY DEF Stage
  <2> HIDE DEF S, play, a
  <2> QED BY <1>1, <2>1
<1>3. PICK f : Recurs(f, S, a, step)
  <2> HIDE DEF S, step, a
  <2> QED BY <1>2, Recursion
<1>4. f \in [Nat -> S] /\ f[0] = a
  BY <1>3 DEF Recurs
<1>5. ASSUME NEW n \in Nat PROVE f[n + 1] = play(f[n], n + 1)
  <2>1. f[n + 1] = step[n + 1][f[n]] /\ f[n] \in S /\ n + 1 \in Nat
    <3> HIDE DEF step, S
    <3> QED BY <1>3 DEF Recurs
  <2> HIDE DEF play, S
  <2> QED BY <2>1
<1>6. Played(f, directory, state, versions)
  BY <1>4, <1>5 DEF Played
<1> DEFINE U == CHOOSE g : g = G(g)
<1>7. Replay(directory, state, versions) = U[MaxVersion]
  BY DEF Replay
<1>8. U = G(U)
  <2> DEFINE h == [v \in 0 .. MaxVersion |-> f[v]]
  <2>1. ASSUME NEW v \in 0 .. MaxVersion PROVE h[v] = G(h)[v]
    <3>1. CASE v = 0
      BY <1>4, <3>1
    <3>2. CASE v # 0
      <4>1. v - 1 \in Nat /\ (v - 1) + 1 = v /\ v - 1 \in 0 .. MaxVersion
        BY <3>2, BoundsAssumption
      <4>2. f[v] = play(f[v - 1], v)
        BY <1>5, <4>1
      <4>3. h[v] = f[v] /\ h[v - 1] = f[v - 1]
        BY <4>1
      <4> HIDE DEF play, h
      <4> QED BY <3>2, <4>2, <4>3
    <3> QED BY <3>1, <3>2
  <2>2. h = G(h)
    BY <2>1
  <2> HIDE DEF h, G
  <2> QED BY <2>2
<1> DEFINE T == {n \in Nat : n <= MaxVersion => U[n] = f[n]}
<1> HIDE DEF U, play
<1>9. 0 \in T
  <2>1. MaxVersion \in Nat
    BY BoundsAssumption
  <2> QED BY <1>4, <1>8, <2>1
<1>10. ASSUME NEW n \in Nat, n \in T PROVE n + 1 \in T
  <2> SUFFICES ASSUME n + 1 <= MaxVersion PROVE U[n + 1] = f[n + 1]
    OBVIOUS
  <2>1. n + 1 \in 0 .. MaxVersion /\ n + 1 # 0 /\ (n + 1) - 1 = n
    BY BoundsAssumption
  <2>2. U[n + 1] = play(U[n], n + 1)
    BY <1>8, <2>1
  <2>3. U[n] = f[n]
    BY <1>10, BoundsAssumption
  <2> QED BY <1>5, <2>2, <2>3
<1>11. \A n \in Nat : n \in T
  <2> HIDE DEF T
  <2> QED BY <1>9, <1>10, Induction
<1>12. U[MaxVersion] = f[MaxVersion]
  BY <1>11, BoundsAssumption
<1> QED BY <1>6, <1>7, <1>12

LEMMA ReplayNone ==
  ASSUME NEW directory, NEW state \in Schemas
  PROVE  Replay(directory, state, {}) = [state |-> state, ok |-> TRUE]
<1>1. PICK f : /\ Played(f, directory, state, {})
               /\ Replay(directory, state, {}) = f[MaxVersion]
  BY ReplaySteps
<1> DEFINE T == {n \in Nat : f[n] = f[0]}
<1>2. 0 \in T
  OBVIOUS
<1>3. ASSUME NEW n \in Nat, n \in T PROVE n + 1 \in T
  <2>1. f[n + 1] = f[n]
    BY <1>1 DEF Played
  <2> QED BY <1>3, <2>1
<1>4. \A n \in Nat : n \in T
  <2> HIDE DEF T
  <2> QED BY <1>2, <1>3, Induction
<1> QED BY <1>1, <1>4, BoundsAssumption DEF Played

LEMMA ReplayOne ==
  ASSUME NEW directory, NEW state \in Schemas, NEW v \in Numbers, directory[v] \in File
  PROVE  Replay(directory, state, {v}) =
           [state |-> Executed(state, directory[v]), ok |-> Executable(directory[v], state)]
<1>1. PICK f : /\ Played(f, directory, state, {v})
               /\ Replay(directory, state, {v}) = f[MaxVersion]
  BY ReplaySteps
<1> DEFINE last == [state |-> Executed(state, directory[v]),
                    ok |-> Executable(directory[v], state)]
           T == {n \in Nat : f[n] = IF n < v THEN [state |-> state, ok |-> TRUE] ELSE last}
<1>2. v \in Nat /\ 0 < v /\ v <= MaxVersion /\ MaxVersion \in Nat
  BY BoundsAssumption DEF Numbers
<1>3. 0 \in T
  BY <1>1, <1>2 DEF Played
<1>4. ASSUME NEW n \in Nat, n \in T PROVE n + 1 \in T
  <2>1. CASE n + 1 = v
    <3>1. f[n] = [state |-> state, ok |-> TRUE] /\ ~(n + 1 < v)
      BY <1>4, <2>1
    <3>2. f[n + 1] = [state |-> Executed(f[n].state, directory[n + 1]),
                      ok |-> f[n].ok /\ Executable(directory[n + 1], f[n].state)]
      BY <1>1, <2>1 DEF Played
    <3>3. f[n].state = state /\ f[n].ok = TRUE
      BY <3>1
    <3>4. f[n + 1] = [state |-> Executed(state, directory[v]),
                      ok |-> TRUE /\ Executable(directory[v], state)]
      BY <2>1, <3>2, <3>3
    <3>5. (TRUE /\ Executable(directory[v], state)) = Executable(directory[v], state)
      BY DEF Executable
    <3>6. f[n + 1] = last
      BY <3>4, <3>5
    <3> HIDE DEF last
    <3> QED BY <3>1, <3>6
  <2>2. CASE n + 1 # v
    <3>1. f[n + 1] = f[n]
      BY <1>1, <2>2 DEF Played
    <3>2. n < v <=> n + 1 < v
      BY <1>2, <2>2
    <3> HIDE DEF last
    <3> QED BY <1>4, <3>1, <3>2
  <2> QED BY <2>1, <2>2
<1>5. \A n \in Nat : n \in T
  <2> HIDE DEF T
  <2> QED BY <1>3, <1>4, Induction
<1>6. ~(MaxVersion < v)
  BY <1>2
<1> HIDE DEF last
<1>7. f[MaxVersion] = last
  BY <1>2, <1>5, <1>6
<1> QED BY <1>1, <1>7 DEF last

(* A replay looks at the versions it takes and at nothing else.            *)
LEMMA ReplayAgrees ==
  ASSUME NEW d, NEW e, NEW state \in Schemas, NEW versions, versions \subseteq Numbers,
         \A v \in versions : d[v] \in File /\ e[v] = d[v]
  PROVE  Replay(e, state, versions) = Replay(d, state, versions)
<1>1. PICK f : Played(f, d, state, versions) /\ Replay(d, state, versions) = f[MaxVersion]
  BY ReplaySteps
<1>2. PICK g : Played(g, e, state, versions) /\ Replay(e, state, versions) = g[MaxVersion]
  BY ReplaySteps
<1> DEFINE T == {n \in Nat : g[n] = f[n]}
<1>3. 0 \in T
  BY <1>1, <1>2 DEF Played
<1>4. ASSUME NEW n \in Nat, n \in T PROVE n + 1 \in T
  <2>1. CASE n + 1 \notin versions
    <3>1. f[n + 1] = f[n] /\ g[n + 1] = g[n]
      BY <1>1, <1>2, <2>1 DEF Played
    <3> QED BY <1>4, <3>1
  <2>2. CASE n + 1 \in versions
    <3>1. f[n + 1] = [state |-> Executed(f[n].state, d[n + 1]),
                      ok |-> f[n].ok /\ Executable(d[n + 1], f[n].state)]
      BY <1>1, <2>2 DEF Played
    <3>2. g[n + 1] = [state |-> Executed(g[n].state, e[n + 1]),
                      ok |-> g[n].ok /\ Executable(e[n + 1], g[n].state)]
      BY <1>2, <2>2 DEF Played
    <3>3. e[n + 1] = d[n + 1] /\ g[n] = f[n]
      BY <1>4, <2>2
    <3> QED BY <3>1, <3>2, <3>3
  <2> QED BY <2>1, <2>2
<1>5. \A n \in Nat : n \in T
  <2> HIDE DEF T
  <2> QED BY <1>3, <1>4, Induction
<1> QED BY <1>1, <1>2, <1>5, BoundsAssumption

LEMMA ReplayType ==
  ASSUME NEW directory, NEW state \in Schemas, NEW versions,
         versions \subseteq Numbers, \A v \in versions : directory[v] \in File
  PROVE  Replay(directory, state, versions) \in Stage
<1>1. PICK f : /\ Played(f, directory, state, versions)
               /\ Replay(directory, state, versions) = f[MaxVersion]
  BY ReplaySteps
<1> QED BY <1>1, BoundsAssumption DEF Played

Sound(file) == Executable(file, file.base) /\ file.target = Executed(file.base, file)
Files(directory, versions) ==
  versions \subseteq Numbers /\ \A v \in versions : directory[v] \in File /\ Sound(directory[v])
Below(A, B) == \A v \in A, w \in B : v < w

(* A replay can be cut anywhere: what comes first is the start of the rest.*)
LEMMA ReplaySplit ==
  ASSUME NEW directory, NEW state \in Schemas, NEW A, NEW B,
         Files(directory, A), Files(directory, B), Below(A, B),
         NEW x, x = Replay(directory, state, A), NEW y, y = Replay(directory, x.state, B)
  PROVE  Replay(directory, state, A \cup B) = [state |-> y.state, ok |-> x.ok /\ y.ok]
<1>0. /\ A \subseteq Numbers /\ B \subseteq Numbers
      /\ \A v \in A \cup B : directory[v] \in File
      /\ \A v \in A, w \in B : v < w
  BY DEF Files, Below
<1>1. PICK f : Played(f, directory, state, A) /\ x = f[MaxVersion]
  BY <1>0, ReplaySteps
<1>2. x \in Stage /\ x.state \in Schemas
  BY <1>0, ReplayType DEF Stage
<1>3. PICK g : Played(g, directory, x.state, B) /\ y = g[MaxVersion]
  BY <1>0, <1>2, ReplaySteps
<1>4. PICK h : /\ Played(h, directory, state, A \cup B)
               /\ Replay(directory, state, A \cup B) = h[MaxVersion]
  <2>1. A \cup B \subseteq Numbers
    BY <1>0
  <2> QED BY <1>0, <2>1, ReplaySteps
<1>5. MaxVersion \in Nat /\ \A v \in A \cup B : v \in Nat /\ 0 < v /\ v <= MaxVersion
  BY <1>0, BoundsAssumption DEF Numbers
<1>6. PICK c \in 0 .. MaxVersion : (\A v \in A : v <= c) /\ (\A v \in B : c < v)
  <2>1. CASE B = {}
    BY <1>5, <2>1
  <2>2. CASE B # {}
    <3>1. B \subseteq Nat
      BY <1>5
    <3>2. PICK w \in B : \A v \in B : w <= v
      BY <2>2, <3>1, Minimum
    <3>3. w - 1 \in 0 .. MaxVersion
      BY <1>5, <3>2
    <3>4. \A v \in A : v <= w - 1
      BY <1>0, <1>5, <3>2
    <3>5. \A v \in B : w - 1 < v
      BY <1>5, <3>2
    <3> QED BY <3>3, <3>4, <3>5
  <2> QED BY <2>1, <2>2
<1>7. c \in Nat /\ c <= MaxVersion
  BY <1>5, <1>6
<1>8. \A n \in Nat : n < c => n + 1 \notin B /\ (n + 1 \in A \cup B <=> n + 1 \in A)
  BY <1>5, <1>6, <1>7
<1>9. \A n \in Nat : n >= c => n + 1 \notin A /\ (n + 1 \in A \cup B <=> n + 1 \in B)
  BY <1>5, <1>6, <1>7
<1> DEFINE start == [state |-> x.state, ok |-> TRUE]
           T == {n \in Nat : n <= c => h[n] = f[n] /\ g[n] = start}
           U == {n \in Nat : n >= c => f[n] = f[c]}
           V == {n \in Nat : n >= c => h[n] = [state |-> g[n].state, ok |-> x.ok /\ g[n].ok]}
<1>10. \A n \in Nat : n \in T
  <2>1. 0 \in T
    BY <1>1, <1>3, <1>4 DEF Played
  <2>2. ASSUME NEW n \in Nat, n \in T PROVE n + 1 \in T
    <3> SUFFICES ASSUME n + 1 <= c PROVE h[n + 1] = f[n + 1] /\ g[n + 1] = start
      OBVIOUS
    <3>1. n < c /\ h[n] = f[n] /\ g[n] = start
      BY <1>7, <2>2
    <3>2. n + 1 \notin B /\ (n + 1 \in A \cup B <=> n + 1 \in A)
      BY <1>8, <3>1
    <3>3. g[n + 1] = g[n]
      BY <1>3, <3>2 DEF Played
    <3>4. CASE n + 1 \in A
      <4>1. f[n + 1] = [state |-> Executed(f[n].state, directory[n + 1]),
                        ok |-> f[n].ok /\ Executable(directory[n + 1], f[n].state)]
        BY <1>1, <3>4 DEF Played
      <4>2. h[n + 1] = [state |-> Executed(h[n].state, directory[n + 1]),
                        ok |-> h[n].ok /\ Executable(directory[n + 1], h[n].state)]
        BY <1>4, <3>4 DEF Played
      <4> QED BY <3>1, <3>3, <4>1, <4>2
    <3>5. CASE n + 1 \notin A
      <4>1. f[n + 1] = f[n] /\ h[n + 1] = h[n]
        BY <1>1, <1>4, <3>2, <3>5 DEF Played
      <4> QED BY <3>1, <3>3, <4>1
    <3> QED BY <3>4, <3>5
  <2> HIDE DEF T
  <2> QED BY <2>1, <2>2, Induction
<1>11. \A n \in Nat : n \in U
  <2>1. 0 \in U
    BY <1>7
  <2>2. ASSUME NEW n \in Nat, n \in U PROVE n + 1 \in U
    <3>1. CASE n >= c
      <4>1. f[n + 1] = f[n]
        BY <1>1, <1>9, <3>1 DEF Played
      <4> QED BY <2>2, <3>1, <4>1
    <3>2. CASE ~(n >= c)
      <4>1. n + 1 >= c => n + 1 = c
        BY <1>7, <3>2
      <4> QED BY <4>1
    <3> QED BY <3>1, <3>2
  <2> HIDE DEF U
  <2> QED BY <2>1, <2>2, Induction
<1>12. x = f[c]
  BY <1>1, <1>5, <1>7, <1>11
<1>13. h[c] = x /\ g[c] = start
  <2>1. c \in T
    <3> HIDE DEF T
    <3> QED BY <1>7, <1>10
  <2>2. h[c] = f[c] /\ g[c] = start
    BY <1>7, <2>1
  <2> QED BY <1>12, <2>2
<1>14. x = [state |-> x.state, ok |-> x.ok] /\ x.ok \in BOOLEAN
  BY <1>2 DEF Stage
<1>15. \A n \in Nat : n \in V
  <2> DEFINE both(n) == [state |-> g[n].state, ok |-> x.ok /\ g[n].ok]
  <2>1. h[c] = both(c)
    <3>1. both(c) = [state |-> x.state, ok |-> x.ok /\ TRUE]
      BY <1>13
    <3>2. (x.ok /\ TRUE) = x.ok
      BY <1>14
    <3> QED BY <1>13, <1>14, <3>1, <3>2
  <2>2. 0 \in V
    BY <1>7, <2>1
  <2>3. ASSUME NEW n \in Nat, n \in V PROVE n + 1 \in V
    <3>1. CASE n + 1 = c
      BY <2>1, <3>1
    <3>2. CASE n >= c
      <4>1. h[n] = both(n)
        BY <2>3, <3>2
      <4>2. CASE n + 1 \in B
        <5>1. g[n + 1] = [state |-> Executed(g[n].state, directory[n + 1]),
                          ok |-> g[n].ok /\ Executable(directory[n + 1], g[n].state)]
          BY <1>3, <4>2 DEF Played
        <5>2. h[n + 1] = [state |-> Executed(h[n].state, directory[n + 1]),
                          ok |-> h[n].ok /\ Executable(directory[n + 1], h[n].state)]
          BY <1>4, <4>2 DEF Played

        <5>7. h[n].state = g[n].state /\ h[n].ok = (x.ok /\ g[n].ok)
          BY <4>1
        <5>3. h[n + 1] = [state |-> Executed(g[n].state, directory[n + 1]),
                          ok |-> (x.ok /\ g[n].ok)
                                   /\ Executable(directory[n + 1], g[n].state)]
          BY <5>2, <5>7
        <5>4. ((x.ok /\ g[n].ok) /\ Executable(directory[n + 1], g[n].state))
                = (x.ok /\ (g[n].ok /\ Executable(directory[n + 1], g[n].state)))
          OBVIOUS
        <5>8. /\ g[n + 1].state = Executed(g[n].state, directory[n + 1])
              /\ g[n + 1].ok = (g[n].ok /\ Executable(directory[n + 1], g[n].state))
          BY <5>1
        <5>5. both(n + 1) = [state |-> Executed(g[n].state, directory[n + 1]),
                             ok |-> x.ok /\ (g[n].ok
                                      /\ Executable(directory[n + 1], g[n].state))]
          BY <5>8
        <5>6. h[n + 1] = both(n + 1)
          BY <5>3, <5>4, <5>5
        <5> QED BY <5>6
      <4>3. CASE n + 1 \notin B
        <5>1. g[n + 1] = g[n] /\ h[n + 1] = h[n]
          BY <1>3, <1>4, <1>9, <3>2, <4>3 DEF Played
        <5> QED BY <4>1, <5>1
      <4> QED BY <4>2, <4>3
    <3>3. CASE ~(n >= c) /\ n + 1 # c
      <4>1. ~(n + 1 >= c)
        BY <1>7, <3>3
      <4> QED BY <4>1
    <3> QED BY <3>1, <3>2, <3>3
  <2> HIDE DEF V
  <2> QED BY <2>2, <2>3, Induction
<1>16. h[MaxVersion] = [state |-> g[MaxVersion].state, ok |-> x.ok /\ g[MaxVersion].ok]
  BY <1>5, <1>7, <1>15
<1> QED BY <1>3, <1>4, <1>16

Outcome == [state : Schemas, ok : BOOLEAN, planless : BOOLEAN]
Composing(directory, x, v) ==
  IF ~directory[v].planned THEN [x EXCEPT !.planless = TRUE]
  ELSE [x EXCEPT !.state = directory[v].target, !.ok = @ /\ directory[v].base = x.state]
Composed(f, directory, base, versions) ==
  /\ f \in [Nat -> Outcome]
  /\ f[0] = [state |-> base, ok |-> TRUE, planless |-> FALSE]
  /\ \A n \in Nat : f[n + 1] = IF n + 1 \notin versions THEN f[n]
                          ELSE Composing(directory, f[n], n + 1)

(* Effective of any directory.                                             *)
Composition(directory, base, versions) ==
  LET Upto[v \in 0 .. MaxVersion] ==
        IF v = 0 THEN [state |-> base, ok |-> TRUE, planless |-> FALSE]
        ELSE IF v \notin versions THEN Upto[v - 1]
        ELSE Composing(directory, Upto[v - 1], v)
  IN Upto[MaxVersion]

LEMMA EffectiveIs ==
  ASSUME NEW base, NEW versions, NEW without
  PROVE  Effective(base, versions, without) = Composition(chain, base, versions \ without)
BY DEF Effective, Composition, Composing

LEMMA CompositionSteps ==
  ASSUME NEW directory, NEW base \in Schemas, NEW versions,
         versions \subseteq Numbers, \A v \in versions : directory[v] \in File
  PROVE  \E f : /\ Composed(f, directory, base, versions)
                /\ Composition(directory, base, versions) = f[MaxVersion]
<1> DEFINE S == Outcome
           a == [state |-> base, ok |-> TRUE, planless |-> FALSE]
           play(x, n) == IF n \notin versions THEN x ELSE Composing(directory, x, n)
           step == [n \in Nat |-> [x \in S |-> play(x, n)]]
           G(g) == [v \in 0 .. MaxVersion |-> IF v = 0 THEN a ELSE play(g[v - 1], v)]
<1>1. ASSUME NEW x \in S, NEW n \in Nat PROVE play(x, n) \in S
  <2>1. CASE n \notin versions
    BY <2>1
  <2>2. CASE n \in versions
    <3>1. directory[n].target \in Schemas
      BY <2>2 DEF File
    <3> QED BY <2>2, <3>1 DEF Outcome, Composing
  <2> QED BY <2>1, <2>2
<1>2. step \in [Nat -> [S -> S]] /\ a \in S
  <2>1. a \in S
    BY DEF Outcome
  <2> HIDE DEF S, play, a
  <2> QED BY <1>1, <2>1
<1>3. PICK f : Recurs(f, S, a, step)
  <2> HIDE DEF S, step, a
  <2> QED BY <1>2, Recursion
<1>4. f \in [Nat -> S] /\ f[0] = a
  BY <1>3 DEF Recurs
<1>5. ASSUME NEW n \in Nat PROVE f[n + 1] = play(f[n], n + 1)
  <2>1. f[n + 1] = step[n + 1][f[n]] /\ f[n] \in S /\ n + 1 \in Nat
    <3> HIDE DEF step, S
    <3> QED BY <1>3 DEF Recurs
  <2> HIDE DEF play, S
  <2> QED BY <2>1
<1>6. Composed(f, directory, base, versions)
  BY <1>4, <1>5 DEF Composed
<1> DEFINE U == CHOOSE g : g = G(g)
<1>7. Composition(directory, base, versions) = U[MaxVersion]
  BY DEF Composition
<1>8. U = G(U)
  <2> DEFINE h == [v \in 0 .. MaxVersion |-> f[v]]
  <2>1. ASSUME NEW v \in 0 .. MaxVersion PROVE h[v] = G(h)[v]
    <3>1. CASE v = 0
      BY <1>4, <3>1
    <3>2. CASE v # 0
      <4>1. v - 1 \in Nat /\ (v - 1) + 1 = v /\ v - 1 \in 0 .. MaxVersion
        BY <3>2, BoundsAssumption
      <4>2. f[v] = play(f[v - 1], v)
        BY <1>5, <4>1
      <4>3. h[v] = f[v] /\ h[v - 1] = f[v - 1]
        BY <4>1
      <4> HIDE DEF play, h
      <4> QED BY <3>2, <4>2, <4>3
    <3> QED BY <3>1, <3>2
  <2>2. h = G(h)
    BY <2>1
  <2> HIDE DEF h, G
  <2> QED BY <2>2
<1> DEFINE T == {n \in Nat : n <= MaxVersion => U[n] = f[n]}
<1> HIDE DEF U, play
<1>9. 0 \in T
  BY <1>4, <1>8, BoundsAssumption
<1>10. ASSUME NEW n \in Nat, n \in T PROVE n + 1 \in T
  <2> SUFFICES ASSUME n + 1 <= MaxVersion PROVE U[n + 1] = f[n + 1]
    OBVIOUS
  <2>1. n + 1 \in 0 .. MaxVersion /\ n + 1 # 0 /\ (n + 1) - 1 = n
    BY BoundsAssumption
  <2>2. U[n + 1] = play(U[n], n + 1)
    BY <1>8, <2>1
  <2>3. U[n] = f[n]
    BY <1>10, BoundsAssumption
  <2> QED BY <1>5, <2>2, <2>3
<1>11. \A n \in Nat : n \in T
  <2> HIDE DEF T
  <2> QED BY <1>9, <1>10, Induction
<1>12. U[MaxVersion] = f[MaxVersion]
  BY <1>11, BoundsAssumption
<1> QED BY <1>6, <1>7, <1>12

(* What composes without an error and without a gap is what the files do.  *)
Composes(e, base, versions) ==
  /\ e \in Outcome
  /\ versions = {} => e.state = base
  /\ ~e.planless => \A v \in versions : chain[v].planned
  /\ e.ok /\ ~e.planless => Replay(chain, base, versions) = [state |-> e.state, ok |-> TRUE]
  /\ e.ok => \A v \in versions : chain[v].planned /\ (\A w \in versions : v <= w)
                                   => chain[v].base = base

LEMMA EffectiveReplays ==
  ASSUME NEW base \in Schemas, NEW versions, NEW without, Files(chain, versions)
  PROVE  Composes(Effective(base, versions, without), base, versions \ without)
<1> DEFINE A == versions \ without
           e == Effective(base, versions, without)
<1>0. versions \subseteq Numbers /\ \A v \in versions : chain[v] \in File /\ Sound(chain[v])
  BY DEF Files
<1>1. PICK f : Composed(f, chain, base, A) /\ e = f[MaxVersion]
  <2>1. e = Composition(chain, base, A)
    BY EffectiveIs
  <2>2. A \subseteq Numbers /\ \A v \in A : chain[v] \in File
    BY <1>0
  <2> HIDE DEF e, A
  <2> QED BY <2>1, <2>2, CompositionSteps
<1>2. PICK g : Played(g, chain, base, A) /\ Replay(chain, base, A) = g[MaxVersion]
  BY <1>0, ReplaySteps
<1>3. MaxVersion \in Nat /\ \A v \in A : v \in Nat /\ 0 < v /\ v <= MaxVersion
  BY <1>0, BoundsAssumption DEF Numbers
<1>4. \A v \in A : chain[v] \in File /\ Sound(chain[v])
  BY <1>0
<1> HIDE DEF A, e
<1> DEFINE First(v) == v \in A /\ chain[v].planned /\ \A w \in A : v <= w
           I1(n) == A = {} => f[n].state = base
           I2(n) == ~f[n].planless => \A v \in A : v <= n => chain[v].planned
           I3(n) == f[n].ok /\ ~f[n].planless => g[n] = [state |-> f[n].state, ok |-> TRUE]
           I4(n) == (\A v \in A : n < v) => f[n].state = base
           I5(n) == f[n].ok => \A v \in A : v <= n /\ First(v) => chain[v].base = base
           T == {n \in Nat : I1(n) /\ I2(n) /\ I3(n) /\ I4(n) /\ I5(n)}
<1>5. 0 \in T
  BY <1>1, <1>2, <1>3 DEF Composed, Played
<1>6. ASSUME NEW n \in Nat, n \in T PROVE n + 1 \in T
  <2>1. f[n] \in Outcome /\ g[n] \in Stage
    BY <1>1, <1>2 DEF Composed, Played
  <2>2. CASE n + 1 \notin A
    <3>1. f[n + 1] = f[n] /\ g[n + 1] = g[n]
      BY <1>1, <1>2, <2>2 DEF Composed, Played
    <3>2. \A v \in A : v <= n + 1 <=> v <= n
      BY <1>3, <2>2
    <3>3. \A v \in A : n + 1 < v <=> n < v
      BY <1>3, <2>2
    <3>4. I1(n + 1) /\ I3(n + 1)
      BY <1>6, <3>1
    <3>5. I2(n + 1)
      BY <1>6, <3>1, <3>2
    <3>6. I4(n + 1)
      BY <1>6, <3>1, <3>3
    <3>7. I5(n + 1)
      BY <1>6, <3>1, <3>2
    <3> QED BY <3>4, <3>5, <3>6, <3>7
  <2>3. CASE n + 1 \in A
    <3>1. f[n + 1] = Composing(chain, f[n], n + 1)
      BY <1>1, <2>3 DEF Composed
    <3>2. g[n + 1] = [state |-> Executed(g[n].state, chain[n + 1]),
                      ok |-> g[n].ok /\ Executable(chain[n + 1], g[n].state)]
      BY <1>2, <2>3 DEF Played
    <3>3. I1(n + 1) /\ I4(n + 1)
      BY <2>3
    <3>4. \A v \in A : v <= n + 1 => v <= n \/ v = n + 1
      BY <1>3
    <3>5. CASE ~chain[n + 1].planned
      <4>1. /\ f[n + 1].planless = TRUE /\ f[n + 1].ok = f[n].ok
            /\ f[n + 1].state = f[n].state
        BY <2>1, <3>1, <3>5 DEF Composing, Outcome
      <4>2. I2(n + 1) /\ I3(n + 1)
        BY <4>1
      <4>3. I5(n + 1)
        BY <1>6, <3>4, <3>5, <4>1
      <4> QED BY <3>3, <4>2, <4>3
    <3>6. CASE chain[n + 1].planned
      <4>1. /\ f[n + 1].state = chain[n + 1].target
            /\ f[n + 1].ok = (f[n].ok /\ chain[n + 1].base = f[n].state)
            /\ f[n + 1].planless = f[n].planless
        BY <2>1, <3>1, <3>6 DEF Composing, Outcome
      <4>2. I2(n + 1)
        BY <1>6, <3>4, <3>6, <4>1
      <4>3. I3(n + 1)
        <5> SUFFICES ASSUME f[n + 1].ok, ~f[n + 1].planless
                     PROVE  g[n + 1] = [state |-> f[n + 1].state, ok |-> TRUE]
          OBVIOUS
        <5>1. f[n].ok /\ chain[n + 1].base = f[n].state /\ ~f[n].planless
          BY <4>1
        <5>2. g[n].state = chain[n + 1].base /\ g[n].ok = TRUE
          BY <1>6, <5>1
        <5>3. /\ Executable(chain[n + 1], g[n].state)
              /\ Executed(g[n].state, chain[n + 1]) = chain[n + 1].target
          BY <1>4, <2>3, <5>2 DEF Sound
        <5>4. (g[n].ok /\ Executable(chain[n + 1], g[n].state)) = TRUE
          BY <5>2, <5>3 DEF Executable
        <5> QED BY <3>2, <4>1, <5>3, <5>4
      <4>4. I5(n + 1)
        <5> SUFFICES ASSUME f[n + 1].ok, NEW v \in A, v <= n + 1, First(v)
                     PROVE  chain[v].base = base
          OBVIOUS
        <5>1. f[n].ok /\ chain[n + 1].base = f[n].state
          BY <4>1
        <5>2. CASE v <= n
          BY <1>6, <5>1, <5>2
        <5>3. CASE v = n + 1
          <6>1. \A w \in A : n < w
            BY <1>3, <5>3
          <6> QED BY <1>6, <5>1, <5>3, <6>1
        <5> QED BY <3>4, <5>2, <5>3
      <4> QED BY <3>3, <4>2, <4>3, <4>4
    <3> QED BY <3>5, <3>6
  <2> QED BY <2>2, <2>3
<1>7. MaxVersion \in T
  <2> HIDE DEF T
  <2> QED BY <1>3, <1>5, <1>6, Induction
<1>8. e \in Outcome
  BY <1>1, <1>3 DEF Composed
<1>9. Composes(e, base, A)
  BY <1>1, <1>2, <1>3, <1>7, <1>8 DEF Composes
<1> QED BY <1>9 DEF A, e

(***************************************************************************)
(* The invariant of the chain.                                             *)
(***************************************************************************)
Records == [target : Schemas, based : BOOLEAN, base : Schemas, applied : SUBSET Numbers]
Taken == [state : Schemas, typed : BOOLEAN, applied : SUBSET Numbers]
Directory(d) ==
  /\ \E n \in 0 .. MaxVersion : DOMAIN d = 1 .. n /\ d = [v \in 1 .. n |-> d[v]]
  /\ \A v \in DOMAIN d : d[v] \in File /\ Sound(d[v])
ChainType ==
  /\ models \in Schemas /\ schema \in Schemas
  /\ Directory(chain)
  /\ record = None \/ record \in Records
  /\ DOMAIN snapshots \subseteq Numbers
  /\ \A v \in DOMAIN snapshots : snapshots[v] \in Taken
  /\ history \subseteq DOMAIN chain
  /\ run \in [at : Nat, applied : SUBSET Numbers, deferred : BOOLEAN]
  /\ run.applied \subseteq history
  /\ left \in [edit : Nat, rollback : 0 .. MaxRollbacks, delete : Nat, fault : Nat]

(* A file that a run has passed, or that is below one applied, and is not  *)
(* applied itself repeats an earlier one.                                  *)
Placed ==
  \A v \in DOMAIN chain \ history :
    v <= run.at \/ (\E h \in history : v < h)
      => \E w \in DOMAIN chain : w < v /\ SameStatements(w, v)

(* The database is what the files of its history lead to.                  *)
Migrated == Replay(chain, {}, history) = [state |-> schema, ok |-> TRUE]

(* A promise is about the whole chain.                                     *)
Promised ==
  goal # None /\ ~Repeated =>
    Replay(chain, {}, DOMAIN chain) = [state |-> goal, ok |-> TRUE]

(* The database was once in that state, with those files applied.          *)
Led(directory, past, state, without) ==
  /\ without \subseteq past
  /\ \A h \in past, v \in without : h < v => h \in without
  /\ Replay(directory, {}, without) = [state |-> state, ok |-> TRUE]
Reached(state, without) == Led(chain, history, state, without)

(* While nothing is rolled back the snapshots and the recorded baseline    *)
(* are states the database was in, but for a baseline of which a file      *)
(* without a plan is known.                                                *)
Baselined ==
  \/ Reached(record.base, record.applied)
  \/ \E v \in history \ record.applied : ~chain[v].planned
Known ==
  ~RolledBack =>
    /\ \A v \in DOMAIN snapshots : Reached(snapshots[v].state, snapshots[v].applied)
    /\ record # None /\ record.based => Baselined
    /\ record # None /\ ~record.based => record.target = {} \/ history # {}
    /\ 1 \in DOMAIN chain => chain[1].base = {}

ChainInv == ChainType /\ Placed /\ Migrated /\ Promised /\ Known

LEMMA MaxIsElement ==
  ASSUME NEW S, S \subseteq Numbers, S # {}
  PROVE  Max(S) \in S /\ \A v \in S : v <= Max(S)
<1>1. MaxVersion \in Nat /\ \A v \in S : v \in Nat /\ v <= MaxVersion
  BY BoundsAssumption DEF Numbers
<1> DEFINE T == {MaxVersion - v : v \in S}
<1>2. T \subseteq Nat /\ T # {}
  BY <1>1
<1>3. PICK m \in T : \A t \in T : m <= t
  <2> HIDE DEF T
  <2> QED BY <1>2, Minimum
<1>4. PICK x \in S : m = MaxVersion - x
  OBVIOUS
<1>5. ASSUME NEW v \in S PROVE x >= v
  <2>1. MaxVersion - x <= MaxVersion - v
    BY <1>3, <1>4
  <2>2. x \in Nat /\ v \in Nat
    BY <1>1
  <2> QED BY <1>1, <2>1, <2>2
<1>6. Max(S) \in S /\ \A v \in S : Max(S) >= v
  BY <1>5 DEF Max
<1>7. \A v \in S : Max(S) \in Nat /\ v \in Nat
  BY <1>1, <1>6
<1> QED BY <1>6, <1>7

LEMMA ChainNumbers ==
  ASSUME ChainType
  PROVE  /\ DOMAIN chain \subseteq Numbers /\ history \subseteq Numbers
         /\ \A v \in DOMAIN chain : chain[v] \in File /\ Sound(chain[v])
BY BoundsAssumption DEF ChainType, Directory, Numbers

LEMMA ChainInit0 == ChainInit => ChainInv
<1> SUFFICES ASSUME ChainInit PROVE ChainInv
  OBVIOUS
<1> USE DEF ChainInit
<1>1. ChainType
  <2>1. DOMAIN chain = {} /\ DOMAIN snapshots = {}
    OBVIOUS
  <2>2. Directory(chain)
    <3>1. 0 \in 0 .. MaxVersion /\ 1 .. 0 = {} /\ chain = [v \in 1 .. 0 |-> chain[v]]
      BY BoundsAssumption
    <3> QED BY <2>1, <3>1 DEF Directory
  <2>3. left \in [edit : Nat, rollback : 0 .. MaxRollbacks, delete : Nat, fault : Nat]
    BY BoundsAssumption
  <2>4. record = None \/ record \in Records
    <3>1. [target |-> {}, based |-> FALSE, base |-> {}, applied |-> {}] \in Records
      BY DEF Records, Schemas
    <3> QED BY <3>1
  <2>5. schema \in Schemas /\ models \in Schemas
    BY DEF Schemas
  <2>6. /\ run \in [at : Nat, applied : SUBSET Numbers, deferred : BOOLEAN]
        /\ run.applied \subseteq history
    BY DEF Idle
  <2> QED BY <2>1, <2>2, <2>3, <2>4, <2>5, <2>6 DEF ChainType
<1>2. Placed /\ Promised
  BY DEF Placed, Promised
<1>3. Migrated
  BY ReplayNone DEF Migrated, Schemas
<1>4. Known
  BY DEF Known
<1> QED BY <1>1, <1>2, <1>3, <1>4 DEF ChainInv

(* Files that stay where they are lead where they led.                     *)
LEMMA MigratedStays ==
  ASSUME ChainType, Migrated, UNCHANGED database, \A v \in history : chain'[v] = chain[v]
  PROVE  Migrated'
<1>1. history \subseteq Numbers /\ \A v \in history : chain[v] \in File
  BY ChainNumbers DEF ChainType
<1>2. Replay(chain', {}, history) = Replay(chain, {}, history)
  <2>1. {} \in Schemas
    BY DEF Schemas
  <2> QED BY <1>1, <2>1, ReplayAgrees
<1> QED BY <1>2 DEF Migrated, database

LEMMA LedStays ==
  ASSUME ChainType, UNCHANGED history, \A v \in history : chain'[v] = chain[v],
         NEW ACTION state, NEW ACTION without, Led(chain, history, state, without)
  PROVE  Led(chain', history', state, without)
<1>1. /\ without \subseteq history /\ without \subseteq Numbers
      /\ \A v \in without : chain[v] \in File
  BY ChainNumbers DEF ChainType, Led
<1>2. Replay(chain', {}, without) = Replay(chain, {}, without)
  <2>1. {} \in Schemas
    BY DEF Schemas
  <2>2. \A v \in without : chain[v] \in File /\ chain'[v] = chain[v]
    BY <1>1
  <2> QED BY <1>1, <2>1, <2>2, ReplayAgrees
<1> QED BY <1>2 DEF Led

LEMMA ReachedStays ==
  ASSUME ChainType, UNCHANGED history, \A v \in history : chain'[v] = chain[v],
         NEW state, NEW without, Reached(state, without)
  PROVE  Reached(state, without)'
BY LedStays DEF Reached

LEMMA BaselinedStays ==
  ASSUME ChainType, UNCHANGED <<history, record>>, \A v \in history : chain'[v] = chain[v],
         Baselined
  PROVE  Baselined'
<1>1. CASE Reached(record.base, record.applied)
  <2>1. Reached(record.base, record.applied)'
    BY <1>1, ReachedStays DEF Reached, Led
  <2> QED BY <2>1 DEF Baselined
<1>2. CASE \E v \in history \ record.applied : ~chain[v].planned
  BY <1>2 DEF Baselined
<1> QED BY <1>1, <1>2 DEF Baselined

LEMMA KnownStays ==
  ASSUME ChainType, Known, UNCHANGED <<history, record, snapshots>>,
         left'.rollback = left.rollback,
         \A v \in history : chain'[v] = chain[v],
         1 \in DOMAIN chain' => 1 \in DOMAIN chain /\ chain'[1] = chain[1]
  PROVE  Known'
<1> SUFFICES ASSUME ~RolledBack'
             PROVE  /\ \A v \in DOMAIN snapshots :
                         Reached(snapshots[v].state, snapshots[v].applied)'
                    /\ record # None /\ record.based => Baselined'
                    /\ record # None /\ ~record.based => record.target = {} \/ history # {}
                    /\ 1 \in DOMAIN chain' => chain'[1].base = {}
  BY DEF Known, Reached, Led
<1>1. ~RolledBack
  BY DEF RolledBack
<1>2. \A v \in DOMAIN snapshots : Reached(snapshots[v].state, snapshots[v].applied)'
  <2> SUFFICES ASSUME NEW v \in DOMAIN snapshots
               PROVE  Reached(snapshots[v].state, snapshots[v].applied)'
    OBVIOUS
  <2>1. Reached(snapshots[v].state, snapshots[v].applied)
    BY <1>1 DEF Known
  <2> QED BY <2>1, ReachedStays DEF Reached, Led
<1>3. record # None /\ record.based => Baselined'
  BY <1>1, BaselinedStays DEF Known
<1> QED BY <1>1, <1>2, <1>3 DEF Known

(***************************************************************************)
(* Each action.                                                            *)
(***************************************************************************)
LEMMA SpendKeeps ==
  ASSUME ChainType, NEW what \in {"edit", "delete", "fault"}, Spend(what)
  PROVE  /\ left' \in [edit : Nat, rollback : 0 .. MaxRollbacks, delete : Nat, fault : Nat]
         /\ left'.rollback = left.rollback
<1>1. left \in [edit : Nat, rollback : 0 .. MaxRollbacks, delete : Nat, fault : Nat]
  BY DEF ChainType
<1>2. left[what] > 0 /\ left' = [left EXCEPT ![what] = @ - 1]
  BY DEF Spend
<1>3. CASE what = "edit"
  BY <1>1, <1>2, <1>3
<1>4. CASE what = "delete"
  BY <1>1, <1>2, <1>4
<1>5. CASE what = "fault"
  BY <1>1, <1>2, <1>5
<1> QED BY <1>3, <1>4, <1>5

(* The rest of the state stays when the files, the database and the        *)
(* promise do.                                                             *)
LEMMA Quiet ==
  ASSUME ChainInv, UNCHANGED <<chain, database, goal>>
  PROVE  Migrated' /\ Promised'
<1>1. Migrated'
  BY MigratedStays DEF ChainInv
<1>2. Promised'
  BY DEF ChainInv, Promised, Repeated, SameStatements
<1> QED BY <1>1, <1>2

LEMMA EditModelsKeeps ==
  ASSUME ChainInv, EditModels
  PROVE  ChainInv'
<1>1. /\ Spend("edit") /\ models' \in Schemas
      /\ UNCHANGED <<chain, record, snapshots, schema, history, run, goal>>
  BY DEF EditModels, database
<1>2. ChainType
  BY DEF ChainInv
<1>3. /\ left' \in [edit : Nat, rollback : 0 .. MaxRollbacks, delete : Nat, fault : Nat]
      /\ left'.rollback = left.rollback
  BY <1>1, <1>2, SpendKeeps
<1>4. ChainType'
  BY <1>1, <1>2, <1>3 DEF ChainType, Directory
<1>5. Placed'
  BY <1>1 DEF ChainInv, Placed, SameStatements
<1>6. Known'
  BY <1>1, <1>3, KnownStays DEF ChainInv
<1> QED BY <1>1, <1>4, <1>5, <1>6, Quiet DEF ChainInv, database

LEMMA StopMigrateKeeps ==
  ASSUME ChainInv, StopMigrate
  PROVE  ChainInv'
<1>1. run' = Idle /\ UNCHANGED <<models, chain, record, snapshots, schema, history, goal, left>>
  BY DEF StopMigrate, database, project
<1>2. ChainType'
  BY <1>1 DEF ChainInv, ChainType, Directory, Idle
<1>3. Placed'
  <2>1. run'.at = 0 /\ \A v \in DOMAIN chain : v \in Nat /\ v > 0
    BY <1>1, ChainNumbers DEF Idle, Numbers, ChainInv
  <2>2. \A v \in DOMAIN chain : ~(v <= run'.at)
    BY <2>1
  <2> QED BY <1>1, <2>2 DEF ChainInv, Placed, SameStatements
<1>4. Known'
  BY <1>1, KnownStays DEF ChainInv
<1> QED BY <1>1, <1>2, <1>3, <1>4, Quiet DEF ChainInv, database

(* The next file: it is above all that are applied, unless it repeats one. *)
LEMMA NextFile ==
  ASSUME ChainInv, Unapplied # {}
  PROVE  /\ Min(Unapplied) \in DOMAIN chain \ history
         /\ \A v \in DOMAIN chain \ history : v <= Min(Unapplied) =>
              v <= run.at \/ v = Min(Unapplied)
         /\ ~Skipped(Min(Unapplied)) => \A h \in history : h < Min(Unapplied)
<1> DEFINE m == Min(Unapplied)
<1>1. DOMAIN chain \subseteq Nat /\ Unapplied \subseteq DOMAIN chain /\ Unapplied \subseteq Nat
  BY ChainNumbers DEF Numbers, Unapplied, ChainInv
<1>2. \E x \in Unapplied : \A y \in Unapplied : x <= y
  BY <1>1, Minimum
<1>3. m \in Unapplied /\ \A v \in Unapplied : m <= v
  BY <1>2 DEF Min
<1> HIDE DEF m
<1>4. run.at \in Nat
  BY DEF ChainInv, ChainType
<1>5. \A v \in DOMAIN chain \ history : v <= m => v <= run.at \/ v = m
  BY <1>1, <1>3, <1>4 DEF Unapplied
<1>6. ASSUME ~Skipped(m), NEW h \in history, ~(h < m) PROVE FALSE
  <2>1. h \in Nat /\ m \in Nat /\ m \notin history /\ m < h
    BY <1>1, <1>3, <1>6 DEF Unapplied, ChainInv, ChainType
  <2> DEFINE T == {v \in DOMAIN chain : SameStatements(v, m)}
  <2>2. m \in T /\ T \subseteq Nat
    BY <1>1, <1>3 DEF SameStatements
  <2>3. PICK w \in T : \A v \in T : w <= v
    <3> HIDE DEF T
    <3> QED BY <2>2, Minimum
  <2>4. w \notin history
    BY <1>6, <2>3 DEF Skipped, SameStatements
  <2>5. w <= m /\ w < h
    BY <2>1, <2>2, <2>3
  <2>6. PICK x \in DOMAIN chain : x < w /\ SameStatements(x, w)
    BY <2>1, <2>3, <2>4, <2>5 DEF ChainInv, Placed
  <2>7. x \in T
    BY <2>3, <2>6 DEF SameStatements
  <2> QED BY <1>1, <2>2, <2>3, <2>6, <2>7
<1> QED BY <1>3, <1>5, <1>6 DEF m, Unapplied

LEMMA SkipFileKeeps ==
  ASSUME ChainInv, SkipFile
  PROVE  ChainInv'
<1> DEFINE m == Min(Unapplied)
<1>1. /\ Unapplied # {} /\ Skipped(m) /\ run' = [run EXCEPT !.at = m]
      /\ UNCHANGED <<models, chain, record, snapshots, schema, history, goal, left>>
  BY DEF SkipFile, database, project
<1>2. /\ m \in DOMAIN chain \ history
      /\ \A v \in DOMAIN chain \ history : v <= m => v <= run.at \/ v = m
  BY <1>1, NextFile
<1> HIDE DEF m
<1>3. DOMAIN chain \subseteq Nat /\ history \subseteq DOMAIN chain
  BY ChainNumbers DEF Numbers, ChainInv, ChainType
<1>4. run'.at = m /\ m \in Nat
  BY <1>1, <1>2, <1>3 DEF ChainInv, ChainType
<1>5. ChainType'
  BY <1>1, <1>4 DEF ChainInv, ChainType, Directory
<1>6. Placed'
  <2> SUFFICES ASSUME NEW v \in DOMAIN chain \ history,
                      v <= m \/ (\E h \in history : v < h)
               PROVE  \E w \in DOMAIN chain : w < v /\ SameStatements(w, v)
    BY <1>1, <1>4 DEF Placed, SameStatements
  <2>1. CASE v = m
    <3>1. PICK w \in history : SameStatements(m, w)
      BY <1>1 DEF Skipped
    <3>2. w \in Nat /\ m \in Nat /\ w # m /\ w \in DOMAIN chain
      BY <1>2, <1>3, <3>1
    <3>3. CASE w < m
      BY <2>1, <3>1, <3>2, <3>3 DEF SameStatements
    <3>4. CASE m < w
      BY <2>1, <3>1, <3>4 DEF ChainInv, Placed
    <3> QED BY <3>2, <3>3, <3>4
  <2>2. CASE v # m
    <3>1. v <= run.at \/ (\E h \in history : v < h)
      BY <1>2, <2>2
    <3> QED BY <3>1 DEF ChainInv, Placed
  <2> QED BY <2>1, <2>2
<1>7. Known'
  BY <1>1, KnownStays DEF ChainInv
<1> QED BY <1>1, <1>5, <1>6, <1>7, Quiet DEF ChainInv, database

(* What the plans of the applied files make of a baseline is the state of  *)
(* the database.                                                           *)
LEMMA SnapshotTrue ==
  ASSUME ChainType, record # None /\ record.based => Baselined,
         NEW H, H \subseteq DOMAIN chain, history \subseteq H,
         \A h \in history, v \in H : v < h => v \in history,
         NEW state \in Schemas, Replay(chain, {}, H) = [state |-> state, ok |-> TRUE]
  PROVE  /\ Snapshot(state, H) \in Taken
         /\ Snapshot(state, H).state = state /\ Snapshot(state, H).applied = H
<1> DEFINE fresh == (H \cap DOMAIN chain) \ record.applied
           composed == Effective(record.base, fresh, {})
           typed == record # None /\ record.based
<1>1. /\ H \subseteq Numbers /\ H \subseteq Nat
      /\ \A v \in H : chain[v] \in File /\ Sound(chain[v])
  BY ChainNumbers DEF Numbers
<1>2. Snapshot(state, H) = IF typed /\ composed.ok /\ ~composed.planless
                             THEN [state |-> composed.state, typed |-> TRUE, applied |-> H]
                             ELSE [state |-> state, typed |-> FALSE, applied |-> H]
  BY DEF Snapshot
<1>3. CASE ~(typed /\ composed.ok /\ ~composed.planless)
  <2>1. Snapshot(state, H) = [state |-> state, typed |-> FALSE, applied |-> H]
    BY <1>2, <1>3
  <2> QED BY <1>1, <2>1 DEF Taken
<1>4. CASE typed /\ composed.ok /\ ~composed.planless
  <2>1. record.base \in Schemas /\ record.applied \subseteq Numbers
    BY <1>4 DEF ChainType, Records
  <2>2. Files(chain, fresh)
    BY <1>1 DEF Files
  <2>3. fresh \ {} = fresh
    OBVIOUS
  <2>4. /\ composed \in Outcome
        /\ \A v \in fresh : chain[v].planned
        /\ Replay(chain, record.base, fresh) = [state |-> composed.state, ok |-> TRUE]
    <3> HIDE DEF fresh
    <3>2. composed = Effective(record.base, fresh, {})
      OBVIOUS
    <3> HIDE DEF composed
    <3>1. Composes(composed, record.base, fresh)
      BY <2>1, <2>2, <2>3, <3>2, EffectiveReplays
    <3> QED BY <1>4, <3>1 DEF Composes
  <2> DEFINE A == record.applied
  <2>5. Reached(record.base, A)
    <3>1. \A v \in history \ A : v \in fresh
      BY DEF ChainType
    <3>2. ~(\E v \in history \ A : ~chain[v].planned)
      BY <2>4, <3>1
    <3> QED BY <1>4, <3>2 DEF Baselined
  <2>6. A \cup fresh = H
    BY <2>5 DEF Reached, Led
  <2>13. ASSUME NEW v \in A, NEW w \in fresh PROVE v < w
    <3>1. v \in history /\ v \in H /\ w \in H /\ w \notin A
      BY <2>5 DEF Reached, Led
    <3>2. ~(w < v)
      BY <2>5, <3>1 DEF Reached, Led
    <3>3. v \in Nat /\ w \in Nat /\ v # w
      BY <1>1, <3>1
    <3> QED BY <3>2, <3>3
  <2>7. Below(A, fresh)
    BY <2>13 DEF Below
  <2>8. {} \in Schemas /\ Files(chain, A)
    BY <1>1, <2>6 DEF Schemas, Files
  <2> HIDE DEF A, fresh
  <2>9. Replay(chain, {}, A) = [state |-> record.base, ok |-> TRUE]
    BY <2>5 DEF Reached, Led
  <2>10. Replay(chain, {}, H).state = composed.state
    <3> DEFINE x == Replay(chain, {}, A)
               y == Replay(chain, x.state, fresh)
    <3>1. x = Replay(chain, {}, A) /\ y = Replay(chain, x.state, fresh)
      OBVIOUS
    <3>2. x = [state |-> record.base, ok |-> TRUE]
          /\ y = [state |-> composed.state, ok |-> TRUE]
      BY <2>4, <2>9
    <3> HIDE DEF x, y
    <3>3. Replay(chain, {}, A \cup fresh) = [state |-> y.state, ok |-> x.ok /\ y.ok]
      BY <2>2, <2>7, <2>8, <3>1, ReplaySplit
    <3> HIDE DEF composed
    <3> QED BY <2>6, <3>2, <3>3
  <2>11. composed.state = state
    BY <2>10
  <2>12. Snapshot(state, H) = [state |-> state, typed |-> TRUE, applied |-> H]
    BY <1>2, <1>4, <2>11
  <2> QED BY <1>1, <2>12 DEF Taken
<1> QED BY <1>3, <1>4

LEMMA SnapshotType ==
  ASSUME ChainType, NEW H, H \subseteq DOMAIN chain, NEW state \in Schemas
  PROVE  Snapshot(state, H) \in Taken
<1> DEFINE fresh == (H \cap DOMAIN chain) \ record.applied
           composed == Effective(record.base, fresh, {})
           typed == record # None /\ record.based
<1>1. H \subseteq Numbers /\ Files(chain, fresh)
  BY ChainNumbers DEF Files
<1>2. Snapshot(state, H) = IF typed /\ composed.ok /\ ~composed.planless
                             THEN [state |-> composed.state, typed |-> TRUE, applied |-> H]
                             ELSE [state |-> state, typed |-> FALSE, applied |-> H]
  BY DEF Snapshot
<1>3. CASE ~(typed /\ composed.ok /\ ~composed.planless)
  <2>1. Snapshot(state, H) = [state |-> state, typed |-> FALSE, applied |-> H]
    BY <1>2, <1>3
  <2> QED BY <1>1, <2>1 DEF Taken
<1>4. CASE typed /\ composed.ok /\ ~composed.planless
  <2>1. record.base \in Schemas
    BY <1>4 DEF ChainType, Records
  <2>2. composed \in Outcome
    <3> HIDE DEF fresh
    <3>1. Composes(composed, record.base, fresh \ {})
      BY <1>1, <2>1, EffectiveReplays
    <3> QED BY <3>1 DEF Composes
  <2>3. Snapshot(state, H) = [state |-> composed.state, typed |-> TRUE, applied |-> H]
    BY <1>2, <1>4
  <2>4. composed.state \in Schemas
    BY <2>2 DEF Outcome
  <2> QED BY <1>1, <2>3, <2>4 DEF Taken
<1> QED BY <1>3, <1>4

LEMMA EndSnapshotKeeps ==
  ASSUME ChainInv, run.applied # {}, EndSnapshot, UNCHANGED <<chain, history>>
  PROVE  /\ DOMAIN snapshots' \subseteq Numbers
         /\ \A v \in DOMAIN snapshots' : snapshots'[v] \in Taken
         /\ ~RolledBack => \A v \in DOMAIN snapshots' :
              Reached(snapshots'[v].state, snapshots'[v].applied)
<1>1. CASE ~run.deferred
  BY <1>1 DEF EndSnapshot, ChainInv, ChainType, Known
<1>2. CASE run.deferred
  <2> DEFINE k == Max(run.applied)
             snap == Snapshot(schema, history)
  <2>1. k \in Numbers
    <3>1. run.applied \subseteq Numbers
      BY DEF ChainInv, ChainType
    <3> QED BY <3>1, MaxIsElement
  <2>2. snapshots' = With(snapshots, [v \in {k} |-> snap])
    BY <1>2 DEF EndSnapshot
  <2> HIDE DEF k, snap
  <2>3. /\ DOMAIN snapshots' = DOMAIN snapshots \cup {k}
        /\ \A v \in DOMAIN snapshots' :
             snapshots'[v] = IF v = k THEN snap ELSE snapshots[v]
    BY <2>2 DEF With
  <2>4. snap \in Taken
    BY SnapshotType DEF snap, ChainInv, ChainType
  <2>5. ASSUME ~RolledBack PROVE Reached(snap.state, snap.applied)
    <3>1. record # None /\ record.based => Baselined
      BY <2>5 DEF ChainInv, Known
    <3>2. snap.state = schema /\ snap.applied = history
      BY <3>1, SnapshotTrue DEF snap, ChainInv, ChainType, Migrated
    <3> QED BY <3>2 DEF Reached, Led, ChainInv, Migrated
  <2> QED BY <2>1, <2>3, <2>4, <2>5 DEF ChainInv, ChainType, Known
<1> QED BY <1>1, <1>2

LEMMA FinishMigrateKeeps ==
  ASSUME ChainInv, FinishMigrate
  PROVE  ChainInv'
<1>1. /\ run.applied # {} /\ EndSnapshot /\ run' = Idle
      /\ record' = [target |-> models, based |-> FALSE, base |-> {}, applied |-> {}]
      /\ UNCHANGED <<models, chain, schema, history, goal, left>>
  BY DEF FinishMigrate, database
<1>2. /\ DOMAIN snapshots' \subseteq Numbers
      /\ \A v \in DOMAIN snapshots' : snapshots'[v] \in Taken
      /\ ~RolledBack => \A v \in DOMAIN snapshots' :
           Reached(snapshots'[v].state, snapshots'[v].applied)
  BY <1>1, EndSnapshotKeeps
<1>3. record' \in Records /\ ~record'.based
  BY <1>1 DEF ChainInv, ChainType, Records, Schemas
<1>4. ChainType'
  BY <1>1, <1>2, <1>3 DEF ChainInv, ChainType, Directory, Idle
<1>5. Placed'
  <2>1. run'.at = 0 /\ \A v \in DOMAIN chain : v \in Nat /\ v > 0
    BY <1>1, ChainNumbers DEF Idle, Numbers, ChainInv
  <2>2. \A v \in DOMAIN chain : ~(v <= run'.at)
    BY <2>1
  <2> QED BY <1>1, <2>2 DEF ChainInv, Placed, SameStatements
<1>6. Known'
  <2>1. UNCHANGED RolledBack
    BY <1>1 DEF RolledBack
  <2>2. ASSUME ~RolledBack, NEW v \in DOMAIN snapshots'
        PROVE  Reached(snapshots[v].state, snapshots[v].applied)'
    <3>1. Reached(snapshots'[v].state, snapshots'[v].applied)
      BY <1>2, <2>2
    <3> QED BY <1>1, <3>1 DEF Reached, Led
  <2>3. history' # {}
    BY <1>1 DEF ChainInv, ChainType
  <2> QED BY <1>1, <1>3, <2>1, <2>2, <2>3 DEF Known, ChainInv
<1> QED BY <1>1, <1>4, <1>5, <1>6, Quiet DEF ChainInv, database

LEMMA StopAtCeilingKeeps ==
  ASSUME ChainInv, StopAtCeiling
  PROVE  ChainInv'
<1>1. /\ run.applied # {} /\ EndSnapshot /\ run' = Idle
      /\ UNCHANGED <<models, chain, record, schema, history, goal, left>>
  BY DEF StopAtCeiling, database
<1>2. /\ DOMAIN snapshots' \subseteq Numbers
      /\ \A v \in DOMAIN snapshots' : snapshots'[v] \in Taken
      /\ ~RolledBack => \A v \in DOMAIN snapshots' :
           Reached(snapshots'[v].state, snapshots'[v].applied)
  BY <1>1, EndSnapshotKeeps
<1>3. ChainType'
  BY <1>1, <1>2 DEF ChainInv, ChainType, Directory, Idle
<1>4. Placed'
  <2>1. run'.at = 0 /\ \A v \in DOMAIN chain : v \in Nat /\ v > 0
    BY <1>1, ChainNumbers DEF Idle, Numbers, ChainInv
  <2>2. \A v \in DOMAIN chain : ~(v <= run'.at)
    BY <2>1
  <2> QED BY <1>1, <2>2 DEF ChainInv, Placed, SameStatements
<1>5. Known'
  <2>1. UNCHANGED RolledBack
    BY <1>1 DEF RolledBack
  <2>2. ASSUME ~RolledBack, NEW v \in DOMAIN snapshots'
        PROVE  Reached(snapshots[v].state, snapshots[v].applied)'
    <3>1. Reached(snapshots'[v].state, snapshots'[v].applied)
      BY <1>2, <2>2
    <3> QED BY <1>1, <3>1 DEF Reached, Led
  <2>3. ASSUME Baselined PROVE Baselined'
    BY <1>1, <2>3 DEF Baselined, Reached, Led
  <2> QED BY <1>1, <2>1, <2>2, <2>3 DEF Known, ChainInv
<1> QED BY <1>1, <1>3, <1>4, <1>5, Quiet DEF ChainInv, database

LEMMA ReachedGrows ==
  ASSUME UNCHANGED chain, NEW v \in Nat, history \subseteq Nat, \A h \in history : h < v,
         history' = history \cup {v}, NEW state, NEW without, Reached(state, without)
  PROVE  Reached(state, without)'
<1>1. without \subseteq history' /\ without \subseteq history
  BY DEF Reached, Led
<1>2. ASSUME NEW h \in history', NEW w \in without, h < w PROVE h \in without
  <2>1. w < v /\ w \in Nat
    BY <1>1
  <2>2. h # v
    BY <1>2, <2>1
  <2> QED BY <1>2, <2>2 DEF Reached, Led
<1> QED BY <1>1, <1>2 DEF Reached, Led

LEMMA ApplyFileKeeps ==
  ASSUME ChainInv, NEW written \in BOOLEAN, NEW deferred \in BOOLEAN,
         ApplyFile(written, deferred)
  PROVE  ChainInv'
<1> DEFINE m == Min(Unapplied)
           snap == Snapshot(schema', history')
<1>1. /\ Unapplied # {} /\ ~Skipped(m) /\ Executable(chain[m], schema)
      /\ schema' = Executed(schema, chain[m]) /\ history' = history \cup {m}
      /\ run' = [at |-> m, applied |-> run.applied \cup {m}, deferred |-> deferred]
      /\ snapshots' = With(snapshots, [w \in {m} |-> snap]) \/ UNCHANGED snapshots
      /\ UNCHANGED left \/ Spend("fault")
      /\ UNCHANGED <<models, chain, record, goal>>
  BY DEF ApplyFile
<1>2. /\ m \in DOMAIN chain \ history /\ \A h \in history : h < m
      /\ \A v \in DOMAIN chain \ history : v <= m => v <= run.at \/ v = m
  BY <1>1, NextFile
<1> HIDE DEF m, snap
<1>3. /\ DOMAIN chain \subseteq Numbers /\ DOMAIN chain \subseteq Nat
      /\ history \subseteq DOMAIN chain /\ run.applied \subseteq history
      /\ \A v \in DOMAIN chain : chain[v] \in File /\ Sound(chain[v])
  BY ChainNumbers DEF Numbers, ChainInv, ChainType
<1>4. schema \in Schemas /\ schema' \in Schemas
  BY <1>1, <1>2, <1>3 DEF ChainInv, ChainType, Executed, Schemas, File
<1>5. /\ left' \in [edit : Nat, rollback : 0 .. MaxRollbacks, delete : Nat, fault : Nat]
      /\ left'.rollback = left.rollback
  BY <1>1, SpendKeeps DEF ChainInv, ChainType
<1>6. Replay(chain, {}, history \cup {m}) = [state |-> schema', ok |-> TRUE]
  <2> DEFINE x == Replay(chain, {}, history)
             y == Replay(chain, x.state, {m})
  <2>1. x = Replay(chain, {}, history) /\ y = Replay(chain, x.state, {m})
    OBVIOUS
  <2>2. x = [state |-> schema, ok |-> TRUE]
    BY DEF ChainInv, Migrated
  <2>3. y = [state |-> schema', ok |-> TRUE]
    <3>1. y = Replay(chain, schema, {m}) /\ m \in Numbers /\ chain[m] \in File
      BY <1>2, <1>3, <2>2
    <3>2. y = [state |-> Executed(schema, chain[m]), ok |-> Executable(chain[m], schema)]
      BY <1>4, <3>1, ReplayOne
    <3>3. Executable(chain[m], schema) = TRUE
      BY <1>1 DEF Executable
    <3> QED BY <1>1, <3>2, <3>3
  <2> HIDE DEF x, y
  <2>4. {} \in Schemas /\ Files(chain, history) /\ Files(chain, {m}) /\ Below(history, {m})
    BY <1>2, <1>3 DEF Schemas, Files, Below
  <2>5. Replay(chain, {}, history \cup {m}) = [state |-> y.state, ok |-> x.ok /\ y.ok]
    BY <2>1, <2>4, ReplaySplit
  <2> QED BY <2>2, <2>3, <2>5
<1>7. /\ DOMAIN snapshots' \subseteq Numbers
      /\ \A v \in DOMAIN snapshots' : snapshots'[v] \in Taken
      /\ ~RolledBack => \A v \in DOMAIN snapshots' :
           Led(chain, history', snapshots'[v].state, snapshots'[v].applied)
  <2>1. ASSUME ~RolledBack, NEW v \in DOMAIN snapshots
        PROVE  Reached(snapshots[v].state, snapshots[v].applied)
    BY <2>1 DEF ChainInv, Known
  <2>2. ASSUME NEW state, NEW without, Reached(state, without)
        PROVE  Led(chain, history', state, without)
    <3>1. Reached(state, without)'
      BY <1>1, <1>2, <1>3, <2>2, ReachedGrows
    <3> QED BY <1>1, <3>1 DEF Reached
  <2>3. CASE UNCHANGED snapshots
    BY <2>1, <2>2, <2>3 DEF ChainInv, ChainType
  <2>4. CASE snapshots' = With(snapshots, [w \in {m} |-> snap])
    <3>1. /\ DOMAIN snapshots' = DOMAIN snapshots \cup {m}
          /\ \A v \in DOMAIN snapshots' :
               snapshots'[v] = IF v = m THEN snap ELSE snapshots[v]
      BY <2>4 DEF With
    <3>2. history' \subseteq DOMAIN chain /\ ChainType
      BY <1>1, <1>2, <1>3 DEF ChainInv
    <3>3. snap \in Taken
      BY <1>4, <3>2, SnapshotType DEF snap
    <3>4. ASSUME ~RolledBack PROVE Led(chain, history', snap.state, snap.applied)
      <4>1. record # None /\ record.based => Baselined
        BY <3>4 DEF ChainInv, Known
      <4>2. \A h \in history, v \in history' : v < h => v \in history
        BY <1>1, <1>2, <1>3
      <4>3. snap.state = schema' /\ snap.applied = history'
        BY <1>1, <1>4, <1>6, <3>2, <4>1, <4>2, SnapshotTrue DEF snap
      <4> QED BY <1>1, <1>6, <4>3 DEF Led
    <3> QED BY <1>2, <1>3, <2>1, <2>2, <3>1, <3>3, <3>4 DEF ChainInv, ChainType
  <2> QED BY <1>1, <2>3, <2>4
<1>8. ChainType'
  <2>1. run' \in [at : Nat, applied : SUBSET Numbers, deferred : BOOLEAN]
    BY <1>1, <1>2, <1>3
  <2>2. run'.applied \subseteq history' /\ history' \subseteq DOMAIN chain'
    BY <1>1, <1>2, <1>3
  <2> QED BY <1>1, <1>4, <1>5, <1>7, <2>1, <2>2 DEF ChainInv, ChainType, Directory
<1>9. Placed'
  <2> SUFFICES ASSUME NEW v \in DOMAIN chain \ history',
                      v <= m \/ (\E h \in history' : v < h)
               PROVE  \E w \in DOMAIN chain : w < v /\ SameStatements(w, v)
    BY <1>1 DEF Placed, SameStatements
  <2>1. v # m /\ v \in DOMAIN chain \ history /\ v \in Nat /\ m \in Nat
    BY <1>1, <1>2, <1>3
  <2>2. v <= m => v <= run.at
    BY <1>2, <2>1
  <2>3. v <= run.at \/ (\E h \in history : v < h)
    BY <1>1, <2>1, <2>2
  <2> QED BY <2>1, <2>3 DEF ChainInv, Placed
<1>10. Migrated'
  BY <1>1, <1>6 DEF Migrated
<1>11. Promised'
  BY <1>1 DEF ChainInv, Promised, Repeated, SameStatements
<1>12. Known'
  <2>1. RolledBack' = RolledBack
    BY <1>5 DEF RolledBack
  <2>2. ASSUME Baselined PROVE Baselined'
    <3>1. CASE Reached(record.base, record.applied)
      <4>1. Reached(record.base, record.applied)'
        BY <1>1, <1>2, <1>3, <3>1, ReachedGrows DEF Reached
      <4> QED BY <4>1 DEF Baselined
    <3>2. CASE \E v \in history \ record.applied : ~chain[v].planned
      BY <1>1, <3>2 DEF Baselined
    <3> QED BY <2>2, <3>1, <3>2 DEF Baselined
  <2>3. ASSUME ~RolledBack, NEW v \in DOMAIN snapshots'
        PROVE  Reached(snapshots[v].state, snapshots[v].applied)'
    BY <1>1, <1>7, <2>3 DEF Reached
  <2> QED BY <1>1, <2>1, <2>2, <2>3 DEF ChainInv, Known
<1> QED BY <1>8, <1>9, <1>10, <1>11, <1>12 DEF ChainInv

LEMMA RollbackKeeps ==
  ASSUME ChainInv, Rollback
  PROVE  ChainInv'
<1> DEFINE m == Max(history)
           rest == history \ {m}
<1>1. /\ run = Idle /\ history # {} /\ m \in DOMAIN chain /\ Spend("rollback")
      /\ schema' = (schema \ chain[m].add) \cup chain[m].drop
      /\ history' = rest
      /\ UNCHANGED <<models, chain, record, snapshots, run, goal>>
  BY DEF Rollback, project
<1>2. /\ DOMAIN chain \subseteq Numbers /\ DOMAIN chain \subseteq Nat
      /\ history \subseteq DOMAIN chain /\ history \subseteq Numbers
      /\ \A v \in DOMAIN chain : chain[v] \in File /\ Sound(chain[v])
  BY ChainNumbers DEF Numbers, ChainInv, ChainType
<1>3. m \in history /\ \A h \in history : h <= m
  BY <1>1, <1>2, MaxIsElement
<1> HIDE DEF m
<1>4. /\ left' \in [edit : Nat, rollback : 0 .. MaxRollbacks, delete : Nat, fault : Nat]
      /\ left'.rollback < MaxRollbacks
  <2>1. left \in [edit : Nat, rollback : 0 .. MaxRollbacks, delete : Nat, fault : Nat]
    BY DEF ChainInv, ChainType
  <2>2. left["rollback"] > 0 /\ left' = [left EXCEPT !["rollback"] = @ - 1]
    BY <1>1 DEF Spend
  <2>3. MaxRollbacks \in Nat
    BY BoundsAssumption
  <2> QED BY <2>1, <2>2, <2>3
<1>5. RolledBack'
  BY <1>4, BoundsAssumption DEF RolledBack
<1> DEFINE x == Replay(chain, {}, rest)
           y == Replay(chain, x.state, {m})
<1>6. x = Replay(chain, {}, rest) /\ y = Replay(chain, x.state, {m})
  OBVIOUS
<1>7. /\ {} \in Schemas /\ Files(chain, rest) /\ Files(chain, {m}) /\ Below(rest, {m})
      /\ rest \cup {m} = history
  <2>1. \A h \in rest : h < m
    BY <1>2, <1>3
  <2> QED BY <1>2, <1>3, <2>1 DEF Schemas, Files, Below
<1>8. x \in Stage
  BY <1>7, ReplayType DEF Files
<1>9. y = [state |-> Executed(x.state, chain[m]), ok |-> Executable(chain[m], x.state)]
  <2>1. m \in Numbers /\ chain[m] \in File /\ x.state \in Schemas
    BY <1>2, <1>3, <1>8 DEF Stage
  <2> HIDE DEF x
  <2> QED BY <2>1, ReplayOne
<1> HIDE DEF x, y
<1>10. Replay(chain, {}, history) = [state |-> y.state, ok |-> x.ok /\ y.ok]
  <2> HIDE DEF rest
  <2>1. Replay(chain, {}, rest \cup {m}) = [state |-> y.state, ok |-> x.ok /\ y.ok]
    BY <1>6, <1>7, ReplaySplit
  <2> QED BY <1>7, <2>1
<1>11. y.state = schema /\ (x.ok /\ y.ok) = TRUE
  <2> DEFINE r == Replay(chain, {}, history)
  <2>1. r = [state |-> schema, ok |-> TRUE]
    BY DEF ChainInv, Migrated
  <2>2. r.state = schema /\ r.ok = TRUE
    BY <2>1
  <2>3. r.state = y.state /\ r.ok = (x.ok /\ y.ok)
    BY <1>10
  <2> QED BY <2>2, <2>3
<1>12. x.ok = TRUE /\ Executable(chain[m], x.state) /\ schema = Executed(x.state, chain[m])
  BY <1>8, <1>9, <1>11 DEF Stage
<1>13. schema' = x.state
  BY <1>1, <1>12 DEF Executable, Executed
<1>14. x = [state |-> schema', ok |-> TRUE] /\ schema' \in Schemas
  BY <1>8, <1>12, <1>13 DEF Stage
<1>15. Migrated'
  BY <1>1, <1>6, <1>14 DEF Migrated
<1>16. ChainType'
  <2>1. run.applied = {} /\ history' \subseteq DOMAIN chain
    BY <1>1, <1>2 DEF Idle
  <2> QED BY <1>1, <1>4, <1>14, <2>1 DEF ChainInv, ChainType, Directory
<1>17. Placed'
  <2> SUFFICES ASSUME NEW v \in DOMAIN chain \ history', NEW h \in history',
                      v <= run.at \/ v < h
               PROVE  \E w \in DOMAIN chain : w < v /\ SameStatements(w, v)
    <3>1. \A v \in DOMAIN chain : ~(v <= run.at)
      BY <1>1, <1>2 DEF Idle, Numbers
    <3> QED BY <1>1, <3>1 DEF Placed, SameStatements
  <2>1. v \in Nat /\ h \in Nat /\ m \in Nat /\ h \in history /\ h <= m
    BY <1>1, <1>2, <1>3
  <2>2. ~(v <= run.at)
    BY <1>1, <1>2 DEF Idle, Numbers
  <2>3. v \notin history
    BY <1>1, <2>1, <2>2
  <2> QED BY <2>1, <2>2, <2>3 DEF ChainInv, Placed
<1>18. Promised'
  BY <1>1 DEF ChainInv, Promised, Repeated, SameStatements
<1>19. Known'
  BY <1>5 DEF Known
<1> QED BY <1>15, <1>16, <1>17, <1>18, <1>19 DEF ChainInv

LEMMA DeleteFileKeeps ==
  ASSUME ChainInv, NEW v \in Numbers, DeleteFile(v)
  PROVE  ChainInv'
<1>1. /\ run = Idle /\ v \in DOMAIN chain \ history /\ v = Max(DOMAIN chain) /\ Spend("delete")
      /\ chain' = [w \in DOMAIN chain \ {v} |-> chain[w]] /\ goal' = None
      /\ UNCHANGED <<models, record, snapshots, schema, history, run>>
  BY DEF DeleteFile, database
<1>2. /\ DOMAIN chain \subseteq Numbers /\ DOMAIN chain \subseteq Nat
      /\ history \subseteq DOMAIN chain
      /\ \A w \in DOMAIN chain : chain[w] \in File /\ Sound(chain[w])
  BY ChainNumbers DEF Numbers, ChainInv, ChainType
<1>3. PICK n \in 0 .. MaxVersion : DOMAIN chain = 1 .. n
  BY DEF ChainInv, ChainType, Directory
<1>4. v = n /\ n # 0
  <2>1. n \in 1 .. n
    BY <1>1, <1>3
  <2>2. n <= v
    BY <1>1, <1>2, <1>3, <2>1, MaxIsElement
  <2> QED BY <1>1, <1>3, <2>1, <2>2
<1>5. DOMAIN chain' = 1 .. (n - 1) /\ n - 1 \in 0 .. MaxVersion
  <2>1. DOMAIN chain' = (1 .. n) \ {n}
    BY <1>1, <1>3, <1>4
  <2>2. n \in Nat /\ n <= MaxVersion /\ MaxVersion \in Nat
    BY BoundsAssumption
  <2> QED BY <1>4, <2>1, <2>2
<1>6. \A w \in DOMAIN chain' : w \in DOMAIN chain /\ w # v /\ chain'[w] = chain[w]
  BY <1>1
<1>7. \A h \in history : h \in DOMAIN chain' /\ chain'[h] = chain[h]
  BY <1>1, <1>2
<1>8. Directory(chain')
  <2>1. chain' = [w \in 1 .. (n - 1) |-> chain'[w]]
    BY <1>1, <1>5, <1>6
  <2> QED BY <1>2, <1>5, <1>6, <2>1 DEF Directory
<1>9. /\ left' \in [edit : Nat, rollback : 0 .. MaxRollbacks, delete : Nat, fault : Nat]
      /\ left'.rollback = left.rollback
  BY <1>1, SpendKeeps DEF ChainInv
<1>10. ChainType'
  <2>1. history' \subseteq DOMAIN chain'
    BY <1>1, <1>7
  <2> QED BY <1>1, <1>8, <1>9, <2>1 DEF ChainInv, ChainType
<1>11. Placed'
  <2> SUFFICES ASSUME NEW u \in DOMAIN chain' \ history,
                      u <= run.at \/ (\E h \in history : u < h)
               PROVE  \E w \in DOMAIN chain' :
                        /\ w < u
                        /\ chain'[w].add = chain'[u].add /\ chain'[w].drop = chain'[u].drop
    BY <1>1 DEF Placed, SameStatements
  <2>1. u \in DOMAIN chain \ history /\ chain'[u] = chain[u]
    BY <1>6
  <2>2. PICK w \in DOMAIN chain : w < u /\ SameStatements(w, u)
    BY <2>1 DEF ChainInv, Placed
  <2>3. w \in DOMAIN chain'
    BY <1>3, <1>5, <2>2
  <2> QED BY <1>6, <2>1, <2>2, <2>3 DEF SameStatements
<1>12. Migrated'
  BY <1>1, <1>7, MigratedStays DEF ChainInv, database
<1>13. Promised'
  BY <1>1 DEF Promised
<1>14. Known'
  BY <1>1, <1>6, <1>7, <1>9, KnownStays DEF ChainInv
<1> QED BY <1>10, <1>11, <1>12, <1>13, <1>14 DEF ChainInv

(* The files that a generation writes lead from what it starts from to the *)
(* models, each of them based on the one before.                           *)
Bridges(new, n, from, to) ==
  \E g \in 0 .. 2 :
    /\ DOMAIN new = (n + 1) .. (n + g)
    /\ \A v \in DOMAIN new : new[v] \in File /\ Sound(new[v])
    /\ g = 0 => from = to
    /\ g > 0 => new[n + 1].base = from
    /\ g = 1 => new[n + 1].target = to
    /\ g = 2 => new[n + 2].base = new[n + 1].target /\ new[n + 2].target = to

LEMMA Newest ==
  ASSUME ChainType, NEW n \in 0 .. MaxVersion, DOMAIN chain = 1 .. n
  PROVE  (IF chain = << >> THEN 0 ELSE Max(DOMAIN chain)) = n
<1>1. CASE chain = << >>
  <2>1. DOMAIN chain = {}
    BY <1>1
  <2>2. ~(1 \in 1 .. n)
    BY <2>1
  <2> QED BY <1>1, <2>2
<1>2. CASE chain # << >>
  <2>1. n # 0
    <3> SUFFICES ASSUME n = 0 PROVE FALSE
      OBVIOUS
    <3>1. PICK k \in 0 .. MaxVersion : DOMAIN chain = 1 .. k /\ chain = [v \in 1 .. k |-> chain[v]]
      BY DEF ChainType, Directory
    <3>2. 1 .. k = {} /\ 1 .. 0 = {}
      BY <3>1
    <3>3. chain = [v \in {} |-> chain[v]]
      BY <3>1, <3>2
    <3>4. << >> = [v \in {} |-> chain[v]]
      OBVIOUS
    <3> QED BY <1>2, <3>3, <3>4
  <2>2. DOMAIN chain \subseteq Numbers /\ n \in DOMAIN chain /\ 1 .. n \subseteq Nat
    BY <2>1, ChainNumbers
  <2>3. Max(DOMAIN chain) \in 1 .. n /\ n <= Max(DOMAIN chain)
    BY <2>2, MaxIsElement
  <2> QED BY <1>2, <2>3
<1> QED BY <1>1, <1>2

LEMMA ArtifactsBridge ==
  ASSUME ChainType, NEW from \in Schemas, NEW split \in BOOLEAN,
         NEW n \in 0 .. MaxVersion, DOMAIN chain = 1 .. n
  PROVE  Bridges(Artifacts(from, split), n, from, models)
<1> DEFINE add == models \ from
           drop == from \ models
           groups == Groups(add, drop, split)
           number(i) == i + n
           base(i) == IF i = 1 THEN from ELSE Executed(from, groups[1])
           file(i) == [add |-> groups[i].add, drop |-> groups[i].drop, role |-> groups[i].role,
                       base |-> base(i), target |-> Executed(base(i), groups[i]),
                       planned |-> TRUE]
           new == [v \in {number(i) : i \in DOMAIN groups} |->
                    file(CHOOSE j \in DOMAIN groups : number(j) = v)]
<1>1. Artifacts(from, split) = new
  BY Newest DEF Artifacts
<1>2. models \in Schemas /\ add \in Schemas /\ drop \in Schemas /\ {} \in Schemas
  BY DEF ChainType, Schemas
<1>3. CASE add \cup drop = {}
  <2>1. groups = << >>
    BY <1>3 DEF Groups
  <2>2. DOMAIN new = {} /\ (n + 1) .. (n + 0) = {}
    BY <2>1
  <2>3. from = models
    BY <1>3, <1>2 DEF Schemas
  <2> HIDE DEF new
  <2>4. Bridges(new, n, from, models)
    BY <2>2, <2>3 DEF Bridges
  <2> QED BY <1>1, <2>4
<1>4. ASSUME NEW role \in {"unsplit", "deferred"},
             groups = <<[add |-> add, drop |-> drop, role |-> role]>>
      PROVE  Bridges(new, n, from, models)
  <2>1. DOMAIN groups = {1} /\ groups[1] = [add |-> add, drop |-> drop, role |-> role]
    BY <1>4
  <2> HIDE DEF groups, add, drop
  <2>2. DOMAIN new = {n + 1} /\ (n + 1) .. (n + 1) = {n + 1}
    BY <2>1
  <2>3. (CHOOSE j \in DOMAIN groups : number(j) = n + 1) = 1
    BY <2>1
  <2>4. new[n + 1] = file(1)
    BY <2>2, <2>3
  <2>5. file(1) = [add |-> add, drop |-> drop, role |-> role, base |-> from,
                   target |-> Executed(from, groups[1]), planned |-> TRUE]
    BY <2>1
  <2>6. Executed(from, groups[1]) = models
    BY <1>2, <2>1 DEF Executed, add, drop, Schemas
  <2>7. file(1) \in File /\ Sound(file(1)) /\ file(1).base = from /\ file(1).target = models
    <3>1. file(1) = [add |-> add, drop |-> drop, role |-> role, base |-> from,
                     target |-> models, planned |-> TRUE]
      BY <2>5, <2>6
    <3>2. file(1) \in File
      BY <1>2, <3>1 DEF File
    <3>3. /\ file(1).add = add /\ file(1).drop = drop
          /\ file(1).base = from /\ file(1).target = models
      BY <3>1
    <3> HIDE DEF file
    <3>4. Sound(file(1))
      BY <1>2, <3>3 DEF Sound, Executable, Executed, add, drop, Schemas
    <3> QED BY <3>2, <3>3, <3>4
  <2> HIDE DEF new, file
  <2> QED BY <2>2, <2>4, <2>7 DEF Bridges
<1>5. ASSUME groups = <<[add |-> add, drop |-> {}, role |-> "base"],
                        [add |-> {}, drop |-> drop, role |-> "deferred"]>>
      PROVE  Bridges(new, n, from, models)
  <2> DEFINE one == [add |-> add, drop |-> {}, role |-> "base"]
             two == [add |-> {}, drop |-> drop, role |-> "deferred"]
             mid == Executed(from, one)
  <2>1. DOMAIN groups = {1, 2} /\ groups[1] = one /\ groups[2] = two
    BY <1>5
  <2> HIDE DEF groups
  <2>2. DOMAIN new = {n + 1, n + 2} /\ (n + 1) .. (n + 2) = {n + 1, n + 2}
    BY <2>1
  <2>3. /\ (CHOOSE j \in DOMAIN groups : number(j) = n + 1) = 1
        /\ (CHOOSE j \in DOMAIN groups : number(j) = n + 2) = 2
    BY <2>1
  <2>4. new[n + 1] = file(1) /\ new[n + 2] = file(2)
    BY <2>2, <2>3
  <2>5. mid = from \cup add /\ Executed(mid, two) = models /\ mid \in Schemas
    BY <1>2 DEF Executed, Schemas
  <2>6. file(1) = [add |-> add, drop |-> {}, role |-> "base", base |-> from,
                   target |-> mid, planned |-> TRUE]
    BY <2>1
  <2>7. file(2) = [add |-> {}, drop |-> drop, role |-> "deferred", base |-> mid,
                   target |-> models, planned |-> TRUE]
    <3>1. base(2) = mid
      BY <2>1
    <3>2. Executed(base(2), groups[2]) = models
      BY <2>1, <2>5, <3>1
    <3>3. groups[2].add = {} /\ groups[2].drop = drop /\ groups[2].role = "deferred"
      BY <2>1
    <3> HIDE DEF base, mid
    <3> QED BY <3>1, <3>2, <3>3
  <2>8. file(1) \in File /\ file(2) \in File
    BY <1>2, <2>5, <2>6, <2>7 DEF File
  <2>9. /\ file(1).add = add /\ file(1).drop = {} /\ file(1).base = from /\ file(1).target = mid
        /\ file(2).add = {} /\ file(2).drop = drop /\ file(2).base = mid
        /\ file(2).target = models
    BY <2>6, <2>7
  <2> HIDE DEF file
  <2>10. Sound(file(1))
    BY <2>5, <2>9 DEF Sound, Executable, Executed
  <2>11. Sound(file(2))
    BY <1>2, <2>5, <2>9 DEF Sound, Executable, Executed, Schemas
  <2> HIDE DEF new, mid
  <2> QED BY <2>2, <2>4, <2>8, <2>9, <2>10, <2>11 DEF Bridges
<1> QED
  <2>1. CASE add \cup drop # {} /\ (~split \/ drop = {})
    <3>1. groups = <<[add |-> add, drop |-> drop, role |-> "unsplit"]>>
      BY <2>1 DEF Groups
    <3> HIDE DEF groups, add, drop, new
    <3> QED BY <1>1, <1>4, <3>1
  <2>2. CASE split /\ drop # {} /\ add = {}
    <3>1. groups = <<[add |-> {}, drop |-> drop, role |-> "deferred"]>>
      BY <2>2 DEF Groups
    <3>2. groups = <<[add |-> add, drop |-> drop, role |-> "deferred"]>>
      BY <2>2, <3>1
    <3> HIDE DEF groups, add, drop, new
    <3> QED BY <1>1, <1>4, <3>2
  <2>3. CASE split /\ drop # {} /\ add # {}
    <3>1. groups = <<[add |-> add, drop |-> {}, role |-> "base"],
                     [add |-> {}, drop |-> drop, role |-> "deferred"]>>
      BY <2>3 DEF Groups
    <3> HIDE DEF groups, add, drop, new
    <3> QED BY <1>1, <1>5, <3>1
  <2> QED BY <1>3, <2>1, <2>2, <2>3

(* A file that is based on what the others lead to.                        *)
LEMMA ReplayExtend ==
  ASSUME NEW directory, NEW A, NEW v \in Numbers, NEW state \in Schemas,
         Files(directory, A), Files(directory, {v}), Below(A, {v}),
         Replay(directory, {}, A) = [state |-> state, ok |-> TRUE], directory[v].base = state
  PROVE  Replay(directory, {}, A \cup {v}) = [state |-> directory[v].target, ok |-> TRUE]
<1> DEFINE x == Replay(directory, {}, A)
           y == Replay(directory, x.state, {v})
<1>1. x = Replay(directory, {}, A) /\ y = Replay(directory, x.state, {v})
  OBVIOUS
<1>2. x = [state |-> state, ok |-> TRUE] /\ {} \in Schemas
  BY DEF Schemas
<1>3. directory[v] \in File /\ Sound(directory[v])
  BY DEF Files
<1>4. y = [state |-> Executed(state, directory[v]), ok |-> Executable(directory[v], state)]
  BY <1>2, <1>3, ReplayOne
<1>5. Executable(directory[v], state) = TRUE /\ Executed(state, directory[v]) = directory[v].target
  BY <1>3 DEF Sound, Executable
<1> HIDE DEF x, y
<1>6. Replay(directory, {}, A \cup {v}) = [state |-> y.state, ok |-> x.ok /\ y.ok]
  BY <1>1, <1>2, ReplaySplit
<1> QED BY <1>2, <1>4, <1>5, <1>6

(* New files are put after those that are there, between two commands.     *)
LEMMA ChainGrows ==
  ASSUME ChainInv, run = Idle, UNCHANGED <<database, run>>, NEW n \in 0 .. MaxVersion,
         DOMAIN chain = 1 .. n, NEW k \in n .. MaxVersion, NEW new,
         DOMAIN new = (n + 1) .. k, \A v \in DOMAIN new : new[v] \in File /\ Sound(new[v]),
         chain' = With(chain, new)
  PROVE  /\ Directory(chain') /\ DOMAIN chain' = 1 .. k /\ history \subseteq DOMAIN chain'
         /\ \A v \in DOMAIN chain : v \in DOMAIN chain' /\ chain'[v] = chain[v]
         /\ \A v \in DOMAIN new : chain'[v] = new[v]
         /\ Placed' /\ Migrated'
<1>1. MaxVersion \in Nat /\ n \in Nat /\ k \in Nat /\ n <= k /\ k <= MaxVersion
  BY BoundsAssumption
<1>2. DOMAIN chain' = 1 .. k
  BY <1>1 DEF With
<1>3. /\ \A v \in DOMAIN chain : v \in DOMAIN chain' /\ v \notin DOMAIN new /\ chain'[v] = chain[v]
      /\ \A v \in DOMAIN new : chain'[v] = new[v]
  BY <1>1, <1>2 DEF With
<1>4. \A v \in DOMAIN chain' : v \in DOMAIN chain \/ v \in DOMAIN new
  BY <1>1, <1>2
<1>5. Directory(chain')
  <2>1. chain' = [v \in 1 .. k |-> chain'[v]]
    BY <1>2 DEF With
  <2>2. \A v \in DOMAIN chain' : chain'[v] \in File /\ Sound(chain'[v])
    BY <1>3, <1>4, ChainNumbers DEF ChainInv
  <2> QED BY <1>1, <1>2, <2>1, <2>2 DEF Directory
<1>6. history \subseteq DOMAIN chain /\ UNCHANGED <<history, schema, run>>
  BY DEF ChainInv, ChainType, database
<1>7. Placed'
  <2> SUFFICES ASSUME NEW u \in DOMAIN chain' \ history,
                      u <= run.at \/ (\E h \in history : u < h)
               PROVE  \E w \in DOMAIN chain' :
                        /\ w < u
                        /\ chain'[w].add = chain'[u].add /\ chain'[w].drop = chain'[u].drop
    BY <1>6 DEF Placed, SameStatements
  <2>1. ~(u <= run.at)
    BY <1>1, <1>2 DEF Idle
  <2>2. u \in DOMAIN chain \ history
    <3>1. PICK h \in history : u < h
      BY <2>1
    <3> QED BY <1>1, <1>2, <1>6, <3>1
  <2>3. PICK w \in DOMAIN chain : w < u /\ SameStatements(w, u)
    BY <2>1, <2>2 DEF ChainInv, Placed
  <2> QED BY <1>3, <2>2, <2>3 DEF SameStatements
<1>8. Migrated'
  BY <1>3, <1>6, MigratedStays DEF ChainInv
<1> QED BY <1>2, <1>3, <1>5, <1>6, <1>7, <1>8

LEMMA NothingBefore ==
  ASSUME ChainInv, history # {}
  PROVE  1 \in history
<1>1. PICK n \in 0 .. MaxVersion : DOMAIN chain = 1 .. n
  BY DEF ChainInv, ChainType, Directory
<1>2. PICK h \in history : TRUE
  OBVIOUS
<1>3. h \in 1 .. n /\ 1 \in DOMAIN chain
  BY <1>1 DEF ChainInv, ChainType
<1>4. CASE 1 \notin history
  <2>1. 1 < h
    BY <1>3, <1>4
  <2>2. PICK w \in DOMAIN chain : w < 1
    BY <1>3, <1>4, <2>1 DEF ChainInv, Placed
  <2> QED BY <1>1, <2>2
<1> QED BY <1>4

(* What generation starts from, while nothing is rolled back.              *)
LEMMA BaselineKnown ==
  ASSUME ChainInv, NEW offline \in BOOLEAN, NEW b, b = Baseline(offline), b # None,
         NEW e, e = Effective(b.state, DOMAIN chain, b.applied)
  PROVE  /\ b.state \in Schemas /\ b.applied \subseteq Numbers
         /\ Composes(e, b.state, DOMAIN chain \ b.applied)
         /\ e.ok /\ ~RolledBack =>
              \/ Reached(b.state, b.applied)
              \/ e.planless /\ \E v \in history \ b.applied : ~chain[v].planned
<1>1. /\ DOMAIN chain \subseteq Numbers /\ Files(chain, DOMAIN chain)
      /\ history \subseteq DOMAIN chain /\ {} \in Schemas
  BY ChainNumbers DEF ChainInv, ChainType, Files, Schemas
<1>2. ASSUME b.state \in Schemas PROVE Composes(e, b.state, DOMAIN chain \ b.applied)
  BY <1>1, <1>2, EffectiveReplays
<1> DEFINE Planless == \E v \in history \ b.applied : ~chain[v].planned
<1>3. ASSUME b.state \in Schemas, Planless PROVE e.planless
  <2>1. PICK v \in DOMAIN chain \ b.applied : ~chain[v].planned
    BY <1>1, <1>3
  <2>2. Composes(e, b.state, DOMAIN chain \ b.applied)
    BY <1>2, <1>3
  <2>3. e.planless \in BOOLEAN
    BY <2>2 DEF Composes, Outcome
  <2> QED BY <2>1, <2>2, <2>3 DEF Composes
<1> SUFFICES /\ b.state \in Schemas /\ b.applied \subseteq Numbers
             /\ e.ok /\ ~RolledBack => Reached(b.state, b.applied) \/ Planless
  BY <1>2, <1>3
<1>4. CASE Latest # None
  <2> DEFINE k == Max(DOMAIN snapshots)
  <2>1. k \in DOMAIN snapshots /\ Latest = snapshots[k]
    <3>1. DOMAIN snapshots # {} /\ DOMAIN snapshots \subseteq Numbers
      BY <1>4 DEF Latest, ChainInv, ChainType
    <3> QED BY <3>1, MaxIsElement DEF Latest
  <2> HIDE DEF k
  <2>2. b = [state |-> snapshots[k].state, applied |-> snapshots[k].applied]
    BY <1>4, <2>1 DEF Baseline
  <2>3. snapshots[k] \in Taken
    BY <2>1 DEF ChainInv, ChainType
  <2>4. ~RolledBack => Reached(snapshots[k].state, snapshots[k].applied)
    BY <2>1 DEF ChainInv, Known
  <2> QED BY <2>2, <2>3, <2>4 DEF Taken
<1>5. CASE Latest = None /\ record # None /\ record.based
  <2>1. b = [state |-> record.base, applied |-> record.applied]
    BY <1>5 DEF Baseline
  <2>2. record \in Records
    BY <1>5 DEF ChainInv, ChainType
  <2>3. ~RolledBack => Baselined
    BY <1>5 DEF ChainInv, Known
  <2>4. b.state = record.base /\ b.applied = record.applied
    BY <2>1
  <2> QED BY <2>2, <2>3, <2>4 DEF Records, Baselined
<1>6. CASE Latest = None /\ ~(record # None /\ record.based) /\ ~offline
  <2>1. b = [state |-> schema, applied |-> history]
    BY <1>6 DEF Baseline
  <2>2. schema \in Schemas /\ Reached(schema, history)
    BY DEF ChainInv, ChainType, Reached, Led, Migrated
  <2> QED BY <1>1, <2>1, <2>2
<1>7. CASE Latest = None /\ ~(record # None /\ record.based) /\ offline
  <2>1. record # None /\ ~record.based
        /\ b = [state |-> IF chain = << >> THEN {} ELSE record.target, applied |-> {}]
    BY <1>7 DEF Baseline
  <2>2. record \in Records
    BY <2>1 DEF ChainInv, ChainType
  <2>3. b.state \in Schemas /\ b.applied = {}
    BY <1>1, <2>1, <2>2 DEF Records
  <2>4. Reached({}, {})
    BY <1>1, ReplayNone DEF Reached, Led
  <2>5. ASSUME e.ok, ~RolledBack, b.state # {} PROVE Planless
    <3>1. b.state = record.target /\ record.target # {}
      BY <2>1, <2>5
    <3>2. history # {}
      BY <2>1, <2>5, <3>1 DEF ChainInv, Known
    <3>3. 1 \in history /\ 1 \in DOMAIN chain
      BY <1>1, <3>2, NothingBefore
    <3>4. chain[1].base = {}
      BY <2>5, <3>3 DEF ChainInv, Known
    <3>5. \A w \in DOMAIN chain : 1 <= w
      BY <1>1 DEF Numbers
    <3>6. ~(chain[1].planned)
      <4>1. Composes(e, b.state, DOMAIN chain \ b.applied)
        BY <1>2, <2>3
      <4>2. DOMAIN chain \ b.applied = DOMAIN chain
        BY <2>3
      <4> QED BY <2>5, <3>3, <3>4, <3>5, <4>1, <4>2 DEF Composes
    <3> QED BY <2>3, <3>3, <3>6
  <2> HIDE DEF Planless
  <2> QED BY <2>3, <2>4, <2>5
<1> QED BY <1>4, <1>5, <1>6, <1>7

LEMMA NothingYet ==
  ASSUME ChainInv, NEW offline \in BOOLEAN, NEW b, b = Baseline(offline), b # None,
         NEW e, e = Effective(b.state, DOMAIN chain, b.applied), e.ok, ~RolledBack,
         DOMAIN chain = {}
  PROVE  e.state = {}
<1>1. /\ Composes(e, b.state, DOMAIN chain \ b.applied)
      /\ Reached(b.state, b.applied) \/ \E v \in history \ b.applied : ~chain[v].planned
  BY BaselineKnown
<1>2. history = {} /\ {} \in Schemas
  BY DEF ChainInv, ChainType, Schemas
<1>3. b.applied = {} /\ Replay(chain, {}, b.applied) = [state |-> b.state, ok |-> TRUE]
  BY <1>1, <1>2 DEF Reached, Led
<1>4. b.state = {}
  BY <1>2, <1>3, ReplayNone
<1> QED BY <1>1, <1>4 DEF Composes

LEMMA KnownGrows ==
  ASSUME ChainInv, UNCHANGED <<snapshots, history>>, left'.rollback = left.rollback,
         \A v \in history : chain'[v] = chain[v],
         ~RolledBack => (record # None /\ record.based => Baselined)',
         ~RolledBack => (record # None /\ ~record.based => record.target = {} \/ history # {})',
         ~RolledBack => (1 \in DOMAIN chain => chain[1].base = {})'
  PROVE  Known'
<1>1. RolledBack' = RolledBack
  BY DEF RolledBack
<1>2. ASSUME ~RolledBack, NEW v \in DOMAIN snapshots
      PROVE  Reached(snapshots[v].state, snapshots[v].applied)'
  <2>1. Reached(snapshots[v].state, snapshots[v].applied)
    BY <1>2 DEF ChainInv, Known
  <2>2. ChainType
    BY DEF ChainInv
  <2> QED BY <2>1, <2>2, ReachedStays DEF Reached
<1> QED BY <1>1, <1>2 DEF Known

(* A generation that promises has started from the truth.                  *)
LEMMA TrueStart ==
  ASSUME ChainInv, ~Repeated, NEW offline \in BOOLEAN,
         NEW b, b = Baseline(offline), b # None,
         NEW e, e = Effective(b.state, DOMAIN chain, b.applied), e.ok, Promise(b, e) # None
  PROVE  Replay(chain, {}, DOMAIN chain) = [state |-> e.state, ok |-> TRUE]
<1>1. /\ b.state \in Schemas /\ b.applied \subseteq Numbers
      /\ Composes(e, b.state, DOMAIN chain \ b.applied)
      /\ ~RolledBack => Reached(b.state, b.applied) \/ e.planless
  BY BaselineKnown
<1>2. ~e.planless /\ (RolledBack => Truthful(b))
  BY DEF Promise
<1>3. DOMAIN chain \subseteq Nat /\ history \subseteq DOMAIN chain
  BY ChainNumbers DEF ChainInv, ChainType, Numbers
<1>4. Truthful(b)
  <2> SUFFICES ASSUME ~RolledBack PROVE Truthful(b)
    BY <1>2
  <2>1. Reached(b.state, b.applied)
    BY <1>1, <1>2
  <2>2. ASSUME NEW v \in b.applied, NEW w \in DOMAIN chain, w < v PROVE w \in b.applied
    <3>1. v \in history
      BY <2>1 DEF Reached, Led
    <3>2. CASE w \in history
      BY <2>1, <2>2, <3>2 DEF Reached, Led
    <3>3. CASE w \notin history
      <4>1. \E u \in DOMAIN chain : u < w /\ SameStatements(u, w)
        BY <2>2, <3>1, <3>3 DEF ChainInv, Placed
      <4> QED BY <4>1 DEF Repeated, SameStatements
    <3> QED BY <3>2, <3>3
  <2> QED BY <1>3, <2>1, <2>2 DEF Truthful, Reached, Led
<1> DEFINE A == b.applied
           B == DOMAIN chain \ b.applied
           x == Replay(chain, {}, A)
           y == Replay(chain, x.state, B)
<1>5. x = Replay(chain, {}, A) /\ y = Replay(chain, x.state, B)
  OBVIOUS
<1>6. x = [state |-> b.state, ok |-> TRUE]
  BY <1>4 DEF Truthful
<1>7. y = [state |-> e.state, ok |-> TRUE]
  BY <1>1, <1>2, <1>6 DEF Composes
<1>8. /\ {} \in Schemas /\ Files(chain, A) /\ Files(chain, B) /\ A \cup B = DOMAIN chain
  BY <1>4, ChainNumbers DEF Files, Schemas, Truthful, ChainInv
<1>9. Below(A, B)
  <2> SUFFICES ASSUME NEW v \in A, NEW w \in B PROVE v < w
    BY DEF Below
  <2>1. v \in Nat /\ w \in Nat /\ v # w /\ w \notin b.applied /\ w \in DOMAIN chain
    BY <1>3, <1>4 DEF Truthful
  <2>2. ~(w < v)
    BY <1>4, <2>1 DEF Truthful
  <2> QED BY <2>1, <2>2
<1> HIDE DEF A, B, x, y
<1>10. Replay(chain, {}, A \cup B) = [state |-> y.state, ok |-> x.ok /\ y.ok]
  BY <1>5, <1>8, <1>9, ReplaySplit
<1> QED BY <1>6, <1>7, <1>8, <1>10

(* ... and ends at the models.                                             *)
LEMMA BridgeReplays ==
  ASSUME NEW directory, NEW n \in Nat, NEW k \in n .. MaxVersion, NEW new, NEW from, NEW to,
         from \in Schemas, Bridges(new, n, from, to), DOMAIN new = (n + 1) .. k,
         Files(directory, 1 .. k), \A v \in DOMAIN new : directory[v] = new[v],
         Replay(directory, {}, 1 .. n) = [state |-> from, ok |-> TRUE]
  PROVE  Replay(directory, {}, 1 .. k) = [state |-> to, ok |-> TRUE]
<1>1. PICK g \in 0 .. 2 :
        /\ DOMAIN new = (n + 1) .. (n + g)
        /\ \A v \in DOMAIN new : new[v] \in File /\ Sound(new[v])
        /\ g = 0 => from = to
        /\ g > 0 => new[n + 1].base = from
        /\ g = 1 => new[n + 1].target = to
        /\ g = 2 => new[n + 2].base = new[n + 1].target /\ new[n + 2].target = to
  BY DEF Bridges
<1>2. k \in Nat /\ n <= k /\ k <= MaxVersion /\ MaxVersion \in Nat
  BY BoundsAssumption
<1>3. k = n + g
  <2>1. (n + 1) .. k = (n + 1) .. (n + g)
    BY <1>1
  <2>2. \A i \in Nat : i \in (n + 1) .. k <=> i \in (n + 1) .. (n + g)
    BY <2>1
  <2>3. k >= n + 1 => k <= n + g
    BY <1>2, <2>2
  <2>4. n + g >= n + 1 => n + g <= k
    BY <2>2
  <2> QED BY <1>2, <2>3, <2>4
<1>4. CASE g = 0
  BY <1>1, <1>3, <1>4
<1>5. ASSUME g > 0
      PROVE  /\ Replay(directory, {}, 1 .. (n + 1)) = [state |-> new[n + 1].target, ok |-> TRUE]
             /\ new[n + 1].target \in Schemas
  <2>1. n + 1 \in Numbers /\ n + 1 \in DOMAIN new /\ directory[n + 1] = new[n + 1]
    BY <1>2, <1>3, <1>5 DEF Numbers
  <2>2. Files(directory, 1 .. n) /\ Files(directory, {n + 1}) /\ Below(1 .. n, {n + 1})
    BY <1>2, <1>3, <1>5 DEF Files, Below
  <2>3. 1 .. (n + 1) = (1 .. n) \cup {n + 1}
    OBVIOUS
  <2>4. directory[n + 1].base = from
    BY <1>1, <1>5, <2>1
  <2>5. Replay(directory, {}, (1 .. n) \cup {n + 1})
          = [state |-> directory[n + 1].target, ok |-> TRUE]
    BY <2>1, <2>2, <2>4, ReplayExtend
  <2> QED BY <1>1, <2>1, <2>3, <2>5 DEF File
<1>6. CASE g = 1
  <2>1. k = n + 1 /\ new[n + 1].target = to /\ g > 0
    BY <1>1, <1>3, <1>6
  <2> QED BY <1>5, <2>1
<1>7. CASE g = 2
  <2>1. n + 2 \in Numbers /\ n + 2 \in DOMAIN new /\ directory[n + 2] = new[n + 2]
    BY <1>2, <1>3, <1>7 DEF Numbers
  <2>2. Files(directory, 1 .. (n + 1)) /\ Files(directory, {n + 2})
        /\ Below(1 .. (n + 1), {n + 2})
    BY <1>2, <1>3, <1>7 DEF Files, Below
  <2>3. 1 .. (n + 2) = (1 .. (n + 1)) \cup {n + 2}
    OBVIOUS
  <2>4. directory[n + 2].base = new[n + 1].target
    BY <1>1, <1>7, <2>1
  <2>5. Replay(directory, {}, (1 .. (n + 1)) \cup {n + 2})
          = [state |-> directory[n + 2].target, ok |-> TRUE]
    <3>1. /\ Replay(directory, {}, 1 .. (n + 1)) = [state |-> new[n + 1].target, ok |-> TRUE]
          /\ new[n + 1].target \in Schemas
      BY <1>5, <1>7
    <3> DEFINE mid == new[n + 1].target
               A == 1 .. (n + 1)
               v == n + 2
    <3>2. Replay(directory, {}, A) = [state |-> mid, ok |-> TRUE] /\ mid \in Schemas
      BY <3>1
    <3>3. /\ v \in Numbers /\ Files(directory, A) /\ Files(directory, {v}) /\ Below(A, {v})
          /\ directory[v].base = mid
      BY <2>1, <2>2, <2>4
    <3> HIDE DEF mid, A, v
    <3>4. Replay(directory, {}, A \cup {v}) = [state |-> directory[v].target, ok |-> TRUE]
      BY <3>2, <3>3, ReplayExtend
    <3> QED BY <3>4 DEF A, v
  <2> QED BY <1>1, <1>3, <1>7, <2>1, <2>3, <2>5
<1> QED BY <1>4, <1>6, <1>7

LEMMA GenerateKeeps ==
  ASSUME ChainInv, NEW offline \in BOOLEAN, NEW split \in BOOLEAN, NEW ahead \in BOOLEAN,
         Generate(offline, split, ahead)
  PROVE  ChainInv'
<1> DEFINE b == Baseline(offline)
           e == Effective(b.state, DOMAIN chain, b.applied)
           new == Artifacts(e.state, split)
<1>1. /\ run = Idle /\ b # None /\ e.ok
      /\ DOMAIN new \subseteq Numbers /\ chain' = With(chain, new)
      /\ record' = record \/ record' = Recorded(b)
      /\ goal' = Promise(b, e)
      /\ UNCHANGED <<models, snapshots, schema, history, run, left>>
  BY DEF Generate, Accepted, database
<1>2. b = Baseline(offline) /\ e = Effective(b.state, DOMAIN chain, b.applied)
  OBVIOUS
<1>3. PICK n \in 0 .. MaxVersion : DOMAIN chain = 1 .. n
  BY DEF ChainInv, ChainType, Directory
<1>4. new = Artifacts(e.state, split)
  OBVIOUS
<1> HIDE DEF b, e, new
<1>5. /\ b.state \in Schemas /\ b.applied \subseteq Numbers
      /\ Composes(e, b.state, DOMAIN chain \ b.applied)
      /\ ~RolledBack =>
           \/ Reached(b.state, b.applied)
           \/ e.planless /\ \E v \in history \ b.applied : ~chain[v].planned
  BY <1>1, <1>2, BaselineKnown
<1>6. e.state \in Schemas
  BY <1>5 DEF Composes, Outcome
<1>7. Bridges(new, n, e.state, models)
  BY <1>3, <1>4, <1>6, ArtifactsBridge DEF ChainInv
<1>8. PICK g \in 0 .. 2 :
        /\ DOMAIN new = (n + 1) .. (n + g)
        /\ \A v \in DOMAIN new : new[v] \in File /\ Sound(new[v])
        /\ g > 0 => new[n + 1].base = e.state
  BY <1>7 DEF Bridges
<1> DEFINE k == n + g
<1>9. k \in n .. MaxVersion /\ n \in Nat /\ k \in Nat
  <2>1. CASE g = 0
    BY <2>1, BoundsAssumption
  <2>2. CASE g # 0
    <3>1. n + g \in DOMAIN new
      BY <1>8, <2>2
    <3> QED BY <1>1, <3>1, BoundsAssumption DEF Numbers
  <2> QED BY <2>1, <2>2
<1>10. DOMAIN new = (n + 1) .. k
  BY <1>8
<1> HIDE DEF k
<1>11. /\ Directory(chain') /\ DOMAIN chain' = 1 .. k /\ history \subseteq DOMAIN chain'
       /\ \A v \in DOMAIN chain : v \in DOMAIN chain' /\ chain'[v] = chain[v]
       /\ \A v \in DOMAIN new : chain'[v] = new[v]
       /\ Placed' /\ Migrated'
  BY <1>1, <1>3, <1>8, <1>9, <1>10, ChainGrows DEF database
<1>12. models \in Schemas /\ history \subseteq DOMAIN chain
  BY DEF ChainInv, ChainType
<1>13. record' = None \/ record' \in Records
  <2>1. Recorded(b) \in Records
    BY <1>5, <1>12 DEF Recorded, Records
  <2> QED BY <1>1, <2>1 DEF ChainInv, ChainType
<1>14. ChainType'
  BY <1>1, <1>11, <1>13 DEF ChainInv, ChainType
<1>15. Promised'
  <2> SUFFICES ASSUME goal' # None, ~Repeated'
               PROVE  Replay(chain', {}, 1 .. k) = [state |-> goal', ok |-> TRUE]
    BY <1>11 DEF Promised
  <2>1. ~Repeated
    BY <1>11 DEF Repeated, SameStatements
  <2>2. Promise(b, e) # None /\ goal' = models
    BY <1>1 DEF Promise
  <2>3. Replay(chain, {}, 1 .. n) = [state |-> e.state, ok |-> TRUE]
    BY <1>1, <1>2, <1>3, <2>1, <2>2, TrueStart
  <2>4. Replay(chain', {}, 1 .. n) = Replay(chain, {}, 1 .. n)
    <3>1. /\ {} \in Schemas /\ DOMAIN chain \subseteq Numbers
          /\ \A v \in DOMAIN chain : chain[v] \in File /\ chain'[v] = chain[v]
      BY <1>11, ChainNumbers DEF Schemas, ChainInv
    <3>2. Replay(chain', {}, DOMAIN chain) = Replay(chain, {}, DOMAIN chain)
      BY <3>1, ReplayAgrees
    <3> QED BY <1>3, <3>2
  <2>5. Files(chain', 1 .. k)
    BY <1>9, <1>11, BoundsAssumption DEF Files, Directory, Numbers
  <2>6. Replay(chain', {}, 1 .. n) = [state |-> e.state, ok |-> TRUE]
    BY <2>3, <2>4
  <2>7. \A v \in DOMAIN new : chain'[v] = new[v]
    BY <1>11
  <2>8. Replay(chain', {}, 1 .. k) = [state |-> models, ok |-> TRUE]
    BY <1>6, <1>7, <1>9, <1>10, <2>5, <2>6, <2>7, BridgeReplays
  <2> QED BY <2>2, <2>8
<1>16. Known'
  <2>1. \A v \in history : chain'[v] = chain[v]
    BY <1>11, <1>12
  <2>2. ASSUME ~RolledBack PROVE (record # None /\ record.based => Baselined)'
    <3>1. CASE record' = record
      <4>1. record # None /\ record.based => Baselined
        BY <2>2 DEF ChainInv, Known
      <4>2. Baselined => Baselined'
        BY <1>1, <2>1, <3>1, BaselinedStays DEF ChainInv
      <4> QED BY <3>1, <4>1, <4>2
    <3>2. CASE record' = Recorded(b)
      <4>1. record'.base = b.state /\ record'.applied = b.applied
        BY <3>2 DEF Recorded
      <4>2. CASE Reached(b.state, b.applied)
        <5> DEFINE s == record'.base
                   a == record'.applied
        <5>1. Led(chain, history, s, a)
          BY <4>1, <4>2 DEF Reached
        <5> HIDE DEF s, a
        <5>2. Led(chain', history', s, a)
          BY <1>1, <2>1, <5>1, LedStays DEF ChainInv
        <5> QED BY <5>2 DEF Baselined, Reached, s, a
      <4>3. CASE \E v \in history \ b.applied : ~chain[v].planned
        BY <1>1, <2>1, <4>1, <4>3 DEF Baselined
      <4> QED BY <1>5, <2>2, <4>2, <4>3
    <3> QED BY <1>1, <3>1, <3>2
  <2>3. ASSUME ~RolledBack
        PROVE  (record # None /\ ~record.based => record.target = {} \/ history # {})'
    <3>1. CASE record' = record
      BY <1>1, <2>3, <3>1 DEF ChainInv, Known
    <3>2. CASE record' = Recorded(b)
      BY <3>2 DEF Recorded
    <3> QED BY <1>1, <3>1, <3>2
  <2>4. ASSUME ~RolledBack PROVE (1 \in DOMAIN chain => chain[1].base = {})'
    <3>1. CASE n # 0
      <4>1. 1 \in DOMAIN chain
        BY <1>3, <3>1
      <4> QED BY <1>11, <2>4, <4>1 DEF ChainInv, Known
    <3>2. CASE n = 0
      <4> SUFFICES ASSUME 1 \in DOMAIN chain' PROVE chain'[1].base = {}
        OBVIOUS
      <4>1. 1 \in DOMAIN new /\ g > 0
        <5>1. 1 \in 1 .. k
          BY <1>11
        <5> QED BY <1>8, <1>9, <1>10, <3>2, <5>1
      <4>2. DOMAIN chain = {}
        BY <1>3, <3>2
      <4>3. e.state = {}
        BY <1>1, <1>2, <2>4, <4>2, NothingYet
      <4> QED BY <1>8, <1>11, <3>2, <4>1, <4>3
    <3> QED BY <3>1, <3>2
  <2> QED BY <1>1, <2>1, <2>2, <2>3, <2>4, KnownGrows
<1> QED BY <1>11, <1>14, <1>15, <1>16 DEF ChainInv

LEMMA CrashGenerateKeeps ==
  ASSUME ChainInv, NEW offline \in BOOLEAN, NEW split \in BOOLEAN, NEW ahead \in BOOLEAN,
         CrashGenerate(offline, split, ahead)
  PROVE  ChainInv'
<1> DEFINE b == Baseline(offline)
           e == Effective(b.state, DOMAIN chain, b.applied)
           all == Artifacts(e.state, split)
           cut(k, planned) == [v \in {w \in DOMAIN all : w <= k} |->
                                 [all[v] EXCEPT !.planned = v < k \/ planned]]
<1>1. /\ run = Idle /\ b # None /\ e.ok /\ Spend("fault")
      /\ DOMAIN all \subseteq Numbers
      /\ \E k \in DOMAIN all, planned \in BOOLEAN : chain' = With(chain, cut(k, planned))
      /\ goal' = None
      /\ UNCHANGED <<models, record, snapshots, schema, history, run>>
  BY DEF CrashGenerate, Accepted, database
<1>2. PICK k \in DOMAIN all, planned \in BOOLEAN : chain' = With(chain, cut(k, planned))
  BY <1>1
<1> DEFINE new == cut(k, planned)
<1>3. PICK n \in 0 .. MaxVersion : DOMAIN chain = 1 .. n
  BY DEF ChainInv, ChainType, Directory
<1>4. b = Baseline(offline) /\ e = Effective(b.state, DOMAIN chain, b.applied)
  OBVIOUS
<1>5. all = Artifacts(e.state, split)
  OBVIOUS
<1> HIDE DEF b, e, all
<1>6. /\ b.state \in Schemas /\ Composes(e, b.state, DOMAIN chain \ b.applied)
  BY <1>1, <1>4, BaselineKnown
<1>7. e.state \in Schemas
  BY <1>6 DEF Composes, Outcome
<1>8. Bridges(all, n, e.state, models)
  BY <1>3, <1>5, <1>7, ArtifactsBridge DEF ChainInv
<1>9. PICK g \in 0 .. 2 :
        /\ DOMAIN all = (n + 1) .. (n + g)
        /\ \A v \in DOMAIN all : all[v] \in File /\ Sound(all[v])
        /\ g > 0 => all[n + 1].base = e.state
  BY <1>8 DEF Bridges
<1>10. k \in n .. MaxVersion /\ n \in Nat /\ k \in Nat /\ n + 1 <= k /\ k <= n + g
  <2>1. k \in Numbers /\ k \in (n + 1) .. (n + g)
    BY <1>1, <1>9
  <2> QED BY <2>1, BoundsAssumption DEF Numbers
<1>11. DOMAIN new = (n + 1) .. k
  BY <1>9, <1>10
<1>12. ASSUME NEW v \in DOMAIN new
       PROVE  new[v] \in File /\ Sound(new[v]) /\ new[v].base = all[v].base
  <2>1. v \in DOMAIN all /\ new[v] = [all[v] EXCEPT !.planned = v < k \/ planned]
    OBVIOUS
  <2>2. all[v] \in File /\ Sound(all[v]) /\ (v < k \/ planned) \in BOOLEAN
    BY <1>9, <2>1
  <2> HIDE DEF new
  <2>3. new[v] \in File
    BY <2>1, <2>2 DEF File
  <2>4. /\ new[v].base = all[v].base /\ new[v].target = all[v].target
        /\ new[v].add = all[v].add /\ new[v].drop = all[v].drop
    BY <2>1, <2>2 DEF File
  <2> QED BY <2>2, <2>3, <2>4 DEF Sound, Executable, Executed
<1>13. chain' = With(chain, new)
  BY <1>2
<1> HIDE DEF new
<1>14. /\ Directory(chain') /\ DOMAIN chain' = 1 .. k /\ history \subseteq DOMAIN chain'
       /\ \A v \in DOMAIN chain : v \in DOMAIN chain' /\ chain'[v] = chain[v]
       /\ \A v \in DOMAIN new : chain'[v] = new[v]
       /\ Placed' /\ Migrated'
  BY <1>1, <1>3, <1>10, <1>11, <1>12, <1>13, ChainGrows DEF database
<1>15. /\ left' \in [edit : Nat, rollback : 0 .. MaxRollbacks, delete : Nat, fault : Nat]
       /\ left'.rollback = left.rollback
  BY <1>1, SpendKeeps DEF ChainInv
<1>16. ChainType'
  BY <1>1, <1>14, <1>15 DEF ChainInv, ChainType
<1>17. Promised'
  BY <1>1 DEF Promised
<1>18. Known'
  <2>1. \A v \in history : chain'[v] = chain[v]
    BY <1>14 DEF ChainInv, ChainType
  <2>2. ASSUME ~RolledBack PROVE (record # None /\ record.based => Baselined)'
    <3>1. record # None /\ record.based => Baselined
      BY <2>2 DEF ChainInv, Known
    <3>2. Baselined => Baselined'
      BY <1>1, <2>1, BaselinedStays DEF ChainInv
    <3> QED BY <1>1, <3>1, <3>2
  <2>3. ASSUME ~RolledBack
        PROVE  (record # None /\ ~record.based => record.target = {} \/ history # {})'
    BY <1>1, <2>3 DEF ChainInv, Known
  <2>4. ASSUME ~RolledBack PROVE (1 \in DOMAIN chain => chain[1].base = {})'
    <3>1. CASE n # 0
      <4>1. 1 \in DOMAIN chain
        BY <1>3, <3>1
      <4> QED BY <1>14, <2>4, <4>1 DEF ChainInv, Known
    <3>2. CASE n = 0
      <4>1. 1 \in DOMAIN new /\ g > 0
        BY <1>10, <1>11, <3>2
      <4>2. DOMAIN chain = {}
        BY <1>3, <3>2
      <4>3. e.state = {}
        BY <1>1, <1>4, <2>4, <4>2, NothingYet
      <4> QED BY <1>9, <1>12, <1>14, <3>2, <4>1, <4>3
    <3> QED BY <3>1, <3>2
  <2> QED BY <1>1, <1>15, <2>1, <2>2, <2>3, <2>4, KnownGrows
<1> QED BY <1>14, <1>16, <1>17, <1>18 DEF ChainInv

LEMMA ChainInvNext == ChainInv /\ [ChainNext]_chainVars => ChainInv'
<1> SUFFICES ASSUME ChainInv, [ChainNext]_chainVars PROVE ChainInv'
  OBVIOUS
<1>1. CASE EditModels
  BY <1>1, EditModelsKeeps
<1>2. CASE \E offline, split, ahead \in BOOLEAN : Generate(offline, split, ahead)
  BY <1>2, GenerateKeeps
<1>3. CASE \E offline, split, ahead \in BOOLEAN : CrashGenerate(offline, split, ahead)
  BY <1>3, CrashGenerateKeeps
<1>4. CASE \E v \in Numbers : DeleteFile(v)
  BY <1>4, DeleteFileKeeps
<1>5. CASE SkipFile
  BY <1>5, SkipFileKeeps
<1>6. CASE \E written, deferred \in BOOLEAN : ApplyFile(written, deferred)
  BY <1>6, ApplyFileKeeps
<1>7. CASE FinishMigrate
  BY <1>7, FinishMigrateKeeps
<1>8. CASE StopAtCeiling
  BY <1>8, StopAtCeilingKeeps
<1>9. CASE StopMigrate
  BY <1>9, StopMigrateKeeps
<1>10. CASE Rollback
  BY <1>10, RollbackKeeps
<1>11. CASE UNCHANGED chainVars
  <2>1. UNCHANGED <<models, chain, record, snapshots, schema, history, run, goal, left>>
    BY <1>11 DEF chainVars, project, database
  <2>2. ChainType' /\ Placed'
    BY <2>1 DEF ChainInv, ChainType, Directory, Placed, SameStatements
  <2>3. Known'
    BY <2>1, KnownStays DEF ChainInv
  <2> QED BY <2>1, <2>2, <2>3, Quiet DEF ChainInv, database
<1> QED BY <1>1, <1>2, <1>3, <1>4, <1>5, <1>6, <1>7, <1>8, <1>9, <1>10, <1>11 DEF ChainNext

LEMMA ChainInvAlways == ChainSpec => []ChainInv
BY ChainInit0, ChainInvNext, PTL DEF ChainSpec

LEMMA PendingLeads == ChainInv => PendingReachesModels
<1> SUFFICES ASSUME ChainInv, goal # None, ~Repeated
             PROVE  LET migrated == Replay(chain, schema, DOMAIN chain \ history)
                    IN migrated.ok /\ migrated.state = goal
  BY DEF PendingReachesModels
<1> DEFINE A == history
           B == DOMAIN chain \ history
           x == Replay(chain, {}, A)
           y == Replay(chain, x.state, B)
           r == Replay(chain, {}, DOMAIN chain)
<1>1. x = Replay(chain, {}, A) /\ y = Replay(chain, x.state, B)
  OBVIOUS
<1>2. x = [state |-> schema, ok |-> TRUE]
  BY DEF ChainInv, Migrated
<1>3. /\ {} \in Schemas /\ Files(chain, A) /\ Files(chain, B) /\ A \cup B = DOMAIN chain
  BY ChainNumbers DEF Files, Schemas, ChainInv, ChainType
<1>4. Below(A, B)
  <2> SUFFICES ASSUME NEW v \in A, NEW w \in B PROVE v < w
    BY DEF Below
  <2>1. v \in Nat /\ w \in Nat /\ v # w /\ w \in DOMAIN chain
    BY ChainNumbers DEF Numbers, ChainInv
  <2>2. ~(w < v)
    <3> SUFFICES ASSUME w < v PROVE FALSE
      OBVIOUS
    <3>1. \E u \in DOMAIN chain : u < w /\ SameStatements(u, w)
      BY DEF ChainInv, Placed
    <3> QED BY <2>1, <3>1 DEF Repeated, SameStatements
  <2> QED BY <2>1, <2>2
<1>5. r = [state |-> goal, ok |-> TRUE]
  BY DEF ChainInv, Promised
<1>6. y \in Stage
  <2>1. schema \in Schemas
    BY DEF ChainInv, ChainType
  <2> QED BY <1>2, <1>3, <2>1, ReplayType DEF Files
<1>7. Replay(chain, schema, DOMAIN chain \ history) = y
  BY <1>2
<1> HIDE DEF A, B, x, y
<1>8. Replay(chain, {}, A \cup B) = [state |-> y.state, ok |-> x.ok /\ y.ok]
  BY <1>1, <1>3, <1>4, ReplaySplit
<1>9. r.state = y.state /\ r.ok = (x.ok /\ y.ok)
  BY <1>3, <1>8
<1> HIDE DEF r
<1>10. y.state = goal /\ y.ok
  BY <1>5, <1>6, <1>9 DEF Stage
<1> QED BY <1>7, <1>10

(* While a promise stands, the pending files lead from the database to the *)
(* models.                                                                 *)
THEOREM PromiseKept == ChainSpec => []PendingReachesModels
BY ChainInvAlways, PendingLeads, PTL

(***************************************************************************)
(* No signal of a merge where nobody merged.                               *)
(***************************************************************************)

(* A file after those that are replayed changes what they lead to.         *)
LEMMA ReplayAdds ==
  ASSUME NEW directory, NEW A, NEW v \in Numbers,
         Files(directory, A), Files(directory, {v}), Below(A, {v})
  PROVE  Replay(directory, {}, A \cup {v}).state
           = Executed(Replay(directory, {}, A).state, directory[v])
<1> DEFINE x == Replay(directory, {}, A)
           y == Replay(directory, x.state, {v})
<1>1. x = Replay(directory, {}, A) /\ y = Replay(directory, x.state, {v})
  OBVIOUS
<1>2. {} \in Schemas /\ directory[v] \in File
  BY DEF Schemas, Files
<1>3. x \in Stage
  BY <1>2, ReplayType DEF Files
<1> HIDE DEF x, y
<1>4. y = [state |-> Executed(x.state, directory[v]), ok |-> Executable(directory[v], x.state)]
  BY <1>1, <1>2, <1>3, ReplayOne DEF Stage
<1>5. Replay(directory, {}, A \cup {v}) = [state |-> y.state, ok |-> x.ok /\ y.ok]
  BY <1>1, <1>2, ReplaySplit
<1> QED BY <1>1, <1>4, <1>5

(* Files whose plans are chained compose, from the state before them.      *)
LEMMA ChainedComposes ==
  ASSUME ChainType, Chained, NEW A, NEW B, A \subseteq DOMAIN chain, B \subseteq DOMAIN chain,
         Below(A, B), \A v \in A \cup B, w \in DOMAIN chain : w < v => w \in A \cup B,
         NEW base, base = Replay(chain, {}, A).state,
         NEW e, e = Composition(chain, base, B)
  PROVE  e = [state |-> Replay(chain, {}, A \cup B).state, ok |-> TRUE, planless |-> FALSE]
<1> DEFINE done(n) == A \cup {v \in B : v <= n}
           reached(n) == Replay(chain, {}, done(n)).state
<1>1. /\ A \subseteq Numbers /\ B \subseteq Numbers /\ DOMAIN chain \subseteq Numbers
      /\ \A v \in Numbers : v \in Nat /\ 0 < v /\ v <= MaxVersion
      /\ MaxVersion \in Nat
      /\ \A v \in DOMAIN chain : chain[v] \in File /\ Sound(chain[v])
  BY ChainNumbers, BoundsAssumption DEF Numbers
<1>2. base \in Schemas
  <2>1. {} \in Schemas /\ \A v \in A : chain[v] \in File
    BY <1>1 DEF Schemas
  <2>2. Replay(chain, {}, A) \in Stage
    BY <1>1, <2>1, ReplayType
  <2> QED BY <2>2 DEF Stage
<1>3. PICK f : Composed(f, chain, base, B) /\ e = f[MaxVersion]
  <2>1. \A v \in B : chain[v] \in File
    BY <1>1
  <2> QED BY <1>1, <1>2, <2>1, CompositionSteps
<1> DEFINE S(n) == [state |-> reached(n), ok |-> TRUE, planless |-> FALSE]
           T == {n \in Nat : f[n] = S(n)}
<1>4. 0 \in T
  <2>1. done(0) = A
    BY <1>1
  <2> QED BY <1>3, <2>1 DEF Composed
<1>5. ASSUME NEW n \in Nat, n \in T PROVE n + 1 \in T
  <2>1. CASE n + 1 \notin B
    <3>1. done(n + 1) = done(n)
      BY <1>1, <2>1
    <3>2. f[n + 1] = f[n]
      BY <1>3, <2>1 DEF Composed
    <3>3. S(n + 1) = S(n)
      BY <3>1
    <3>4. f[n] = S(n)
      BY <1>5
    <3> HIDE DEF S
    <3> QED BY <3>2, <3>3, <3>4
  <2>2. CASE n + 1 \in B
    <3>1. done(n + 1) = done(n) \cup {n + 1}
      BY <1>1, <2>2
    <3>2. done(n) = DOMAIN chain \cap 1 .. ((n + 1) - 1)
      <4>1. \A v \in A : v < n + 1
        BY <2>2 DEF Below
      <4>2. \A v \in DOMAIN chain : v <= n => v \in A \cup B
        BY <1>1, <2>2
      <4>3. \A v \in done(n) : v \in DOMAIN chain /\ v \in Nat /\ 0 < v /\ v <= n
        BY <1>1, <4>1
      <4>4. \A v \in DOMAIN chain : v \in 1 .. n => v \in done(n)
        BY <4>2
      <4>5. (n + 1) - 1 = n
        OBVIOUS
      <4> HIDE DEF done
      <4> QED BY <4>3, <4>4, <4>5
    <3>3. chain[n + 1].planned /\ chain[n + 1].base = reached(n)
      BY <2>2, <3>2 DEF Chained
    <3>4. reached(n + 1) = Executed(reached(n), chain[n + 1])
      <4>1. /\ n + 1 \in Numbers /\ Files(chain, done(n)) /\ Files(chain, {n + 1})
            /\ Below(done(n), {n + 1})
        BY <1>1, <2>2 DEF Files, Below
      <4> HIDE DEF done
      <4> QED BY <3>1, <4>1, ReplayAdds
    <3>5. chain[n + 1].target = reached(n + 1)
      BY <1>1, <2>2, <3>3, <3>4 DEF Sound
    <3>6. f[n + 1] = Composing(chain, f[n], n + 1)
      BY <1>3, <2>2 DEF Composed
    <3>7. f[n] = S(n)
      BY <1>5
    <3> HIDE DEF reached
    <3>8. f[n + 1] = [S(n) EXCEPT !.state = chain[n + 1].target,
                                  !.ok = @ /\ chain[n + 1].base = S(n).state]
      BY <3>3, <3>6, <3>7 DEF Composing
    <3>9. f[n + 1] = S(n + 1)
      BY <3>3, <3>5, <3>8
    <3> HIDE DEF S
    <3> QED BY <3>9
  <2> QED BY <2>1, <2>2
<1>6. MaxVersion \in T
  <2> HIDE DEF T
  <2> QED BY <1>1, <1>4, <1>5, Induction
<1>7. done(MaxVersion) = A \cup B
  BY <1>1
<1> QED BY <1>3, <1>6, <1>7

(* Plans for files that come after compose when each is based on the one   *)
(* before.                                                                 *)
LEMMA CompositionExtends ==
  ASSUME NEW directory, NEW n \in Nat, NEW k \in n .. MaxVersion, NEW new, NEW to,
         NEW base \in Schemas, NEW A, A \subseteq 1 .. n, DOMAIN chain = 1 .. n,
         NEW e, e = Composition(chain, base, 1 .. n \ A), e.ok, Bridges(new, n, e.state, to),
         DOMAIN new = (n + 1) .. k, \A v \in DOMAIN new : new[v].planned,
         \A v \in 1 .. n : chain[v] \in File /\ directory[v] = chain[v],
         \A v \in DOMAIN new : directory[v] = new[v]
  PROVE  Composition(directory, base, 1 .. k \ A).ok
<1>1. PICK g \in 0 .. 2 :
        /\ DOMAIN new = (n + 1) .. (n + g)
        /\ \A v \in DOMAIN new : new[v] \in File /\ Sound(new[v])
        /\ g > 0 => new[n + 1].base = e.state
        /\ g = 2 => new[n + 2].base = new[n + 1].target
  BY DEF Bridges
<1>2. k \in Nat /\ n <= k /\ k <= MaxVersion /\ MaxVersion \in Nat
  BY BoundsAssumption
<1>3. k = n + g
  <2>1. \A i \in Nat : i \in (n + 1) .. k <=> i \in (n + 1) .. (n + g)
    BY <1>1
  <2>2. k >= n + 1 => k <= n + g
    BY <1>2, <2>1
  <2>3. n + g >= n + 1 => n + g <= k
    BY <2>1
  <2>4. g \in Nat
    OBVIOUS
  <2>5. k <= n + g
    BY <1>2, <2>2, <2>4
  <2>6. n + g <= k
    BY <1>2, <2>3, <2>4
  <2> QED BY <1>2, <2>4, <2>5, <2>6
<1> DEFINE V == 1 .. n \ A
           W == 1 .. k \ A
<1>4. PICK f : Composed(f, chain, base, V) /\ e = f[MaxVersion]
  <2>1. V \subseteq Numbers /\ \A v \in V : chain[v] \in File
    BY <1>2 DEF Numbers
  <2> HIDE DEF V
  <2>2. e = Composition(chain, base, V)
    BY DEF V
  <2> QED BY <2>1, <2>2, CompositionSteps
<1>5. PICK h : Composed(h, directory, base, W) /\ Composition(directory, base, W) = h[MaxVersion]
  <2>1. W \subseteq Numbers
    BY <1>2 DEF Numbers
  <2>2. \A v \in 1 .. k : v \in 1 .. n \/ v \in DOMAIN new
    BY <1>2
  <2>3. \A v \in W : directory[v] \in File
    BY <1>1, <2>2
  <2> HIDE DEF W
  <2> QED BY <2>1, <2>3, CompositionSteps
<1>6. f[n] = e
  <2> DEFINE T == {m \in Nat : n <= m => f[m] = f[n]}
  <2>1. 0 \in T
    OBVIOUS
  <2>2. ASSUME NEW m \in Nat, m \in T PROVE m + 1 \in T
    <3>1. CASE n <= m
      <4>1. m + 1 \notin V
        BY <3>1
      <4> QED BY <1>4, <2>2, <3>1, <4>1 DEF Composed
    <3>2. CASE ~(n <= m)
      BY <3>2
    <3> QED BY <3>1, <3>2
  <2>3. MaxVersion \in T
    <3> HIDE DEF T
    <3> QED BY <1>2, <2>1, <2>2, Induction
  <2> QED BY <1>2, <1>4, <2>3
<1>7. h[n] = e
  <2> DEFINE T == {m \in Nat : m <= n => h[m] = f[m]}
  <2>1. 0 \in T
    BY <1>4, <1>5 DEF Composed
  <2>2. ASSUME NEW m \in Nat, m \in T PROVE m + 1 \in T
    <3> SUFFICES ASSUME m + 1 <= n PROVE h[m + 1] = f[m + 1]
      OBVIOUS
    <3>1. h[m] = f[m] /\ m + 1 \in 1 .. n /\ m + 1 \in 1 .. k
      BY <1>2, <2>2
    <3>2. m + 1 \in V <=> m + 1 \in W
      BY <3>1
    <3>3. directory[m + 1] = chain[m + 1]
      BY <3>1
    <3> HIDE DEF V, W
    <3>4. Composing(directory, h[m], m + 1) = Composing(chain, f[m], m + 1)
      BY <3>1, <3>3 DEF Composing
    <3> QED BY <1>4, <1>5, <3>2, <3>1, <3>4 DEF Composed
  <2>3. n \in T
    <3> HIDE DEF T
    <3> QED BY <2>1, <2>2, Induction
  <2> QED BY <1>6, <2>3
<1>8. h[MaxVersion] = h[k]
  <2> DEFINE T == {m \in Nat : k <= m => h[m] = h[k]}
  <2>1. 0 \in T
    BY <1>2
  <2>2. ASSUME NEW m \in Nat, m \in T PROVE m + 1 \in T
    <3>1. CASE k <= m
      <4>1. m + 1 \notin W
        BY <1>2, <3>1
      <4>2. h[m] = h[k]
        BY <2>2, <3>1
      <4> HIDE DEF W
      <4>3. h[m + 1] = h[m]
        BY <1>5, <4>1 DEF Composed
      <4> QED BY <4>2, <4>3
    <3>2. CASE ~(k <= m)
      BY <1>2, <3>2
    <3> QED BY <3>1, <3>2
  <2>3. MaxVersion \in T
    <3> HIDE DEF T
    <3> QED BY <1>2, <2>1, <2>2, Induction
  <2> QED BY <1>2, <2>3
<1>9. e \in Outcome
  BY <1>2, <1>4 DEF Composed
<1>10. ASSUME g > 0
       PROVE  h[n + 1] = [e EXCEPT !.state = new[n + 1].target, !.ok = TRUE]
  <2>1. n + 1 \in DOMAIN new /\ n + 1 \in W
    BY <1>1, <1>3, <1>10
  <2>2. h[n + 1] = Composing(directory, h[n], n + 1)
    BY <1>5, <2>1 DEF Composed
  <2>3. directory[n + 1] = new[n + 1] /\ new[n + 1].planned /\ new[n + 1].base = e.state
    BY <1>1, <1>10, <2>1
  <2> QED BY <1>7, <1>9, <2>2, <2>3 DEF Composing, Outcome
<1>11. h[k].ok
  <2>1. CASE g = 0
    BY <1>3, <1>7, <2>1
  <2>2. CASE g = 1
    <3>1. h[k] = [e EXCEPT !.state = new[n + 1].target, !.ok = TRUE]
      BY <1>3, <1>10, <2>2
    <3> QED BY <1>9, <3>1 DEF Outcome
  <2>3. CASE g = 2
    <3>1. n + 2 \in DOMAIN new /\ n + 2 \in W /\ (n + 1) + 1 = n + 2 /\ n + 1 \in Nat
      BY <1>1, <1>3, <2>3
    <3>2. h[n + 2] = Composing(directory, h[n + 1], n + 2)
      BY <1>5, <3>1 DEF Composed
    <3>3. directory[n + 2] = new[n + 2] /\ new[n + 2].planned
          /\ new[n + 2].base = new[n + 1].target
      BY <1>1, <2>3, <3>1
    <3>4. h[n + 1].state = new[n + 1].target /\ h[n + 1].ok = TRUE /\ h[n + 1] \in Outcome
      <4>1. h[n + 1] = [e EXCEPT !.state = new[n + 1].target, !.ok = TRUE]
        BY <1>10, <2>3
      <4>2. h[n + 1] \in Outcome
        BY <1>5, <3>1 DEF Composed
      <4> QED BY <1>9, <4>1, <4>2 DEF Outcome
    <3>5. h[n + 2].ok
      BY <3>2, <3>3, <3>4 DEF Composing, Outcome
    <3> QED BY <1>3, <2>3, <3>5
  <2> QED BY <2>1, <2>2, <2>3
<1> QED BY <1>5, <1>8, <1>11

(* When the snapshot in force is of the live schema, the check goes by the *)
(* recorded baseline.  Either the pending plans lead on from it, or those  *)
(* of the files applied do not, which is why the snapshot was taken from   *)
(* the live schema.                                                        *)
Continued(directory, stated, latest) ==
  \/ \E v \in DOMAIN directory \ latest.applied : ~directory[v].planned
  \/ Composition(directory, stated.base, DOMAIN directory \ latest.applied).ok
  \/ LET fresh == Composition(directory, stated.base,
                    (latest.applied \cap DOMAIN directory) \ stated.applied)
     IN ~fresh.ok \/ fresh.planless
Continuous ==
  goal # None /\ Latest # None /\ ~Latest.typed /\ record # None /\ record.based
    => Continued(chain, record, Latest)

LEMMA LatestAfter ==
  ASSUME ChainType, NEW k \in Numbers, NEW snap, snapshots' = With(snapshots, [v \in {k} |-> snap])
  PROVE  Latest' = snap \/ Latest' = Latest
<1>1. /\ DOMAIN snapshots' = DOMAIN snapshots \cup {k}
      /\ \A v \in DOMAIN snapshots' : snapshots'[v] = IF v = k THEN snap ELSE snapshots[v]
  BY DEF With
<1>2. DOMAIN snapshots \subseteq Numbers /\ \A v \in Numbers : v \in Nat
  BY DEF ChainType, Numbers
<1> DEFINE D == DOMAIN snapshots
           E == DOMAIN snapshots'
<1>3. E # {} /\ E \subseteq Numbers /\ E = D \cup {k}
  BY <1>1, <1>2
<1>4. Latest' = snapshots'[Max(E)]
  BY <1>3 DEF Latest
<1> HIDE DEF E
<1>5. Max(E) \in E /\ \A v \in E : v <= Max(E)
  BY <1>3, MaxIsElement
<1>6. CASE Max(E) = k
  BY <1>1, <1>4, <1>5, <1>6 DEF E
<1>7. CASE Max(E) # k
  <2>1. Max(E) \in D /\ D # {}
    BY <1>3, <1>5, <1>7
  <2>2. Latest = snapshots[Max(D)]
    BY <2>1 DEF Latest
  <2> HIDE DEF D
  <2>3. Max(D) \in D /\ Max(E) <= Max(D)
    BY <1>2, <2>1, MaxIsElement DEF D
  <2>4. Max(D) <= Max(E) /\ Max(D) \in Nat /\ Max(E) \in Nat
    BY <1>2, <1>3, <1>5, <2>3
  <2>5. Max(D) = Max(E)
    BY <2>3, <2>4
  <2> QED BY <1>1, <1>4, <1>5, <1>7, <2>2, <2>5 DEF E
<1> QED BY <1>6, <1>7

(* A snapshot is taken from the live schema when the composition fails.    *)
LEMMA SnapshotContinued ==
  ASSUME NEW state, NEW H, NEW snap, snap = Snapshot(state, H), ~snap.typed,
         record # None, record.based
  PROVE  Continued(chain, record, snap)
<1> DEFINE composed == Effective(record.base, (H \cap DOMAIN chain) \ record.applied, {})
<1>1. snap = IF composed.ok /\ ~composed.planless
               THEN [state |-> composed.state, typed |-> TRUE, applied |-> H]
               ELSE [state |-> state, typed |-> FALSE, applied |-> H]
  BY DEF Snapshot
<1>2. composed = Composition(chain, record.base,
                   ((H \cap DOMAIN chain) \ record.applied) \ {})
  BY EffectiveIs
<1>3. ((H \cap DOMAIN chain) \ record.applied) \ {} = (H \cap DOMAIN chain) \ record.applied
  OBVIOUS
<1> HIDE DEF composed
<1>4. snap.applied = H /\ ~(composed.ok /\ ~composed.planless)
  BY <1>1
<1> QED BY <1>2, <1>3, <1>4 DEF Continued

LEMMA ContinuousStays ==
  ASSUME ChainType, Continuous, UNCHANGED <<chain, record, goal>>,
         \/ UNCHANGED snapshots
         \/ \E k \in Numbers : \E H, state :
              snapshots' = With(snapshots, [v \in {k} |-> Snapshot(state, H)])
  PROVE  Continuous'
<1>1. CASE Latest' = Latest
  BY <1>1 DEF Continuous
<1>2. ASSUME NEW state, NEW H, Latest' = Snapshot(state, H)
      PROVE  Continuous'
  <2> SUFFICES ASSUME ~Latest'.typed, record # None, record.based
               PROVE  Continued(chain, record, Latest')
    BY DEF Continuous
  <2> QED BY <1>2, SnapshotContinued
<1>3. CASE UNCHANGED snapshots
  BY <1>1, <1>3 DEF Latest
<1>4. CASE \E k \in Numbers : \E H, state :
             snapshots' = With(snapshots, [v \in {k} |-> Snapshot(state, H)])
  <2>1. PICK k \in Numbers : \E H, state :
               snapshots' = With(snapshots, [v \in {k} |-> Snapshot(state, H)])
    BY <1>4
  <2>2. PICK H, state : snapshots' = With(snapshots, [v \in {k} |-> Snapshot(state, H)])
    BY <2>1
  <2>3. Latest' = Snapshot(state, H) \/ Latest' = Latest
    BY <2>2, LatestAfter
  <2> QED BY <1>1, <1>2, <2>3
<1> QED BY <1>3, <1>4

LEMMA ApplyFileContinues ==
  ASSUME ChainInv, Continuous, NEW written \in BOOLEAN, NEW deferred \in BOOLEAN,
         ApplyFile(written, deferred)
  PROVE  Continuous'
<1> DEFINE m == Min(Unapplied)
<1>1. /\ Unapplied # {} /\ UNCHANGED <<chain, record, goal>>
      /\ \/ snapshots' = With(snapshots, [w \in {m} |-> Snapshot(schema', history')])
         \/ UNCHANGED snapshots
  BY DEF ApplyFile
<1>2. m \in DOMAIN chain
  BY <1>1, NextFile
<1>3. m \in Numbers /\ ChainType
  BY <1>2, ChainNumbers DEF ChainInv
<1> HIDE DEF m
<1> QED BY <1>1, <1>3, ContinuousStays

LEMMA EndSnapshotContinues ==
  ASSUME ChainInv, Continuous, run.applied # {}, EndSnapshot, UNCHANGED <<chain, record, goal>>
  PROVE  Continuous'
<1> DEFINE k == Max(run.applied)
<1>1. \/ snapshots' = With(snapshots, [v \in {k} |-> Snapshot(schema, history)])
      \/ UNCHANGED snapshots
  BY DEF EndSnapshot
<1>2. k \in Numbers /\ ChainType
  <2>1. run.applied \subseteq Numbers
    BY DEF ChainInv, ChainType
  <2> QED BY <2>1, MaxIsElement DEF ChainInv
<1> HIDE DEF k
<1> QED BY <1>1, <1>2, ContinuousStays

LEMMA ArtifactsPlanned ==
  ASSUME NEW from, NEW split, NEW v \in DOMAIN Artifacts(from, split)
  PROVE  Artifacts(from, split)[v].planned
BY DEF Artifacts

(* A promise is of a baseline whose files are all there.                   *)
LEMMA PromisedBaseline ==
  ASSUME ChainInv, NEW offline \in BOOLEAN, NEW b, b = Baseline(offline), b # None,
         NEW e, e = Effective(b.state, DOMAIN chain, b.applied), e.ok, Promise(b, e) # None
  PROVE  b.applied \subseteq DOMAIN chain
<1>1. ~e.planless /\ (RolledBack => Truthful(b))
  BY DEF Promise
<1>2. CASE RolledBack
  BY <1>1, <1>2 DEF Truthful
<1>3. CASE ~RolledBack
  <2>1. Reached(b.state, b.applied)
    BY <1>1, <1>3, BaselineKnown
  <2> QED BY <2>1 DEF Reached, Led, ChainInv, ChainType
<1> QED BY <1>2, <1>3

LEMMA GenerateContinues ==
  ASSUME ChainInv, NEW offline \in BOOLEAN, NEW split \in BOOLEAN, NEW ahead \in BOOLEAN,
         Generate(offline, split, ahead)
  PROVE  Continuous'
<1> DEFINE b == Baseline(offline)
           e == Effective(b.state, DOMAIN chain, b.applied)
           new == Artifacts(e.state, split)
<1>1. /\ b # None /\ e.ok /\ ~Discontinuous
      /\ DOMAIN new \subseteq Numbers /\ chain' = With(chain, new)
      /\ record' = IF new = << >> THEN record ELSE Recorded(b)
      /\ goal' = Promise(b, e)
      /\ UNCHANGED <<models, snapshots>>
  BY DEF Generate, Accepted, MergeSignal
<1> SUFFICES ASSUME goal' # None, Latest # None, ~Latest.typed, record' # None, record'.based
             PROVE  Continued(chain', record', Latest)
  BY <1>1 DEF Continuous, Latest
<1>2. b = Baseline(offline) /\ e = Effective(b.state, DOMAIN chain, b.applied)
      /\ new = Artifacts(e.state, split)
  OBVIOUS
<1> HIDE DEF b, e, new
<1>3. PICK n \in 0 .. MaxVersion : DOMAIN chain = 1 .. n /\ chain = [v \in 1 .. n |-> chain[v]]
  BY DEF ChainInv, ChainType, Directory
<1>4. CASE new = << >>
  <2>1. chain' = chain /\ record' = record
    <3>1. DOMAIN new = {}
      BY <1>4
    <3>2. chain' = [v \in DOMAIN chain |-> chain[v]]
      BY <1>1, <3>1 DEF With
    <3> QED BY <1>1, <1>3, <1>4, <3>2
  <2> SUFFICES ASSUME \A v \in DOMAIN chain \ Latest.applied : chain[v].planned
               PROVE  Composition(chain, record.base, DOMAIN chain \ Latest.applied).ok
    BY <2>1 DEF Continued
  <2>2. Effective(record.base, DOMAIN chain, Latest.applied).ok
    BY <1>1, <2>1 DEF Discontinuous
  <2> QED BY <2>2, EffectiveIs
<1>5. CASE new # << >>
  <2>1. b = [state |-> Latest.state, applied |-> Latest.applied]
    BY <1>2 DEF Baseline
  <2>2. record' = Recorded(b)
    BY <1>1, <1>5
  <2>3. record'.base = b.state /\ Latest.applied = b.applied
    BY <2>1, <2>2 DEF Recorded
  <2>4. /\ b.state \in Schemas /\ e.state \in Schemas /\ b.applied \subseteq DOMAIN chain
    <3>1. b.state \in Schemas /\ Composes(e, b.state, DOMAIN chain \ b.applied)
      BY <1>1, <1>2, BaselineKnown
    <3> QED BY <1>1, <1>2, <3>1, PromisedBaseline DEF Composes, Outcome
  <2>5. Bridges(new, n, e.state, models)
    BY <1>2, <1>3, <2>4, ArtifactsBridge DEF ChainInv
  <2>6. PICK g \in 0 .. 2 :
          DOMAIN new = (n + 1) .. (n + g) /\ \A v \in DOMAIN new : new[v] \in File /\ Sound(new[v])
    BY <2>5 DEF Bridges
  <2> DEFINE k == n + g
  <2>7. k \in n .. MaxVersion /\ n \in Nat /\ k \in Nat
    <3>1. CASE g = 0
      BY <3>1, BoundsAssumption
    <3>2. CASE g # 0
      <4>1. n + g \in DOMAIN new
        BY <2>6, <3>2
      <4> QED BY <1>1, <4>1, BoundsAssumption DEF Numbers
    <3> QED BY <3>1, <3>2
  <2>8. DOMAIN new = (n + 1) .. k
    BY <2>6
  <2> HIDE DEF k
  <2>9. DOMAIN chain' = 1 .. k
    BY <1>1, <1>3, <2>7, <2>8 DEF With
  <2>10. /\ \A v \in 1 .. n : chain[v] \in File /\ chain'[v] = chain[v]
         /\ \A v \in DOMAIN new : chain'[v] = new[v]
    <3>1. \A v \in 1 .. n : v \in 1 .. k /\ v \notin DOMAIN new /\ chain[v] \in File
      BY <1>3, <2>7, <2>8, ChainNumbers DEF ChainInv
    <3> QED BY <1>1, <1>3, <3>1 DEF With
  <2>11. \A v \in DOMAIN new : new[v].planned
    BY <1>2, ArtifactsPlanned
  <2>12. e = Composition(chain, b.state, 1 .. n \ b.applied)
    BY <1>2, <1>3, EffectiveIs
  <2>13. Composition(chain', b.state, 1 .. k \ b.applied).ok
    <3> DEFINE directory == chain'
               base == b.state
               A == b.applied
    <3>1. /\ \A v \in 1 .. n : chain[v] \in File /\ directory[v] = chain[v]
          /\ \A v \in DOMAIN new : directory[v] = new[v]
      BY <2>10
    <3>2. A \subseteq 1 .. n /\ base \in Schemas /\ e = Composition(chain, base, 1 .. n \ A)
      BY <1>3, <2>4, <2>12
    <3> HIDE DEF directory, base, A
    <3>3. Composition(directory, base, 1 .. k \ A).ok
      BY <1>1, <1>3, <2>5, <2>7, <2>8, <2>11, <3>1, <3>2, CompositionExtends
    <3> QED BY <3>3 DEF directory, base, A
  <2> QED BY <2>3, <2>9, <2>13 DEF Continued
<1> QED BY <1>4, <1>5

LEMMA ContinuousNext ==
  ChainInv /\ Continuous /\ [ChainNext]_chainVars => Continuous'
<1> SUFFICES ASSUME ChainInv, Continuous, [ChainNext]_chainVars PROVE Continuous'
  OBVIOUS
<1>1. ASSUME UNCHANGED <<chain, record, goal, snapshots>> PROVE Continuous'
  BY <1>1, ContinuousStays DEF ChainInv
<1>2. CASE EditModels
  BY <1>1, <1>2 DEF EditModels
<1>3. CASE \E offline, split, ahead \in BOOLEAN : Generate(offline, split, ahead)
  BY <1>3, GenerateContinues
<1>4. CASE \E offline, split, ahead \in BOOLEAN : CrashGenerate(offline, split, ahead)
  <2>1. goal' = None
    BY <1>4 DEF CrashGenerate
  <2> QED BY <2>1 DEF Continuous
<1>5. CASE \E v \in Numbers : DeleteFile(v)
  <2>1. goal' = None
    BY <1>5 DEF DeleteFile
  <2> QED BY <2>1 DEF Continuous
<1>6. CASE SkipFile
  BY <1>1, <1>6 DEF SkipFile, project
<1>7. CASE \E written, deferred \in BOOLEAN : ApplyFile(written, deferred)
  BY <1>7, ApplyFileContinues
<1>8. CASE FinishMigrate
  <2>1. record' = [target |-> models, based |-> FALSE, base |-> {}, applied |-> {}]
    BY <1>8 DEF FinishMigrate
  <2> QED BY <2>1 DEF Continuous
<1>9. CASE StopAtCeiling
  BY <1>9, EndSnapshotContinues DEF StopAtCeiling
<1>10. CASE StopMigrate
  BY <1>1, <1>10 DEF StopMigrate, project
<1>11. CASE Rollback
  BY <1>1, <1>11 DEF Rollback, project
<1>12. CASE UNCHANGED chainVars
  BY <1>1, <1>12 DEF chainVars, project
<1> QED BY <1>2, <1>3, <1>4, <1>5, <1>6, <1>7, <1>8, <1>9, <1>10, <1>11, <1>12 DEF ChainNext

(* The plans of a chain compose from any state that is true of it.         *)
LEMMA TrueComposes ==
  ASSUME ChainType, Chained, NEW base, Truthful(base), NEW B, B \subseteq DOMAIN chain,
         \A v \in base.applied \cup B, w \in DOMAIN chain : w < v => w \in base.applied \cup B,
         NEW e, e = Composition(chain, base.state, B \ base.applied)
  PROVE  e = [state |-> Replay(chain, {}, base.applied \cup B).state,
              ok |-> TRUE, planless |-> FALSE]
<1> DEFINE A == base.applied
           C == B \ A
           s == base.state
<1>1. /\ A \subseteq DOMAIN chain /\ A \cup B = A \cup C /\ C \subseteq DOMAIN chain
      /\ Replay(chain, {}, A) = [state |-> s, ok |-> TRUE]
  BY DEF Truthful
<1>2. ASSUME NEW v \in A, NEW w \in C PROVE v < w
  <2>1. v \in Nat /\ w \in Nat /\ v # w
    BY <1>1, ChainNumbers DEF Numbers
  <2>2. ~(w < v)
    BY <1>1 DEF Truthful
  <2> QED BY <2>1, <2>2
<1>3. Below(A, C)
  BY <1>2 DEF Below
<1>4. s = Replay(chain, {}, A).state /\ e = Composition(chain, s, C)
  BY <1>1
<1>5. \A v \in A \cup C, w \in DOMAIN chain : w < v => w \in A \cup C
  BY <1>1
<1> HIDE DEF A, C, s
<1>6. e = [state |-> Replay(chain, {}, A \cup C).state, ok |-> TRUE, planless |-> FALSE]
  BY <1>1, <1>3, <1>4, <1>5, ChainedComposes
<1>7. A \cup C = base.applied \cup B
  BY <1>1 DEF A
<1> QED BY <1>6, <1>7

(* The newest plan of a chain is for what the chain leads to.              *)
LEMMA NewestTarget ==
  ASSUME ChainType, Chained, DOMAIN chain # {}
  PROVE  chain[Max(DOMAIN chain)].target = Replay(chain, {}, DOMAIN chain).state
<1> DEFINE m == Max(DOMAIN chain)
           A == DOMAIN chain \cap 1 .. (m - 1)
<1>1. /\ DOMAIN chain \subseteq Numbers /\ m \in DOMAIN chain
      /\ \A v \in DOMAIN chain : v <= m /\ v \in Nat /\ v > 0
      /\ \A v \in DOMAIN chain : chain[v] \in File /\ Sound(chain[v])
  BY ChainNumbers, MaxIsElement DEF Numbers
<1> HIDE DEF m
<1>2. DOMAIN chain = A \cup {m}
  BY <1>1
<1>3. m \in Numbers /\ Files(chain, A) /\ Files(chain, {m}) /\ Below(A, {m})
  BY <1>1 DEF Files, Below
<1>4. chain[m].base = Replay(chain, {}, A).state
  BY <1>1 DEF Chained
<1> HIDE DEF A
<1>5. Replay(chain, {}, A \cup {m}).state = Executed(chain[m].base, chain[m])
  BY <1>3, <1>4, ReplayAdds
<1> QED BY <1>1, <1>2, <1>5 DEF Sound, m

LEMMA NoSignal == ChainInv /\ Continuous => NoMergeNoSignal
<1> SUFFICES ASSUME ChainInv, Continuous, goal # None, Chained, ~Repeated,
                    Latest # None => Truthful(Latest),
                    Latest # None /\ record # None /\ record.based /\ ~Latest.typed =>
                      Truthful([state |-> record.base, applied |-> record.applied]),
                    record # None /\ ~record.based => record.target = goal,
                    NEW ahead \in BOOLEAN
             PROVE  ~Divergent(ahead) /\ ~Discontinuous
  BY DEF NoMergeNoSignal, MergeSignal
<1>1. ChainType /\ Replay(chain, {}, DOMAIN chain).state = goal
  BY DEF ChainInv, Promised
<1>2. ~Divergent(ahead)
  <2> SUFFICES ASSUME record # None, chain # << >>, ~record.based
               PROVE  chain[Max(DOMAIN chain)].planned
                      /\ chain[Max(DOMAIN chain)].target = record.target
    BY DEF Divergent
  <2>1. DOMAIN chain # {}
    <3> SUFFICES ASSUME DOMAIN chain = {} PROVE chain = << >>
      OBVIOUS
    <3>1. PICK k \in 0 .. MaxVersion : DOMAIN chain = 1 .. k /\ chain = [v \in 1 .. k |-> chain[v]]
      BY <1>1 DEF ChainType, Directory
    <3>2. chain = [v \in {} |-> chain[v]] /\ << >> = [v \in {} |-> chain[v]]
      BY <3>1
    <3> QED BY <3>2
  <2>2. Max(DOMAIN chain) \in DOMAIN chain
    BY <1>1, <2>1, ChainNumbers, MaxIsElement
  <2> QED BY <1>1, <2>1, <2>2, NewestTarget DEF Chained
<1>3. ~Discontinuous
  <2> SUFFICES ASSUME Latest # None, record # None PROVE ~Discontinuous
    BY DEF Discontinuous
  <2> DEFINE A == Latest.applied
             base == IF ~Latest.typed /\ record.based THEN record.base ELSE Latest.state
             composed == Effective(base, DOMAIN chain, A)
  <2>1. A \subseteq DOMAIN chain /\ Truthful(Latest)
    BY DEF Truthful
  <2>2. composed = Composition(chain, base, DOMAIN chain \ A)
    BY EffectiveIs
  <2>3. CASE ~(~Latest.typed /\ record.based)
    <3>1. base = Latest.state
      BY <2>3
    <3>2. A \cup DOMAIN chain = DOMAIN chain
      BY <2>1
    <3>3. \A v \in A \cup DOMAIN chain, w \in DOMAIN chain : w < v => w \in A \cup DOMAIN chain
      OBVIOUS
    <3>4. composed = Composition(chain, Latest.state, DOMAIN chain \ Latest.applied)
      BY <2>2, <3>1
    <3> HIDE DEF base, composed
    <3>5. composed = [state |-> Replay(chain, {}, Latest.applied \cup DOMAIN chain).state,
                      ok |-> TRUE, planless |-> FALSE]
      BY <1>1, <2>1, <3>3, <3>4, TrueComposes
    <3>6. composed.ok /\ composed.state = goal
      BY <1>1, <3>2, <3>5
    <3> QED BY <3>6 DEF Discontinuous, composed, base
  <2>4. CASE ~Latest.typed /\ record.based
    <3> DEFINE r == [state |-> record.base, applied |-> record.applied]
               B == Latest.applied \cap DOMAIN chain
               fresh == Composition(chain, record.base, B \ record.applied)
    <3>1. Truthful(r) /\ r.state = record.base /\ r.applied = record.applied
      BY <2>4
    <3>2. fresh.ok /\ ~fresh.planless
      <4>1. \A v \in r.applied \cup B, w \in DOMAIN chain : w < v => w \in r.applied \cup B
        BY <2>1, <3>1 DEF Truthful
      <4>2. fresh = Composition(chain, r.state, B \ r.applied) /\ B \subseteq DOMAIN chain
        BY <3>1
      <4> HIDE DEF fresh, B, r
      <4>3. fresh = [state |-> Replay(chain, {}, r.applied \cup B).state,
                     ok |-> TRUE, planless |-> FALSE]
        BY <1>1, <3>1, <4>1, <4>2, TrueComposes
      <4> QED BY <4>3
    <3>3. Continued(chain, record, Latest)
      BY <2>4 DEF Continuous
    <3>4. \A v \in DOMAIN chain : chain[v].planned
      BY DEF Chained
    <3>5. composed.ok
      BY <2>2, <2>4, <3>2, <3>3, <3>4 DEF Continued
    <3> QED BY <2>4, <3>5 DEF Discontinuous
  <2> QED BY <2>3, <2>4
<1> QED BY <1>2, <1>3

(* Where nobody merged, nobody is told to, whatever was generated, applied,*)
(* rolled back or lost before, while the last generation stands and what   *)
(* the check goes by is true of the files.                                 *)
THEOREM MergeOnlyIfMerged == ChainSpec => []NoMergeNoSignal
<1>1. ChainInit => Continuous
  BY DEF ChainInit, Continuous
<1> QED BY <1>1, ChainInvAlways, ContinuousNext, NoSignal, PTL DEF ChainSpec

(***************************************************************************)
(* The invariant of an environment.                                        *)
(***************************************************************************)
Touches(c, x) == x \in c.add \/ x \in c.drop

(* x is in the change of an odd number of the versions of S.               *)
Touched(directory, S, v, x) == v \in S /\ Touches(directory[v], x)
Odd(directory, S, x) ==
  LET in(v) == Touched(directory, S, v, x)
  IN  (((in(1) <=> in(2)) <=> in(3)) <=> in(4)) <=> in(5)

(* Version v of S adds x where it is not there, and drops it where it is.  *)
Turns(directory, S, v, x, there) ==
  v \in S => /\ x \in directory[v].add => ~there
             /\ x \in directory[v].drop => there

(* The files of S, in their order, do so, each with what is there then.    *)
Steady(directory, S) ==
  \A x : LET in(v) == Touched(directory, S, v, x)
             s2 == in(1)
             s3 == ~(s2 <=> in(2))
             s4 == ~(s3 <=> in(3))
             s5 == ~(s4 <=> in(4))
         IN  /\ Turns(directory, S, 1, x, FALSE) /\ Turns(directory, S, 2, x, s2)
             /\ Turns(directory, S, 3, x, s3) /\ Turns(directory, S, 4, x, s4)
             /\ Turns(directory, S, 5, x, s5)

(* The change can be made to s.                                            *)
Fits(s, c) ==
  /\ c = [add |-> c.add, drop |-> c.drop]
  /\ c.drop \subseteq s /\ c.add \cap s = {}

(* What every file was generated from.                                     *)
Written ==
  /\ content = [v \in AllVersions |-> content[v]]
  /\ Fits({}, content[1]) /\ content[1].add = Base
  /\ Fits(Base, content[2])
  /\ Fits(IF stacked THEN Changed(Base, content[2]) ELSE Base, content[3])
  /\ Fits(Base, content[4]) /\ Fits(Changed(Base, content[4]), content[5])

(* The marks, which a merge writes from the first to the last.             *)
Marks ==
  /\ marked \subseteq Branch \cap Existing
  /\ 3 \in marked /\ 2 \in Existing => 2 \in marked
  /\ probe # "none" => marked = Branch \cap Existing
  /\ pc = "merge" => /\ marked \cup queue = Branch \cap Existing /\ probe = "none"
                     /\ 2 \in queue => 3 \notin marked
  /\ probe = "none" /\ ~torn /\ pc # "merge" => marked = {}

(* How far the merge has got.                                              *)
Stages ==
  /\ stacked \in BOOLEAN /\ persistent \in BOOLEAN /\ pulled \in BOOLEAN /\ torn \in BOOLEAN
  /\ pc \in {"merge", "state"} =>
       ~pulled /\ ~torn /\ content[5] = Nothing /\ wanted = Changed(Base, content[4])
  /\ torn \/ probe = "none" => content[5] = Nothing
  /\ pulled => torn \/ probe # "none"
  /\ probe # "none" /\ ~torn /\ pc # "state" =>
       target = Changed(Changed(Base, content[4]), content[5])
  /\ probe = "reconciled" => pulled /\ persistent

Histories ==
  /\ rows \subseteq Existing
  /\ ~pulled => rows \subseteq {1, 2, 3}
  /\ ~persistent => /\ recorded = {} /\ drift = "none"
                    /\ Dirty => rows \subseteq {1, 2, 3}
                    /\ rows # {} => 1 \in rows
  /\ drift \in {"none", "newer", "any"}
  /\ drift = "newer" => pulled /\ 5 \in Existing \ rows

(* Where version v is to be applied before version w, and nothing applies  *)
(* version v any more.                                                     *)
Linked(v, w) == v < w /\ (v = 1 \/ w \in {4, 5} \/ (stacked /\ v = 2))
Over(v) == v \notin Existing \/ content[v] \in Applied \/ (pulled /\ v \in marked)

(* The history tells what has been done to the environment: no reconcile   *)
(* has left it apart, and it does not wait for one.                        *)
Telling == drift # "any" /\ (pc = "mark" \/ ~(Dirty /\ persistent))

Order ==
  Telling =>
    /\ \A v, w \in AllVersions : w \in rows /\ Linked(v, w) => Over(v)
    /\ drift = "newer" => \A v \in AllVersions \ {5} : Over(v)

(* What the command that runs has before it.                               *)
Ahead ==
  /\ pc \in {"migrate", "rebase"} =>
       /\ queue \subseteq Existing
       /\ pulled => ~Dirty /\ queue \cap marked = {}
       /\ ~pulled => queue \subseteq {1, 2, 3}
       /\ \A v, w \in AllVersions : w \in queue /\ Linked(v, w) => v \in queue \/ Over(v)
  /\ pc = "revert" => /\ ~persistent /\ pulled /\ probe # "none" /\ queue = rows \ {1}
                      /\ 1 \in rows /\ rows \subseteq {1, 2, 3}
  /\ pc \in {"reconcile", "mark", "done"} => persistent
  /\ pc = "reconcile" => /\ Dirty \/ drift = "any"
                         /\ aim \in Aims /\ wanted = IF pulled THEN target ELSE Net(aim)
  /\ pc = "mark" => pulled /\ probe # "none"

(* The versions whose effects are in the environment.                      *)
InEffect ==
  LET versions == IF pc = "mark" THEN rows \ marked ELSE Live
  IN  IF drift = "newer" THEN versions \cup {5} ELSE versions

(* Every file adds what is not there and drops what is, so that an element *)
(* is there if an odd number of them touched it, whatever their order.     *)
Toggled ==
  Telling => /\ Steady(content, InEffect)
             /\ \A x : x \in actual <=> Odd(content, InEffect, x)

MergeInv == Written /\ Marks /\ Stages /\ Histories /\ Order /\ Ahead /\ Toggled

LEMMA OddGrows ==
  ASSUME NEW directory, NEW S, NEW v \in AllVersions, v \notin S, NEW x
  PROVE  Odd(directory, S \cup {v}, x) <=> ~(Odd(directory, S, x) <=> Touches(directory[v], x))
<1>1. \A w \in AllVersions :
        Touched(directory, S \cup {v}, w, x)
          <=> IF w = v THEN Touches(directory[v], x) ELSE Touched(directory, S, w, x)
  BY DEF Touched
<1>2. ~Touched(directory, S, v, x)
  BY DEF Touched
<1>3. 1 \in AllVersions /\ 2 \in AllVersions /\ 3 \in AllVersions /\ 4 \in AllVersions
      /\ 5 \in AllVersions
  BY DEF AllVersions
<1>4. v = 1 \/ v = 2 \/ v = 3 \/ v = 4 \/ v = 5
  BY DEF AllVersions
<1> QED BY <1>1, <1>2, <1>3, <1>4 DEF Odd

LEMMA OddShrinks ==
  ASSUME NEW directory, NEW S, NEW v \in AllVersions, v \in S, NEW x
  PROVE  Odd(directory, S \ {v}, x) <=> ~(Odd(directory, S, x) <=> Touches(directory[v], x))
<1> DEFINE R == S \ {v}
<1>1. v \notin R /\ R \cup {v} = S
  OBVIOUS
<1> HIDE DEF R
<1>2. Odd(directory, R \cup {v}, x) <=> ~(Odd(directory, R, x) <=> Touches(directory[v], x))
  BY <1>1, OddGrows
<1>3. Odd(directory, S, x) <=> ~(Odd(directory, R, x) <=> Touches(directory[v], x))
  BY <1>1, <1>2
<1>4. Odd(directory, R, x) <=> ~(Odd(directory, S, x) <=> Touches(directory[v], x))
  BY <1>3
<1> QED BY <1>4 DEF R

LEMMA OddNone ==
  ASSUME NEW directory, NEW x
  PROVE  ~Odd(directory, {}, x)
BY DEF Odd, Touched

(* Only the files of the versions matter.                                  *)
LEMMA OddSame ==
  ASSUME NEW directory, NEW others, NEW S, NEW x,
         \A v \in S \cap AllVersions : directory[v] = others[v]
  PROVE  Odd(directory, S, x) <=> Odd(others, S, x)
<1>1. \A v \in AllVersions : Touched(directory, S, v, x) <=> Touched(others, S, v, x)
  BY DEF Touched
<1>2. 1 \in AllVersions /\ 2 \in AllVersions /\ 3 \in AllVersions /\ 4 \in AllVersions
      /\ 5 \in AllVersions
  BY DEF AllVersions
<1> QED BY <1>1, <1>2 DEF Odd

LEMMA SteadySame ==
  ASSUME NEW directory, NEW others, NEW S,
         \A v \in S \cap AllVersions : directory[v] = others[v], Steady(directory, S)
  PROVE  Steady(others, S)
<1>1. 1 \in AllVersions /\ 2 \in AllVersions /\ 3 \in AllVersions /\ 4 \in AllVersions
      /\ 5 \in AllVersions
  BY DEF AllVersions
<1>2. \A v \in AllVersions : \A x : Touched(directory, S, v, x) <=> Touched(others, S, v, x)
  BY DEF Touched
<1>3. \A v \in AllVersions : \A x, there :
        Turns(directory, S, v, x, there) <=> Turns(others, S, v, x, there)
  BY DEF Turns
<1> DEFINE Good(f, x) ==
             LET in(v) == Touched(f, S, v, x)
                 s2 == in(1)
                 s3 == ~(s2 <=> in(2))
                 s4 == ~(s3 <=> in(3))
                 s5 == ~(s4 <=> in(4))
             IN  /\ Turns(f, S, 1, x, FALSE) /\ Turns(f, S, 2, x, s2)
                 /\ Turns(f, S, 3, x, s3) /\ Turns(f, S, 4, x, s4)
                 /\ Turns(f, S, 5, x, s5)
<1>4. ASSUME NEW x, Good(directory, x) PROVE Good(others, x)
  BY <1>1, <1>2, <1>4 DEF Turns
<1>5. Steady(directory, S) <=> \A x : Good(directory, x)
  BY DEF Steady
<1>6. Steady(others, S) <=> \A x : Good(others, x)
  BY DEF Steady
<1> HIDE DEF Good
<1> QED BY <1>4, <1>5, <1>6

LEMMA SteadyNone ==
  ASSUME NEW directory
  PROVE  Steady(directory, {})
BY DEF Steady, Turns

(* A change that can be made touches what it adds and drops.               *)
LEMMA ChangeToggles ==
  ASSUME NEW s, NEW c, c.drop \subseteq s, c.add \cap s = {}, NEW x
  PROVE  x \in Changed(s, c) <=> ~(x \in s <=> Touches(c, x))
BY DEF Changed, Touches

LEMMA UndoToggles ==
  ASSUME NEW s, NEW c, c.add \subseteq s, c.drop \cap s = {}, NEW x
  PROVE  x \in Changed(s, Undo(c)) <=> ~(x \in s <=> Touches(c, x))
BY DEF Changed, Touches, Undo

LEMMA EarliestIsFirst ==
  ASSUME queue \subseteq AllVersions, queue # {}
  PROVE  Earliest \in queue /\ \A v \in queue : Earliest <= v
<1>1. queue \subseteq Nat
  BY DEF AllVersions
<1>2. \E x \in queue : \A y \in queue : x <= y
  BY <1>1, Minimum
<1> QED BY <1>2 DEF Earliest, Min

(* A version can come late if no later one of the history depends on it.   *)
LEMMA SteadyGrows ==
  ASSUME Written, stacked \in BOOLEAN, NEW S, NEW v \in AllVersions, v \notin S, NEW s,
         Steady(content, S), \A x : x \in s <=> Odd(content, S, x),
         content[v].drop \subseteq s, content[v].add \cap s = {},
         \A w \in S \cap AllVersions : ~Linked(v, w)
  PROVE  Steady(content, S \cup {v})
<1> SUFFICES ASSUME NEW x
             PROVE LET T == S \cup {v}
                       in(w) == Touched(content, T, w, x)
                       s2 == in(1)
                       s3 == ~(s2 <=> in(2))
                       s4 == ~(s3 <=> in(3))
                       s5 == ~(s4 <=> in(4))
                   IN  /\ Turns(content, T, 1, x, FALSE) /\ Turns(content, T, 2, x, s2)
                       /\ Turns(content, T, 3, x, s3) /\ Turns(content, T, 4, x, s4)
                       /\ Turns(content, T, 5, x, s5)
  BY DEF Steady
<1>0. /\ x \in s <=> Odd(content, S, x)
      /\ x \in content[v].drop => x \in s
      /\ x \in content[v].add => x \notin s
  OBVIOUS
<1>1. v = 1 \/ v = 2 \/ v = 3 \/ v = 4 \/ v = 5
  BY DEF AllVersions
<1>2. /\ v = 1 => 2 \notin S /\ 3 \notin S /\ 4 \notin S /\ 5 \notin S
      /\ v = 2 => (stacked => 3 \notin S) /\ 4 \notin S /\ 5 \notin S
      /\ v = 3 => 4 \notin S /\ 5 \notin S
      /\ v = 4 => 5 \notin S
  BY DEF AllVersions, Linked
<1>3. LET in(w) == Touched(content, S, w, x)
          s2 == in(1)
          s3 == ~(s2 <=> in(2))
          s4 == ~(s3 <=> in(3))
          s5 == ~(s4 <=> in(4))
      IN  /\ Turns(content, S, 1, x, FALSE) /\ Turns(content, S, 2, x, s2)
          /\ Turns(content, S, 3, x, s3) /\ Turns(content, S, 4, x, s4)
          /\ Turns(content, S, 5, x, s5)
  BY DEF Steady
<1>4. ~stacked => /\ x \in content[2].drop => x \in Base
                  /\ x \in content[2].add => x \notin Base
                  /\ x \in content[3].drop => x \in Base
                  /\ x \in content[3].add => x \notin Base
  BY DEF Written, Fits
<1> DEFINE a(w) == x \in content[w].add
           d(w) == x \in content[w].drop
           m(w) == w \in S
<1>5. CASE v = 1
  BY <1>0, <1>2, <1>3, <1>5 DEF Turns, Touched, Touches, Odd
<1>6. CASE v = 2
  BY <1>0, <1>2, <1>3, <1>4, <1>6 DEF Turns, Touched, Touches, Odd
<1>7. CASE v = 3
  BY <1>0, <1>2, <1>3, <1>7 DEF Turns, Touched, Touches, Odd
<1>8. CASE v = 4
  BY <1>0, <1>2, <1>3, <1>8 DEF Turns, Touched, Touches, Odd
<1>9. CASE v = 5
  BY <1>0, <1>2, <1>3, <1>9 DEF Turns, Touched, Touches, Odd
<1> QED BY <1>1, <1>5, <1>6, <1>7, <1>8, <1>9

(* A version of a branch can be reverted if none after it has the same     *)
(* elements.                                                               *)
LEMMA SteadyShrinks ==
  ASSUME NEW S, S \subseteq {1, 2, 3}, NEW v \in {2, 3}, v \in S, NEW s,
         Steady(content, S), \A x : x \in s <=> Odd(content, S, x),
         content[v].add \subseteq s, content[v].drop \cap s = {}
  PROVE  Steady(content, S \ {v})
<1> SUFFICES ASSUME NEW x
             PROVE LET T == S \ {v}
                       in(w) == Touched(content, T, w, x)
                       s2 == in(1)
                       s3 == ~(s2 <=> in(2))
                       s4 == ~(s3 <=> in(3))
                       s5 == ~(s4 <=> in(4))
                   IN  /\ Turns(content, T, 1, x, FALSE) /\ Turns(content, T, 2, x, s2)
                       /\ Turns(content, T, 3, x, s3) /\ Turns(content, T, 4, x, s4)
                       /\ Turns(content, T, 5, x, s5)
  BY DEF Steady
<1>0. /\ x \in s <=> Odd(content, S, x)
      /\ x \in content[v].add => x \in s
      /\ x \in content[v].drop => x \notin s
  OBVIOUS
<1>1. v = 2 \/ v = 3
  OBVIOUS
<1>2. 4 \notin S /\ 5 \notin S
  OBVIOUS
<1>3. LET in(w) == Touched(content, S, w, x)
          s2 == in(1)
          s3 == ~(s2 <=> in(2))
          s4 == ~(s3 <=> in(3))
          s5 == ~(s4 <=> in(4))
      IN  /\ Turns(content, S, 1, x, FALSE) /\ Turns(content, S, 2, x, s2)
          /\ Turns(content, S, 3, x, s3) /\ Turns(content, S, 4, x, s4)
          /\ Turns(content, S, 5, x, s5)
  BY DEF Steady
<1>4. CASE v = 2
  BY <1>0, <1>2, <1>3, <1>4 DEF Turns, Touched, Touches, Odd
<1>5. CASE v = 3
  BY <1>0, <1>2, <1>3, <1>5 DEF Turns, Touched, Touches, Odd
<1> QED BY <1>1, <1>4, <1>5

(* The schema s with what version v does to it, if it is one of S.         *)
Stepped(S, v, s) == IF v \in S THEN Changed(s, content[v]) ELSE s

LEMMA NetSteps ==
  ASSUME NEW S
  PROVE  Net(S) = Stepped(S, 5, Stepped(S, 4, Stepped(S, 3, Stepped(S, 2, Stepped(S, 1, {})))))
<1> DEFINE s1 == Stepped(S, 1, {})
           s2 == Stepped(S, 2, s1)
           s3 == Stepped(S, 3, s2)
           s4 == Stepped(S, 4, s3)
           s5 == Stepped(S, 5, s4)
           G(f) == [v \in 0 .. 5 |-> IF v = 0 THEN {} ELSE IF v \in S
                                       THEN Changed(f[v - 1], content[v]) ELSE f[v - 1]]
           g == [v \in 0 .. 5 |-> IF v = 0 THEN {} ELSE IF v = 1 THEN s1 ELSE IF v = 2 THEN s2
                                  ELSE IF v = 3 THEN s3 ELSE IF v = 4 THEN s4 ELSE s5]
           net == CHOOSE f : f = G(f)
<1>1. Net(S) = net[5]
  BY DEF Net
<1>2. g = G(g)
  <2> SUFFICES ASSUME NEW v \in 0 .. 5 PROVE g[v] = G(g)[v]
    OBVIOUS
  <2>1. /\ g[0] = {} /\ g[1] = Stepped(S, 1, g[0]) /\ g[2] = Stepped(S, 2, g[1])
        /\ g[3] = Stepped(S, 3, g[2]) /\ g[4] = Stepped(S, 4, g[3])
        /\ g[5] = Stepped(S, 5, g[4])
    <3> HIDE DEF s1, s2, s3, s4, s5
    <3>1. /\ g[0] = {} /\ g[1] = s1 /\ g[2] = s2 /\ g[3] = s3 /\ g[4] = s4 /\ g[5] = s5
      OBVIOUS
    <3> QED BY <3>1 DEF s1, s2, s3, s4, s5
  <2> HIDE DEF g
  <2>2. v = 0 \/ v = 1 \/ v = 2 \/ v = 3 \/ v = 4 \/ v = 5
    OBVIOUS
  <2> QED BY <2>1, <2>2 DEF Stepped
<1>3. net = G(net)
  <2> HIDE DEF g, G
  <2> QED BY <1>2
<1> HIDE DEF net
<1>4. /\ net[0] = {} /\ net[1] = Stepped(S, 1, net[0]) /\ net[2] = Stepped(S, 2, net[1])
      /\ net[3] = Stepped(S, 3, net[2]) /\ net[4] = Stepped(S, 4, net[3])
      /\ net[5] = Stepped(S, 5, net[4])
  <2>1. \A v \in 0 .. 5 :
          net[v] = IF v = 0 THEN {} ELSE IF v \in S
                     THEN Changed(net[v - 1], content[v]) ELSE net[v - 1]
    BY <1>3
  <2> HIDE DEF G
  <2> QED BY <2>1 DEF Stepped
<1> QED BY <1>1, <1>4

(* The histories of an environment that is not dirty.                      *)

LEMMA NetIsOdd ==
  ASSUME NEW S, Steady(content, S)
  PROVE  \A x : x \in Net(S) <=> Odd(content, S, x)
<1> SUFFICES ASSUME NEW x PROVE x \in Net(S) <=> Odd(content, S, x)
  OBVIOUS
<1> DEFINE s1 == Stepped(S, 1, {})
           s2 == Stepped(S, 2, s1)
           s3 == Stepped(S, 3, s2)
           s4 == Stepped(S, 4, s3)
           s5 == Stepped(S, 5, s4)
<1>1. Net(S) = s5
  BY NetSteps
<1>2. ASSUME NEW s, NEW v, Turns(content, S, v, x, x \in s)
      PROVE  x \in Stepped(S, v, s) <=> ~(x \in s <=> Touched(content, S, v, x))
  BY <1>2 DEF Stepped, Changed, Turns, Touched, Touches
<1> DEFINE in(v) == Touched(content, S, v, x)
           t2 == in(1)
           t3 == ~(t2 <=> in(2))
           t4 == ~(t3 <=> in(3))
           t5 == ~(t4 <=> in(4))
<1>3. /\ Turns(content, S, 1, x, FALSE) /\ Turns(content, S, 2, x, t2)
      /\ Turns(content, S, 3, x, t3) /\ Turns(content, S, 4, x, t4)
      /\ Turns(content, S, 5, x, t5)
  BY DEF Steady
<1>4. x \in s1 <=> t2
  <2>1. Turns(content, S, 1, x, x \in {})
    BY <1>3 DEF Turns
  <2> QED BY <1>2, <2>1
<1>5. x \in s2 <=> t3
  <2> HIDE DEF s1
  <2>1. Turns(content, S, 2, x, x \in s1)
    BY <1>3, <1>4 DEF Turns
  <2> QED BY <1>2, <1>4, <2>1
<1>6. x \in s3 <=> t4
  <2> HIDE DEF s2, t3
  <2>1. Turns(content, S, 3, x, x \in s2)
    BY <1>3, <1>5 DEF Turns
  <2> QED BY <1>2, <1>5, <2>1
<1>7. x \in s4 <=> t5
  <2> HIDE DEF s3, t4
  <2>1. Turns(content, S, 4, x, x \in s3)
    BY <1>3, <1>6 DEF Turns
  <2> QED BY <1>2, <1>6, <2>1
<1>8. x \in s5 <=> ~(t5 <=> in(5))
  <2> HIDE DEF s4, t5
  <2>1. Turns(content, S, 5, x, x \in s4)
    BY <1>3, <1>7 DEF Turns
  <2> QED BY <1>2, <1>7, <2>1
<1>9. ~(t5 <=> in(5)) <=> Odd(content, S, x)
  BY DEF Odd
<1> QED BY <1>1, <1>8, <1>9

(* The versions that a model_state.json stands for.                        *)
Settled(S) ==
  \/ /\ 1 \in S /\ S \subseteq {1, 2, 3}
     /\ stacked /\ 3 \in S /\ 2 \in Existing => 2 \in S
     /\ ~stacked => ~({2, 3} \subseteq S)
  \/ 1 \in S /\ S \subseteq {1, 4, 5} /\ (5 \in S /\ 4 \in Existing => 4 \in S)

LEMMA SettledIsSteady ==
  ASSUME Written, NEW S, Settled(S), stacked \in BOOLEAN
  PROVE  Steady(content, S)
<1> SUFFICES ASSUME NEW x
             PROVE LET in(w) == Touched(content, S, w, x)
                       s2 == in(1)
                       s3 == ~(s2 <=> in(2))
                       s4 == ~(s3 <=> in(3))
                       s5 == ~(s4 <=> in(4))
                   IN  /\ Turns(content, S, 1, x, FALSE) /\ Turns(content, S, 2, x, s2)
                       /\ Turns(content, S, 3, x, s3) /\ Turns(content, S, 4, x, s4)
                       /\ Turns(content, S, 5, x, s5)
  BY DEF Steady
<1>1. /\ x \in content[1].add <=> x \in Base
      /\ x \notin content[1].drop
      /\ x \in content[2].add => x \notin Base
      /\ x \in content[2].drop => x \in Base
      /\ x \in content[4].add => x \notin Base
      /\ x \in content[4].drop => x \in Base
  BY DEF Written, Fits
<1>2. /\ ~stacked => (x \in content[3].add => x \notin Base) /\ (x \in content[3].drop => x \in Base)
      /\ stacked => /\ x \in content[3].add => ~(x \in Base <=> ~Touches(content[2], x))
                    /\ x \in content[3].drop => (x \in Base <=> ~Touches(content[2], x))
  <2>1. x \in Changed(Base, content[2]) <=> ~(x \in Base <=> Touches(content[2], x))
    BY ChangeToggles DEF Written, Fits
  <2>2. x \in content[3].drop => x \in IF stacked THEN Changed(Base, content[2]) ELSE Base
    BY DEF Written, Fits
  <2>3. x \in content[3].add => x \notin IF stacked THEN Changed(Base, content[2]) ELSE Base
    BY DEF Written, Fits
  <2> QED BY <2>1, <2>2, <2>3
<1>3. /\ x \in content[5].add => ~(x \in Base <=> ~Touches(content[4], x))
      /\ x \in content[5].drop => (x \in Base <=> ~Touches(content[4], x))
  <2>1. x \in Changed(Base, content[4]) <=> ~(x \in Base <=> Touches(content[4], x))
    BY ChangeToggles DEF Written, Fits
  <2> QED BY <2>1 DEF Written, Fits
<1>4. \A v \in AllVersions : v \notin Existing => ~Touches(content[v], x)
  BY DEF Existing, Touches, Nothing
<1>5. 2 \in AllVersions /\ 4 \in AllVersions
  BY DEF AllVersions
<1>6. CASE 1 \in S /\ S \subseteq {1, 2, 3} /\ (stacked /\ 3 \in S /\ 2 \in Existing => 2 \in S)
           /\ (~stacked => ~({2, 3} \subseteq S))
  <2>1. 4 \notin S /\ 5 \notin S /\ (~stacked => ~(2 \in S /\ 3 \in S))
        /\ (stacked /\ 3 \in S /\ 2 \notin S => ~Touches(content[2], x))
    BY <1>4, <1>5, <1>6
  <2> QED BY <1>1, <1>2, <1>6, <2>1 DEF Turns, Touched, Touches
<1>7. CASE 1 \in S /\ S \subseteq {1, 4, 5} /\ (5 \in S /\ 4 \in Existing => 4 \in S)
  <2>1. 2 \notin S /\ 3 \notin S /\ (5 \in S /\ 4 \notin S => ~Touches(content[4], x))
    BY <1>4, <1>5, <1>7
  <2> QED BY <1>1, <1>3, <1>7, <2>1 DEF Turns, Touched, Touches
<1> QED BY <1>6, <1>7 DEF Settled

LEMMA OneExists == Written => 1 \in Existing
BY SchemaAssumption DEF Written, Existing, AllVersions, Nothing

(* What a model_state.json stands for can be applied to an empty schema.   *)
LEMMA Aimed ==
  ASSUME MergeInv, pc # "state", NEW of \in Aims
  PROVE  /\ of \subseteq Existing /\ 1 \in of /\ Settled(of)
         /\ pulled => Net(of) = target
         /\ ~pulled \/ torn => /\ of \subseteq {1, 2, 3}
                               /\ stacked /\ 3 \in of /\ 2 \in Existing => 2 \in of
         /\ pulled /\ ~torn => of = Existing \ marked
<1>1. 1 \in Existing /\ Existing \subseteq AllVersions
  BY OneExists DEF MergeInv, Existing
<1>2. ASSUME NEW t, t \subseteq Branch \cap Existing,
             stacked /\ 3 \in t => t = Branch \cap Existing, of \in Readings(t)
      PROVE  /\ of \subseteq Existing /\ 1 \in of /\ Settled(of) /\ of \subseteq {1, 2, 3}
             /\ stacked /\ 3 \in of /\ 2 \in Existing => 2 \in of
  <2>1. CASE ~stacked /\ t = Branch
    <3>1. of = {1, 2} \/ of = {1, 3}
      BY <1>2, <2>1 DEF Readings
    <3>2. 2 \in Existing /\ 3 \in Existing
      BY <1>2, <2>1 DEF Branch
    <3> QED BY <1>1, <2>1, <3>1, <3>2 DEF Settled
  <2>2. CASE ~(~stacked /\ t = Branch)
    <3>1. of = {1} \cup t /\ t \subseteq {2, 3}
      BY <1>2, <2>2 DEF Readings, Branch
    <3>2. ~stacked => ~({2, 3} \subseteq of)
      <4> SUFFICES ASSUME ~stacked, 2 \in of, 3 \in of PROVE FALSE
        OBVIOUS
      <4>1. 2 \in t /\ 3 \in t
        BY <3>1
      <4>2. t = {2, 3}
        BY <3>1, <4>1
      <4> QED BY <2>2, <4>2 DEF Branch
    <3>3. stacked /\ 3 \in of /\ 2 \in Existing => 2 \in of
      BY <1>2, <3>1 DEF Branch
    <3>4. of \subseteq Existing /\ 1 \in of /\ of \subseteq {1, 2, 3}
      <4>1. t \subseteq Existing
        BY <1>2
      <4> QED BY <1>1, <3>1, <4>1
    <3>5. Settled(of)
      BY <3>2, <3>3, <3>4 DEF Settled
    <3> QED BY <3>3, <3>4, <3>5
  <2> QED BY <2>1, <2>2
<1>3. CASE ~pulled
  <2>1. PICK t \in Trees : of \in Readings(t)
    BY <1>3 DEF Aims
  <2>2. t \subseteq Branch \cap Existing /\ (stacked /\ 3 \in t => t = Branch \cap Existing)
    BY <2>1 DEF Trees
  <2> QED BY <1>2, <1>3, <2>1, <2>2
<1>4. CASE pulled /\ torn
  <2>1. of \in Readings(Branch \cap Existing) /\ Net(of) = target
    BY <1>4 DEF Aims
  <2> QED BY <1>2, <1>4, <2>1
<1>5. CASE pulled /\ ~torn
  <2>1. of = Existing \ marked
    BY <1>5 DEF Aims
  <2>2. /\ marked = Branch \cap Existing
        /\ target = Changed(Changed(Base, content[4]), content[5])
    BY <1>5 DEF MergeInv, Marks, Stages
  <2>3. of \subseteq {1, 4, 5} /\ 1 \in of /\ (4 \in Existing => 4 \in of)
        /\ (5 \in Existing => 5 \in of)
    BY <1>1, <2>1, <2>2 DEF AllVersions, Branch
  <2>4. /\ 4 \notin of => content[4] = Nothing
        /\ 5 \notin of => content[5] = Nothing
    BY <2>3 DEF Existing, AllVersions
  <2>5. Stepped(of, 3, Stepped(of, 2, Stepped(of, 1, {}))) = Base
    <3>1. Stepped(of, 1, {}) = Base
      BY <2>3 DEF Stepped, Changed, MergeInv, Written, Fits
    <3> QED BY <2>3, <3>1 DEF Stepped
  <2>6. \A s : Changed(s, Nothing) = s
    BY DEF Changed, Nothing
  <2>7. Stepped(of, 4, Base) = Changed(Base, content[4])
    BY <2>4, <2>6 DEF Stepped
  <2>8. Stepped(of, 5, Changed(Base, content[4])) = target
    BY <2>2, <2>4, <2>6 DEF Stepped
  <2>9. Net(of) = target
    BY <2>5, <2>7, <2>8, NetSteps
  <2> QED BY <1>5, <2>1, <2>3, <2>9 DEF Settled
<1> QED BY <1>3, <1>4, <1>5

LEMMA Matches == MergeInv => SchemaMatchesHistory
<1> SUFFICES ASSUME MergeInv, pc = "idle", ~Dirty, drift # "any"
             PROVE  actual = Net(Live) \/ (drift = "newer" /\ actual = Net(Live \cup {Newer}))
  BY DEF SchemaMatchesHistory
<1>1. Steady(content, InEffect) /\ \A x : x \in actual <=> Odd(content, InEffect, x)
  BY DEF MergeInv, Toggled, Telling
<1>2. \A x : x \in Net(InEffect) <=> Odd(content, InEffect, x)
  BY <1>1, NetIsOdd
<1>3. actual = Net(InEffect)
  BY <1>1, <1>2
<1> QED BY <1>3 DEF InEffect, Newer

LEMMA MergeInit0 == MergeInit => MergeInv
<1> SUFFICES ASSUME MergeInit PROVE MergeInv
  OBVIOUS
<1>1. PICK a \in Branches, b \in Branches :
        content = [v \in AllVersions |-> CASE v = 1 -> Diff({}, Base)
                                          [] v = 2 -> Diff(Base, a)
                                          [] v = 3 -> Diff(IF stacked THEN a ELSE Base, b)
                                          [] OTHER -> Nothing]
  BY DEF MergeInit
<1>2. /\ content = [v \in AllVersions |-> content[v]]
      /\ content[1] = Diff({}, Base) /\ content[2] = Diff(Base, a)
      /\ content[3] = Diff(IF stacked THEN a ELSE Base, b)
      /\ content[4] = Nothing /\ content[5] = Nothing
  BY <1>1 DEF AllVersions
<1>3. \A s, t : Fits(s, Diff(s, t)) /\ Changed(s, Diff(s, t)) = t
  BY DEF Fits, Diff, Changed
<1>4. \A s : Fits(s, Nothing) /\ Changed(s, Nothing) = s
  BY DEF Fits, Nothing, Changed
<1>5. Written
  <2>1. content[1].add = Base
    BY <1>2 DEF Diff
  <2> QED BY <1>2, <1>3, <1>4, <2>1 DEF Written
<1>6. /\ rows = {} /\ recorded = {} /\ actual = {} /\ marked = {} /\ probe = "none"
      /\ pc = "idle" /\ pulled = FALSE /\ torn = FALSE /\ drift = "none"
      /\ stacked \in BOOLEAN /\ persistent \in BOOLEAN
  BY DEF MergeInit
<1>7. Marks /\ Stages /\ Histories /\ Order /\ Ahead
  BY <1>2, <1>6 DEF Marks, Stages, Histories, Order, Ahead
<1>8. Toggled
  <2>1. InEffect = {}
    BY <1>6 DEF InEffect, Live
  <2> QED BY <1>6, <2>1, OddNone, SteadyNone DEF Toggled
<1> QED BY <1>5, <1>7, <1>8 DEF MergeInv

(* A step that changes nothing but the command and what it has to do.      *)
LEMMA Calm ==
  ASSUME MergeInv, UNCHANGED <<repository, environment, plans, drift>>,
         pc \notin {"merge", "state"}, pc' \notin {"merge", "state", "mark"}, Ahead'
  PROVE  MergeInv'
<1>1. /\ Existing' = Existing /\ Dirty' = Dirty /\ rows' = rows /\ pulled' = pulled
      /\ marked' = marked /\ target' = target /\ stacked' = stacked /\ probe' = probe
      /\ content' = content /\ actual' = actual /\ recorded' = recorded /\ plans' = plans
      /\ drift' = drift /\ persistent' = persistent /\ torn' = torn /\ Live' = Live
      /\ Applied' = Applied
  BY DEF Existing, Dirty, Live, Applied, repository, tree, environment
<1>2. Written' /\ Marks' /\ Stages' /\ Histories'
  BY <1>1 DEF MergeInv, Written, Marks, Stages, Histories
<1>3. Telling' => Telling
  BY <1>1 DEF Telling
<1>4. Telling' => InEffect' = InEffect
  <2>1. CASE pc = "mark"
    <3> SUFFICES ASSUME Telling' PROVE InEffect' = InEffect
      OBVIOUS
    <3>1. pulled /\ ~Dirty
      BY <1>1, <2>1 DEF Telling, MergeInv, Ahead
    <3>2. Live = rows \ marked
      BY <3>1 DEF Live, Dirty
    <3> QED BY <1>1, <2>1, <3>2 DEF InEffect
  <2>2. CASE pc # "mark"
    BY <1>1, <2>2 DEF InEffect
  <2> QED BY <2>1, <2>2
<1>5. Order'
  BY <1>1, <1>3 DEF MergeInv, Order, Over, Linked
<1>6. Toggled'
  BY <1>1, <1>3, <1>4 DEF MergeInv, Toggled
<1> QED BY <1>2, <1>5, <1>6 DEF MergeInv

LEMMA StopKeeps ==
  ASSUME MergeInv, Stop, UNCHANGED repository, pc \notin {"merge", "state"}
  PROVE  MergeInv'
<1>1. pc' = "idle" /\ UNCHANGED <<environment, plans, drift>>
  BY DEF Stop
<1>2. Ahead'
  BY <1>1 DEF Ahead
<1> QED BY <1>1, <1>2, Calm

LEMMA MigrateBranchKeeps ==
  ASSUME MergeInv, MigrateBranch
  PROVE  MergeInv'
<1>1. PICK t \in Trees : pc' = "migrate" /\ queue' = ({1} \cup t) \ rows
  BY DEF MigrateBranch, Begin
<1>2. /\ UNCHANGED <<repository, environment, plans, drift>> /\ pc = "idle" /\ ~pulled
  BY DEF MigrateBranch, Begin
<1>3. /\ Existing' = Existing /\ pulled' = pulled /\ rows' = rows /\ marked' = marked
      /\ stacked' = stacked /\ Applied' = Applied /\ content' = content
  BY <1>2 DEF Existing, Applied, repository, tree, environment
<1>4. t \subseteq Branch \cap Existing /\ (stacked /\ 3 \in t => t = Branch \cap Existing)
  BY DEF Trees
<1>5. 1 \in Existing
  BY OneExists DEF MergeInv
<1>6. ASSUME NEW v \in AllVersions, NEW w \in AllVersions, w \in queue', Linked(v, w)
      PROVE  v \in queue' \/ Over(v)
  <2>1. v = 1 \/ (v = 2 /\ stacked /\ w = 3)
    BY <1>1, <1>4, <1>6 DEF Linked, Branch, AllVersions
  <2>2. v \in rows => Over(v)
    BY DEF Over, Applied
  <2>3. CASE v = 1
    BY <1>1, <2>2, <2>3
  <2>4. CASE v = 2 /\ stacked /\ w = 3
    <3>1. t = Branch \cap Existing
      BY <1>1, <1>4, <1>6, <2>4
    <3> QED BY <1>1, <2>2, <2>4, <3>1 DEF Over, Branch
  <2> QED BY <2>1, <2>3, <2>4
<1>7. Ahead'
  <2>1. queue' \subseteq Existing /\ queue' \subseteq {1, 2, 3}
    BY <1>1, <1>4, <1>5 DEF Branch
  <2>2. \A v, w \in AllVersions : w \in queue' /\ Linked(v, w)' => v \in queue' \/ Over(v)'
    BY <1>3, <1>6 DEF Linked, Over
  <2> QED BY <1>1, <1>2, <1>3, <2>1, <2>2 DEF Ahead
<1> QED BY <1>1, <1>2, <1>7, Calm

(* Everything that is not superseded and not applied.                      *)
LEMMA RunnableAhead ==
  ASSUME pc' \in {"migrate", "rebase"}, pulled', ~Dirty', queue' = (Existing \ marked)' \ rows'
  PROVE  Ahead'
<1>1. ASSUME NEW v \in AllVersions, NEW w \in AllVersions, w \in queue', Linked(v, w)'
      PROVE  v \in queue' \/ Over(v)'
  BY <1>1 DEF Over, Applied
<1> QED BY <1>1 DEF Ahead

LEMMA MigrateMergedKeeps ==
  ASSUME MergeInv, MigrateMerged
  PROVE  MergeInv'
<1>1. /\ UNCHANGED <<repository, environment, plans, drift>> /\ pc = "idle" /\ pulled /\ ~Dirty
      /\ pc' = "migrate" /\ queue' = Existing \ (marked \cup rows)
  BY DEF MigrateMerged, Begin, Runnable
<1>2. Ahead'
  <2>1. pulled' /\ ~Dirty' /\ Existing' = Existing /\ marked' = marked /\ rows' = rows
    BY <1>1 DEF Existing, Dirty, repository, tree, environment
  <2> QED BY <1>1, <2>1, RunnableAhead
<1> QED BY <1>1, <1>2, Calm

LEMMA ReapplyKeeps ==
  ASSUME MergeInv, Reapply
  PROVE  MergeInv'
<1>1. /\ UNCHANGED <<repository, environment, plans, drift>> /\ pc = "revert" /\ queue = {}
      /\ pc' = "rebase" /\ queue' = Existing \ (marked \cup rows)
  BY DEF Reapply, Begin, Runnable
<1>2. pulled /\ rows \subseteq {1} /\ 1 \notin marked
  BY <1>1 DEF MergeInv, Ahead, Marks, Branch
<1>3. Ahead'
  <2>1. pulled' /\ ~Dirty' /\ Existing' = Existing /\ marked' = marked /\ rows' = rows
    BY <1>1, <1>2 DEF Existing, Dirty, repository, tree, environment
  <2> QED BY <1>1, <2>1, RunnableAhead
<1> QED BY <1>1, <1>3, Calm

LEMMA StartRebaseKeeps ==
  ASSUME MergeInv, StartRebase
  PROVE  MergeInv'
<1>1. /\ UNCHANGED <<repository, environment, plans, drift>> /\ pc = "idle"
      /\ pc' = "revert" /\ queue' = rows \ {1} /\ ~persistent /\ Dirty /\ probe # "none"
  BY DEF StartRebase, Rebasing, Begin
<1>2. rows \subseteq {1, 2, 3} /\ 1 \in rows /\ pulled
  BY <1>1 DEF MergeInv, Histories, Dirty
<1>3. Ahead'
  BY <1>1, <1>2 DEF Ahead, repository, environment
<1> QED BY <1>1, <1>3, Calm

LEMMA SkipFirstKeeps ==
  ASSUME MergeInv, SkipFirst
  PROVE  MergeInv'
<1>1. /\ UNCHANGED <<repository, environment, plans, drift, pc, aim, wanted>>
      /\ queue' = queue \ {Earliest} /\ pc \in {"migrate", "reconcile", "rebase"}
      /\ queue # {} /\ AlreadyApplied(Earliest)
  BY DEF SkipFirst, Applying
<1>2. /\ Existing' = Existing /\ Dirty' = Dirty /\ rows' = rows /\ pulled' = pulled
      /\ marked' = marked /\ target' = target /\ stacked' = stacked /\ content' = content
      /\ persistent' = persistent /\ Applied' = Applied /\ torn' = torn
  BY <1>1 DEF Existing, Dirty, Applied, repository, tree, environment
<1>3. Ahead'
  <2>1. CASE pc = "reconcile"
    <3>1. Aims' = Aims /\ \A S : Net(S)' = Net(S)
      BY <1>2 DEF Aims, Trees, Readings, Net, Changed
    <3> QED BY <1>1, <1>2, <2>1, <3>1 DEF MergeInv, Ahead
  <2>2. CASE pc \in {"migrate", "rebase"}
    <3>1. content[Earliest] \in Applied
      BY <1>1, <2>2 DEF AlreadyApplied, Content
    <3>2. Over(Earliest)
      BY <3>1 DEF Over
    <3>3. \A v, w \in AllVersions : w \in queue' /\ Linked(v, w)' => v \in queue' \/ Over(v)'
      BY <1>1, <1>2, <2>2, <3>2 DEF MergeInv, Ahead, Linked, Over
    <3> QED BY <1>1, <1>2, <2>2, <3>3 DEF MergeInv, Ahead
  <2> QED BY <1>1, <2>1, <2>2
<1> QED BY <1>1, <1>3, Calm

(* What the last version does is visible, so it cannot be applied again.   *)
LEMMA LastIsVisible ==
  ASSUME NEW S, 5 \in S, Steady(content, S), 5 \in Existing, Written,
         NEW s, \A x : x \in s <=> Odd(content, S, x)
  PROVE  ~(content[5].drop \subseteq s /\ content[5].add \cap s = {})
<1>1. content[5] = [add |-> content[5].add, drop |-> content[5].drop]
  BY DEF Written, Fits
<1>2. content[5].add # {} \/ content[5].drop # {}
  BY <1>1 DEF Existing, Nothing
<1>3. ASSUME NEW x PROVE /\ x \in content[5].add => x \in s
                         /\ x \in content[5].drop => x \notin s
  <2>1. LET in(w) == Touched(content, S, w, x)
            s2 == in(1)
            s3 == ~(s2 <=> in(2))
            s4 == ~(s3 <=> in(3))
            s5 == ~(s4 <=> in(4))
        IN  Turns(content, S, 5, x, s5)
    BY DEF Steady
  <2> QED BY <2>1 DEF Odd, Turns, Touched, Touches
<1> QED BY <1>2, <1>3

LEMMA ApplyVersionKeeps ==
  ASSUME MergeInv, ApplyFirst, pc \in {"migrate", "rebase"}
  PROVE  MergeInv'
<1>0. PICK e : e = Earliest
  OBVIOUS
<1>1. /\ UNCHANGED <<repository, plans, pc, wanted, aim, drift, recorded>>
      /\ queue' = queue \ {e} /\ queue # {} /\ rows' = rows \cup {e}
      /\ actual' = Changed(actual, content[e]) /\ content[e] \notin Applied
      /\ content[e].drop \subseteq actual /\ content[e].add \cap actual = {}
  BY <1>0 DEF ApplyFirst, Applying, AlreadyApplied, Content, Applicable
<1>2. /\ queue \subseteq Existing
      /\ pulled => ~Dirty /\ queue \cap marked = {}
      /\ ~pulled => queue \subseteq {1, 2, 3}
      /\ \A v, w \in AllVersions : w \in queue /\ Linked(v, w) => v \in queue \/ Over(v)
  BY DEF MergeInv, Ahead
<1>3. /\ e \in queue /\ (\A v \in queue : e <= v)
  <2>1. queue \subseteq AllVersions
    BY <1>2 DEF Existing
  <2> QED BY <1>0, <1>1, <2>1, EarliestIsFirst
<1>4. e \in AllVersions /\ e \in Existing /\ e \notin rows /\ (pulled => e \notin marked)
  BY <1>1, <1>2, <1>3 DEF Existing, Applied
<1>5. /\ Existing' = Existing /\ pulled' = pulled /\ marked' = marked /\ target' = target
      /\ stacked' = stacked /\ probe' = probe /\ content' = content /\ drift' = drift
      /\ persistent' = persistent /\ torn' = torn /\ plans' = plans /\ recorded' = recorded
      /\ pc' = pc /\ Applied' = Applied \cup {content[e]}
  BY <1>1 DEF Existing, Applied, repository, tree
<1>6. Dirty' = Dirty /\ ~Dirty
  BY <1>1, <1>2, <1>4, <1>5 DEF Dirty
<1>7. ~Over(e) /\ Over(e)' /\ \A v : Over(v) => Over(v)'
  BY <1>1, <1>4, <1>5 DEF Over
<1>8. Telling' = Telling
  BY <1>5, <1>6 DEF Telling
<1>9. drift # "newer"
  <2> SUFFICES ASSUME drift = "newer" PROVE FALSE
    OBVIOUS
  <2>1. Telling
    BY <1>6 DEF Telling
  <2>2. e = 5
    BY <1>4, <1>7, <2>1 DEF MergeInv, Order
  <2>3. 5 \in InEffect
    BY DEF InEffect
  <2>4. Steady(content, InEffect) /\ \A x : x \in actual <=> Odd(content, InEffect, x)
    BY <2>1 DEF MergeInv, Toggled
  <2> QED BY <1>1, <1>4, <2>2, <2>3, <2>4, LastIsVisible DEF MergeInv
<1>10. Written' /\ Marks' /\ Stages'
  BY <1>5 DEF MergeInv, Written, Marks, Stages
<1>11. Histories'
  <2>1. rows' \subseteq Existing' /\ (~pulled' => rows' \subseteq {1, 2, 3})
    BY <1>1, <1>2, <1>3, <1>4, <1>5 DEF MergeInv, Histories
  <2>2. ASSUME ~persistent PROVE 1 \in rows'
    <3>1. CASE e = 1
      BY <1>1, <3>1
    <3>2. CASE e # 1
      <4>1. 1 \in AllVersions /\ 1 < e
        BY <1>4, <3>2 DEF AllVersions
      <4>2. Linked(1, e) /\ 1 \notin queue
        BY <1>3, <4>1, <1>4 DEF Linked, AllVersions
      <4>3. Over(1)
        BY <1>2, <1>3, <1>4, <4>1, <4>2
      <4>4. 1 \in Existing /\ 1 \notin marked
        BY OneExists DEF MergeInv, Marks, Branch
      <4>5. recorded = {}
        BY <2>2 DEF MergeInv, Histories
      <4>6. rows # {}
        BY <4>3, <4>4, <4>5 DEF Over, Applied
      <4> QED BY <1>1, <2>2, <4>6 DEF MergeInv, Histories
    <3> QED BY <3>1, <3>2
  <2> QED BY <1>5, <1>6, <1>9, <2>1, <2>2 DEF MergeInv, Histories
<1>12. Order'
  <2> SUFFICES ASSUME Telling, NEW v \in AllVersions, NEW w \in AllVersions, w \in rows',
                      Linked(v, w)
               PROVE  Over(v)'
    BY <1>5, <1>8, <1>9 DEF Order, Linked
  <2>1. CASE w \in rows
    BY <1>7, <2>1 DEF MergeInv, Order
  <2>2. CASE w = e
    <3>1. v \notin queue
      BY <1>3, <1>4, <2>2 DEF Linked, AllVersions
    <3> QED BY <1>2, <1>3, <1>7, <2>2, <3>1
  <2> QED BY <1>1, <2>1, <2>2
<1>13. Ahead'
  <2>1. \A v, w \in AllVersions : w \in queue' /\ Linked(v, w)' => v \in queue' \/ Over(v)'
    BY <1>1, <1>2, <1>5, <1>7 DEF Linked
  <2> QED BY <1>1, <1>2, <1>5, <1>6, <2>1 DEF Ahead
<1>14. Toggled'
  <2> SUFFICES ASSUME Telling
               PROVE  Steady(content, InEffect') /\ \A x : x \in actual' <=> Odd(content, InEffect', x)
    BY <1>5, <1>8 DEF Toggled
  <2>1. InEffect = Live /\ InEffect' = Live'
    BY <1>5, <1>9 DEF InEffect
  <2>2. probe = "reconciled" => pulled
    BY DEF MergeInv, Stages
  <2>3. Live' = Live \cup {e} /\ e \notin Live /\ Live \subseteq rows
    BY <1>1, <1>4, <1>5, <2>2 DEF Live
  <2>4. Steady(content, Live) /\ \A x : x \in actual <=> Odd(content, Live, x)
    BY <2>1 DEF MergeInv, Toggled
  <2>5. \A w \in Live \cap AllVersions : ~Linked(e, w)
    BY <1>4, <1>7, <2>3 DEF MergeInv, Order
  <2>6. Steady(content, Live \cup {e})
    BY <1>1, <1>4, <2>3, <2>4, <2>5, SteadyGrows DEF MergeInv, Stages
  <2>7. ASSUME NEW x PROVE x \in actual' <=> Odd(content, Live \cup {e}, x)
    <3>1. x \in actual' <=> ~(x \in actual <=> Touches(content[e], x))
      BY <1>1, ChangeToggles
    <3> QED BY <1>4, <2>3, <2>4, <3>1, OddGrows
  <2> QED BY <2>1, <2>3, <2>6, <2>7
<1> QED BY <1>10, <1>11, <1>12, <1>13, <1>14 DEF MergeInv

(* A file of a reconciliation stands for nothing in the history.           *)
LEMMA ApplyPlanKeeps ==
  ASSUME MergeInv, ApplyFirst, pc = "reconcile"
  PROVE  MergeInv'
<1>1. /\ UNCHANGED <<repository, plans, pc, wanted, aim, drift, rows>>
      /\ persistent /\ (Dirty \/ drift = "any")
      /\ aim \in Aims /\ wanted = IF pulled THEN target ELSE Net(aim)
  BY DEF ApplyFirst, MergeInv, Ahead
<1>2. /\ Existing' = Existing /\ Dirty' = Dirty /\ rows' = rows /\ pulled' = pulled
      /\ marked' = marked /\ target' = target /\ stacked' = stacked /\ probe' = probe
      /\ content' = content /\ drift' = drift /\ persistent' = persistent /\ torn' = torn
      /\ pc' = pc
  BY <1>1 DEF Existing, Dirty, repository, tree
<1>3. ~Telling'
  BY <1>1, <1>2 DEF Telling
<1>4. Aims' = Aims /\ \A S : Net(S)' = Net(S)
  BY <1>2 DEF Aims, Trees, Readings, Net, Changed
<1>5. Ahead'
  BY <1>1, <1>2, <1>4 DEF Ahead
<1>6. Written' /\ Marks' /\ Stages' /\ Histories'
  BY <1>1, <1>2 DEF MergeInv, Written, Marks, Stages, Histories
<1> QED BY <1>3, <1>5, <1>6 DEF MergeInv, Order, Toggled

LEMMA StartReconcileKeeps ==
  ASSUME MergeInv, StartReconcile
  PROVE  MergeInv'
<1>1. /\ UNCHANGED <<repository, environment>> /\ pc = "idle" /\ persistent
      /\ aim' \in Aims /\ wanted' = (IF pulled THEN target ELSE Net(aim'))
      /\ pc' = "reconcile" /\ drift' = IF Dirty THEN drift ELSE "any"
  BY DEF StartReconcile, Begin
<1>2. /\ Existing' = Existing /\ Dirty' = Dirty /\ rows' = rows /\ pulled' = pulled
      /\ marked' = marked /\ target' = target /\ stacked' = stacked /\ probe' = probe
      /\ content' = content /\ persistent' = persistent /\ torn' = torn
  BY <1>1 DEF Existing, Dirty, repository, tree, environment
<1>3. (Dirty \/ drift' = "any") /\ ~Telling'
  BY <1>1, <1>2 DEF Telling
<1>4. Aims' = Aims /\ \A S : Net(S)' = Net(S)
  BY <1>2 DEF Aims, Trees, Readings, Net, Changed
<1>5. Ahead'
  BY <1>1, <1>2, <1>3, <1>4 DEF Ahead
<1>6. Written' /\ Marks' /\ Stages' /\ Histories'
  BY <1>1, <1>2 DEF MergeInv, Written, Marks, Stages, Histories
<1> QED BY <1>3, <1>5, <1>6 DEF MergeInv, Order, Toggled

(* What a reconcile has reached is what its target stands for, also where  *)
(* the rows of superseded versions stay.                                   *)
LEMMA RecordVersionsKeeps ==
  ASSUME MergeInv, RecordVersions
  PROVE  MergeInv'
<1> DEFINE known == pulled /\ probe # "none"
           force == IF pulled THEN rows' \ marked ELSE rows'
<1>1. /\ UNCHANGED <<repository, actual, recorded, plans, queue, wanted, aim>>
      /\ pc = "reconcile" /\ actual = wanted
      /\ rows' = (IF known THEN rows \cup ({4} \cap Existing) ELSE rows)
      /\ pc' = (IF known THEN "mark" ELSE "done")
      /\ drift' = IF aim = force THEN "none"
                  ELSE IF aim = force \cup {5} THEN "newer" ELSE "any"
  BY DEF RecordVersions, Converged, Merged, Newer, InForce
<1> HIDE DEF known, force
<1>2. persistent /\ aim \in Aims /\ wanted = IF pulled THEN target ELSE Net(aim)
  BY <1>1 DEF MergeInv, Ahead
<1>3. /\ aim \subseteq Existing /\ 1 \in aim /\ Settled(aim) /\ (pulled => Net(aim) = target)
      /\ ~pulled \/ torn => /\ aim \subseteq {1, 2, 3}
                            /\ stacked /\ 3 \in aim /\ 2 \in Existing => 2 \in aim
      /\ pulled /\ ~torn => aim = Existing \ marked
  BY <1>1, <1>2, Aimed
<1>4. Steady(content, aim) /\ \A x : x \in actual <=> Odd(content, aim, x)
  <2>1. Steady(content, aim)
    BY <1>3, SettledIsSteady DEF MergeInv, Stages
  <2>2. actual = Net(aim)
    BY <1>1, <1>2, <1>3
  <2> QED BY <2>1, <2>2, NetIsOdd
<1>5. /\ Existing' = Existing /\ pulled' = pulled /\ marked' = marked /\ target' = target
      /\ stacked' = stacked /\ probe' = probe /\ content' = content /\ persistent' = persistent
      /\ torn' = torn /\ actual' = actual /\ plans' = plans /\ recorded' = recorded
  BY <1>1 DEF Existing, repository, tree
<1>6. /\ rows \subseteq rows' /\ rows' \subseteq rows \cup {4} /\ rows' \subseteq Existing
      /\ ~pulled => rows' = rows /\ rows' \subseteq {1, 2, 3}
  BY <1>1 DEF MergeInv, Histories, known
<1>7. 4 \notin marked /\ 5 \notin marked /\ marked \subseteq Existing
      /\ (3 \in marked /\ 2 \in Existing => 2 \in marked)
  BY DEF MergeInv, Marks, Branch
<1>8. drift' = "newer" => pulled /\ ~torn /\ 5 \in Existing \ rows' /\ aim = force \cup {5}
  <2> SUFFICES ASSUME drift' = "newer"
               PROVE  pulled /\ ~torn /\ 5 \in Existing \ rows' /\ aim = force \cup {5}
    OBVIOUS
  <2>1. aim = force \cup {5} /\ aim # force
    BY <1>1
  <2>2. 5 \in aim /\ 5 \notin force
    BY <2>1
  <2>3. pulled /\ ~torn
    BY <1>3, <2>2
  <2> QED BY <1>3, <1>7, <2>1, <2>2, <2>3 DEF force
<1>9. drift' # "any" => aim = force \/ (drift' = "newer" /\ aim = force \cup {5})
  BY <1>1
<1>10. \A v \in rows' : Over(v)'
  BY DEF Over, Applied
<1>11. Written' /\ Marks' /\ Stages'
  BY <1>1, <1>5 DEF MergeInv, Written, Marks, Stages
<1>12. Histories'
  <2>1. drift' \in {"none", "newer", "any"}
    BY <1>1
  <2> QED BY <1>2, <1>5, <1>6, <1>8, <2>1 DEF Histories
<1>13. Ahead'
  BY <1>1, <1>2, <1>5 DEF Ahead, known
<1>14. Order'
  <2> SUFFICES ASSUME drift' # "any"
               PROVE  /\ \A v, w \in AllVersions : w \in rows' /\ Linked(v, w) => Over(v)'
                      /\ drift' = "newer" => \A v \in AllVersions \ {5} : Over(v)'
    BY <1>5 DEF Order, Telling, Linked
  <2>1. CASE pulled /\ ~torn
    <3>1. ASSUME NEW v \in AllVersions, v # 5 PROVE Over(v)'
      <4>1. CASE v \in Existing \ marked
        <5>1. v \in force
          BY <1>3, <1>9, <2>1, <3>1, <4>1
        <5> QED BY <1>10, <2>1, <5>1 DEF force
      <4>2. CASE v \notin Existing \ marked
        BY <1>5, <2>1, <4>2 DEF Over
      <4> QED BY <4>1, <4>2
    <3>2. \A v, w \in AllVersions : Linked(v, w) => v # 5
      BY DEF Linked, AllVersions
    <3> QED BY <3>1, <3>2
  <2>2. CASE ~(pulled /\ ~torn)
    <3>1. aim = force /\ aim \subseteq {1, 2, 3} /\ drift' # "newer"
      BY <1>3, <1>8, <1>9, <2>2
    <3>2. ASSUME NEW v \in AllVersions, NEW w \in AllVersions, w \in rows', Linked(v, w)
          PROVE  Over(v)'
      <4>1. w \notin {4, 5}
        BY <1>6, <1>7, <3>1, <3>2 DEF force
      <4>2. v = 1 \/ (stacked /\ v = 2 /\ w = 3)
        BY <3>2, <4>1 DEF Linked, AllVersions
      <4>3. CASE v = 1
        BY <1>3, <1>10, <3>1, <4>3 DEF force
      <4>4. CASE stacked /\ v = 2 /\ w = 3
        <5>1. CASE pulled /\ 3 \in marked
          BY <1>5, <1>7, <4>4, <5>1 DEF Over
        <5>2. CASE ~(pulled /\ 3 \in marked)
          <6>1. 3 \in aim
            BY <3>1, <3>2, <4>4, <5>2 DEF force
          <6>2. 2 \in Existing => 2 \in rows'
            BY <1>3, <2>2, <3>1, <4>4, <6>1 DEF force
          <6> QED BY <1>5, <1>10, <4>4, <6>2 DEF Over
        <5> QED BY <5>1, <5>2
      <4> QED BY <4>2, <4>3, <4>4
    <3> QED BY <3>1, <3>2
  <2> QED BY <2>1, <2>2
<1>15. Toggled'
  <2> SUFFICES ASSUME drift' # "any", pc' = "mark" \/ ~Dirty' PROVE InEffect' = aim
    BY <1>2, <1>4, <1>5 DEF Toggled, Telling
  <2>1. (IF pc' = "mark" THEN rows' \ marked ELSE Live') = force
    <3>1. CASE known
      BY <1>1, <3>1 DEF known, force
    <3>2. CASE ~known
      <4>1. ~pulled \/ probe = "none"
        BY <3>2 DEF known
      <4>2. Live' = rows'
        BY <1>5, <4>1 DEF Live, MergeInv, Stages
      <4>3. pulled => rows' \cap marked = {}
        BY <1>1, <1>5, <3>2, <4>1 DEF Dirty
      <4> QED BY <1>1, <3>2, <4>2, <4>3 DEF force
    <3> QED BY <3>1, <3>2
  <2>2. InEffect' = IF drift' = "newer" THEN force \cup {5} ELSE force
    BY <1>5, <2>1 DEF InEffect
  <2> QED BY <1>8, <1>9, <2>2
<1> QED BY <1>11, <1>12, <1>13, <1>14, <1>15 DEF MergeInv

LEMMA MarkReconciledKeeps ==
  ASSUME MergeInv, MarkReconciled
  PROVE  MergeInv'
<1>1. /\ UNCHANGED <<tree, persistent, pulled, environment, plans, queue, wanted, aim, drift>>
      /\ pc = "mark" /\ probe' = "reconciled" /\ pc' = "done"
  BY DEF MarkReconciled
<1>2. persistent /\ pulled /\ probe # "none"
  BY <1>1 DEF MergeInv, Ahead
<1>3. /\ Existing' = Existing /\ pulled' = pulled /\ marked' = marked /\ target' = target
      /\ stacked' = stacked /\ content' = content /\ persistent' = persistent /\ torn' = torn
      /\ actual' = actual /\ plans' = plans /\ recorded' = recorded /\ rows' = rows
      /\ Applied' = Applied /\ drift' = drift
  BY <1>1 DEF Existing, Applied, tree, environment
<1>4. ~Dirty' /\ Live' = rows \ marked
  BY <1>1, <1>3 DEF Dirty, Live
<1>5. Telling' => Telling
  BY <1>1, <1>3 DEF Telling
<1>6. InEffect' = InEffect
  BY <1>1, <1>3, <1>4 DEF InEffect
<1>7. Written' /\ Marks' /\ Stages' /\ Histories'
  BY <1>1, <1>2, <1>3, <1>4 DEF MergeInv, Written, Marks, Stages, Histories
<1>8. Ahead'
  BY <1>1, <1>2, <1>3 DEF Ahead
<1>9. Order' /\ Toggled'
  BY <1>3, <1>5, <1>6 DEF MergeInv, Order, Over, Linked, Toggled
<1> QED BY <1>7, <1>8, <1>9 DEF MergeInv

LEMMA DropEverythingKeeps ==
  ASSUME MergeInv, DropEverything, pulled, ~persistent, pc \notin {"merge", "state"}
  PROVE  MergeInv'
<1>1. /\ UNCHANGED <<repository, plans, wanted, aim>>
      /\ actual' = {} /\ rows' = {} /\ recorded' = {} /\ drift' = "none"
      /\ pc' = "rebase" /\ queue' = Existing \ marked
  BY DEF DropEverything, Begin
<1>2. /\ Existing' = Existing /\ pulled' = pulled /\ marked' = marked /\ target' = target
      /\ stacked' = stacked /\ content' = content /\ persistent' = persistent /\ torn' = torn
      /\ probe' = probe
  BY <1>1 DEF Existing, repository, tree
<1>3. ~Dirty' /\ Live' = {}
  BY <1>1 DEF Dirty, Live
<1>4. Ahead'
  BY <1>1, <1>2, <1>3, RunnableAhead
<1>5. Written' /\ Marks' /\ Stages' /\ Histories'
  BY <1>1, <1>2, <1>3 DEF MergeInv, Written, Marks, Stages, Histories
<1>6. Order'
  BY <1>1 DEF Order
<1>7. Toggled'
  <2>1. InEffect' = {}
    BY <1>1, <1>3 DEF InEffect
  <2> QED BY <1>1, <2>1, OddNone, SteadyNone DEF Toggled
<1> QED BY <1>4, <1>5, <1>6, <1>7 DEF MergeInv

LEMMA ResetKeeps ==
  ASSUME MergeInv, Reset \/ ResetAfterFailure
  PROVE  MergeInv'
<1>1. DropEverything /\ pc \in {"idle", "revert"}
  BY DEF Reset, ResetAfterFailure, Rebasing
<1>2. pulled /\ ~persistent
  BY DEF Reset, ResetAfterFailure, Rebasing, Dirty, MergeInv, Ahead
<1> QED BY <1>1, <1>2, DropEverythingKeeps

(* The versions of the branches are reverted in any order.                 *)
LEMMA RevertFirstKeeps ==
  ASSUME MergeInv, RevertFirst
  PROVE  MergeInv'
<1>0. PICK e : e = Earliest
  OBVIOUS
<1>1. /\ UNCHANGED <<repository, recorded, plans, pc, wanted, aim, drift>>
      /\ pc = "revert" /\ queue # {} /\ queue' = queue \ {e} /\ rows' = rows \ {e}
      /\ actual' = Changed(actual, Undo(content[e]))
      /\ content[e].add \subseteq actual /\ content[e].drop \cap actual = {}
  BY <1>0 DEF RevertFirst, Applicable, Undo
<1>2. /\ ~persistent /\ pulled /\ probe # "none" /\ queue = rows \ {1}
      /\ 1 \in rows /\ rows \subseteq {1, 2, 3}
  BY <1>1 DEF MergeInv, Ahead
<1>3. e \in queue /\ e \in {2, 3} /\ e \in rows
  <2>1. queue \subseteq AllVersions
    BY <1>2 DEF AllVersions
  <2>2. e \in queue
    BY <1>0, <1>1, <2>1, EarliestIsFirst
  <2> QED BY <1>2, <2>2
<1>4. /\ Existing' = Existing /\ pulled' = pulled /\ marked' = marked /\ target' = target
      /\ stacked' = stacked /\ content' = content /\ persistent' = persistent /\ torn' = torn
      /\ probe' = probe /\ recorded' = recorded /\ drift' = drift
  BY <1>1 DEF Existing, repository, tree
<1>5. /\ drift = "none" /\ Telling /\ InEffect = rows /\ InEffect' = rows'
      /\ marked = Branch \cap Existing
  BY <1>1, <1>2, <1>4 DEF MergeInv, Histories, Telling, InEffect, Live, Stages, Marks
<1>6. Written' /\ Marks' /\ Stages'
  BY <1>1, <1>4 DEF MergeInv, Written, Marks, Stages
<1>7. Histories'
  BY <1>1, <1>2, <1>3, <1>4 DEF MergeInv, Histories
<1>8. Ahead'
  BY <1>1, <1>2, <1>3, <1>4 DEF Ahead
<1>9. Order'
  <2>1. ASSUME NEW v \in AllVersions, NEW w \in AllVersions, w \in rows', Linked(v, w)
        PROVE  Over(v)'
    <3>1. v = 1 \/ v = 2
      BY <1>1, <1>2, <2>1 DEF Linked, AllVersions
    <3>2. 1 \in rows'
      BY <1>1, <1>2, <1>3
    <3>3. v = 1 => Over(v)'
      BY <3>2 DEF Over, Applied
    <3>4. v = 2 => Over(v)'
      BY <1>2, <1>4, <1>5 DEF Over, Branch
    <3> QED BY <3>1, <3>3, <3>4
  <2> QED BY <1>4, <1>5, <2>1 DEF Order, Linked
<1>10. Toggled'
  <2>1. Steady(content, rows) /\ \A x : x \in actual <=> Odd(content, rows, x)
    BY <1>5 DEF MergeInv, Toggled
  <2>2. Steady(content, rows \ {e})
    BY <1>1, <1>2, <1>3, <2>1, SteadyShrinks
  <2>3. ASSUME NEW x PROVE x \in actual' <=> Odd(content, rows \ {e}, x)
    <3>1. x \in actual' <=> ~(x \in actual <=> Touches(content[e], x))
      BY <1>1, UndoToggles
    <3>2. e \in AllVersions
      BY <1>3 DEF AllVersions
    <3> QED BY <1>3, <2>1, <3>1, <3>2, OddShrinks
  <2> QED BY <1>1, <1>4, <1>5, <2>2, <2>3 DEF Toggled
<1> QED BY <1>6, <1>7, <1>8, <1>9, <1>10 DEF MergeInv

(* What is done in the repository disturbs no version that the history     *)
(* has, or that one of them depends on.                                    *)
LEMMA HistoryKept ==
  ASSUME MergeInv, pc # "mark", pc' # "mark",
         UNCHANGED <<environment, plans, drift, stacked, persistent>>,
         drift # "newer", Telling' => Telling, Live' = Live,
         pulled => pulled' /\ marked' = marked,
         NEW c \in AllVersions, \A w \in rows : w \in AllVersions /\ w <= c /\ w # c,
         \A v \in AllVersions \ {c} : content'[v] = content[v]
  PROVE  Order' /\ Toggled'
<1>1. /\ rows' = rows /\ recorded' = recorded /\ plans' = plans /\ drift' = drift
      /\ actual' = actual /\ stacked' = stacked
  BY DEF environment
<1>2. c \notin rows /\ \A v \in rows : content'[v] = content[v]
  OBVIOUS
<1>3. Applied' = Applied
  BY <1>1, <1>2 DEF Applied
<1>4. \A v \in AllVersions \ {c} : Over(v) => Over(v)'
  BY <1>3 DEF Over, Existing
<1>5. \A v, w \in AllVersions : w \in rows /\ Linked(v, w) => v # c
  BY DEF Linked, AllVersions
<1>6. Order'
  BY <1>1, <1>4, <1>5 DEF MergeInv, Order, Linked
<1>7. InEffect = Live /\ InEffect' = Live /\ Live \subseteq rows
  BY <1>1 DEF InEffect, Live
<1>8. Toggled'
  <2> SUFFICES ASSUME Telling
               PROVE  /\ Steady(content', Live)
                      /\ \A x : x \in actual <=> Odd(content', Live, x)
    BY <1>1, <1>7 DEF Toggled
  <2>1. Steady(content, Live) /\ \A x : x \in actual <=> Odd(content, Live, x)
    BY <1>7 DEF MergeInv, Toggled
  <2>2. \A v \in Live \cap AllVersions : content[v] = content'[v]
    BY <1>2, <1>7
  <2>3. Steady(content', Live)
    BY <2>1, <2>2, SteadySame
  <2>4. \A x : Odd(content, Live, x) <=> Odd(content', Live, x)
    BY <2>2, OddSame
  <2> QED BY <2>1, <2>3, <2>4
<1> QED BY <1>6, <1>8

(* The same before the tree of the merge is pulled.                        *)
LEMMA BranchesKept ==
  ASSUME MergeInv, ~pulled, pc # "mark", pc' # "mark",
         UNCHANGED <<environment, plans, drift, stacked, persistent>>,
         Live' = Live,
         \A v \in AllVersions \ {4} : content'[v] = content[v]
  PROVE  /\ Order' /\ Toggled' /\ rows' = rows /\ rows \subseteq {1, 2, 3}
         /\ rows \subseteq Existing' /\ drift' # "newer"
<1>1. rows \subseteq {1, 2, 3} /\ drift # "newer" /\ rows' = rows /\ drift' = drift
  BY DEF MergeInv, Histories, environment
<1>2. rows \subseteq Existing'
  BY <1>1 DEF MergeInv, Histories, Existing, AllVersions
<1>3. Telling' => Telling
  BY <1>1 DEF Telling, Dirty
<1>4. 4 \in AllVersions /\ \A w \in rows : w \in AllVersions /\ w <= 4 /\ w # 4
  <2>1. \A w \in {1, 2, 3} : w \in AllVersions /\ w <= 4 /\ w # 4
    BY DEF AllVersions
  <2>2. 4 \in AllVersions
    BY DEF AllVersions
  <2> QED BY <1>1, <2>1, <2>2
<1>5. Order' /\ Toggled'
  BY <1>1, <1>3, <1>4, HistoryKept
<1> QED BY <1>1, <1>2, <1>5

LEMMA FileOfEveryVersion == Written => DOMAIN content = AllVersions
<1> SUFFICES ASSUME Written PROVE DOMAIN content = AllVersions
  OBVIOUS
<1>1. content = [v \in AllVersions |-> content[v]]
  BY DEF Written
<1> QED BY <1>1

LEMMA StartMergeKeeps ==
  ASSUME MergeInv, StartMerge
  PROVE  MergeInv'
<1>1. /\ UNCHANGED <<stacked, marked, target, torn, mergeHead, probe, persistent, pulled,
                     environment, plans, aim, drift>>
      /\ content' = [content EXCEPT ![4] = Diff(Base, wanted')]
      /\ pc = "idle" /\ ~pulled /\ ~torn /\ probe = "none"
      /\ pc' = "merge" /\ queue' = Branch \cap Existing
  BY DEF StartMerge, Merged
<1>2. /\ content' = [v \in AllVersions |-> content'[v]]
      /\ content'[4] = Diff(Base, wanted')
      /\ \A v \in AllVersions \ {4} : content'[v] = content[v]
  <2>1. DOMAIN content = AllVersions /\ 4 \in AllVersions
    BY FileOfEveryVersion DEF MergeInv, AllVersions
  <2>2. content' = [v \in AllVersions |-> IF v = 4 THEN Diff(Base, wanted') ELSE content[v]]
    BY <1>1, <2>1
  <2> QED BY <2>1, <2>2
<1>3. content'[5] = content[5] /\ content[5] = Nothing /\ marked = {}
  BY <1>1, <1>2 DEF MergeInv, Marks, Stages, AllVersions
<1>4. Fits(Base, content'[4]) /\ Changed(Base, content'[4]) = wanted'
  BY <1>2 DEF Fits, Diff, Changed
<1>5. Written'
  <2>1. /\ content'[1] = content[1] /\ content'[2] = content[2] /\ content'[3] = content[3]
    BY <1>2 DEF AllVersions
  <2>2. \A s : Fits(s, Nothing)
    BY DEF Fits, Nothing
  <2>3. \A s, c : Changed(s, c)' = Changed(s, c) /\ Fits(s, c)' = Fits(s, c)
    BY DEF Changed, Fits
  <2> QED BY <1>1, <1>2, <1>3, <1>4, <2>1, <2>2 DEF MergeInv, Written
<1>6. Live' = Live
  BY <1>1 DEF Live, environment
<1>7. /\ Order' /\ Toggled' /\ rows' = rows /\ rows \subseteq {1, 2, 3}
      /\ rows \subseteq Existing' /\ drift' # "newer"
  BY <1>1, <1>2, <1>6, BranchesKept
<1>8. (Branch \cap Existing)' = Branch \cap Existing
  BY <1>2 DEF Branch, Existing, AllVersions
<1>9. Marks'
  BY <1>1, <1>3, <1>8 DEF Marks
<1>10. Stages'
  BY <1>1, <1>3, <1>4 DEF MergeInv, Stages
<1>11. Histories' /\ Ahead'
  BY <1>1, <1>7 DEF MergeInv, Histories, Ahead, Dirty, environment
<1> QED BY <1>5, <1>7, <1>9, <1>10, <1>11 DEF MergeInv

LEMMA MarkFirstKeeps ==
  ASSUME MergeInv, MarkFirst
  PROVE  MergeInv'
<1>0. PICK e : e = Earliest
  OBVIOUS
<1>1. /\ UNCHANGED <<content, stacked, target, torn, mergeHead, probe, persistent, pulled,
                     environment, plans, pc, wanted, aim, drift>>
      /\ pc = "merge" /\ queue # {} /\ queue' = queue \ {e} /\ marked' = marked \cup {e}
  BY <1>0 DEF MarkFirst, Earliest
<1>2. /\ marked \cup queue = Branch \cap Existing /\ probe = "none" /\ ~pulled
      /\ 2 \in queue => 3 \notin marked
      /\ Existing' = Existing
  BY <1>1 DEF MergeInv, Marks, Stages, Existing
<1>3. e \in queue /\ \A v \in queue : e <= v
  <2>1. queue \subseteq AllVersions
    BY <1>2 DEF AllVersions, Branch
  <2> QED BY <1>0, <1>1, <2>1, EarliestIsFirst
<1>4. Live' = Live
  BY <1>1, <1>2 DEF Live, environment
<1>5. /\ Order' /\ Toggled' /\ rows' = rows /\ rows \subseteq {1, 2, 3}
      /\ rows \subseteq Existing' /\ drift' # "newer"
  BY <1>1, <1>2, <1>4, BranchesKept
<1>6. Marks'
  <2>1. /\ marked' \cup queue' = Branch \cap Existing
        /\ 3 \in marked' /\ 2 \in Existing => 2 \in marked'
        /\ 2 \in queue' => 3 \notin marked'
    BY <1>1, <1>2, <1>3 DEF Branch
  <2> QED BY <1>1, <1>2, <2>1 DEF Marks
<1>7. Written' /\ Stages' /\ Histories' /\ Ahead'
  BY <1>1, <1>2, <1>5 DEF MergeInv, Written, Stages, Histories, Ahead, Dirty, environment
<1> QED BY <1>5, <1>6, <1>7 DEF MergeInv

LEMMA RecordMergeKeeps ==
  ASSUME MergeInv, RecordMerge
  PROVE  MergeInv'
<1>1. /\ UNCHANGED <<tree, persistent, pulled, environment, plans, queue, wanted, aim, drift>>
      /\ pc = "merge" /\ queue = {} /\ pc' = "state" /\ probe' \in {"dirty", "clean"}
  BY DEF RecordMerge
<1>2. /\ marked = Branch \cap Existing /\ probe = "none" /\ ~pulled /\ ~torn
      /\ Existing' = Existing
  BY <1>1 DEF MergeInv, Marks, Stages, Existing, tree
<1>3. /\ content' = content /\ marked' = marked /\ target' = target /\ torn' = torn
      /\ pulled' = pulled /\ stacked' = stacked /\ persistent' = persistent
      /\ recorded' = recorded /\ rows' = rows
  BY <1>1 DEF tree, environment
<1>4. Live' = Live
  BY <1>1, <1>2, <1>3 DEF Live
<1>5. /\ Order' /\ Toggled' /\ rows' = rows /\ rows \subseteq {1, 2, 3}
      /\ rows \subseteq Existing' /\ drift' # "newer"
  BY <1>1, <1>2, <1>3, <1>4, BranchesKept
<1>6. Marks'
  BY <1>1, <1>2, <1>3 DEF MergeInv, Marks
<1>7. Written' /\ Stages' /\ Histories' /\ Ahead'
  BY <1>1, <1>2, <1>3, <1>5 DEF MergeInv, Written, Stages, Histories, Ahead, Dirty
<1> QED BY <1>5, <1>6, <1>7 DEF MergeInv

LEMMA WriteStateKeeps ==
  ASSUME MergeInv, WriteState
  PROVE  MergeInv'
<1>1. /\ UNCHANGED <<content, stacked, marked, torn, mergeHead, probe, persistent, pulled,
                     environment, plans, queue, aim, drift>>
      /\ pc = "state" /\ target' = wanted /\ pc' = "idle"
  BY DEF WriteState
<1>2. /\ content[5] = Nothing /\ wanted = Changed(Base, content[4]) /\ ~pulled
      /\ Existing' = Existing
  BY <1>1 DEF MergeInv, Stages, Existing
<1>3. Live' = Live
  BY <1>1 DEF Live, environment
<1>4. /\ Order' /\ Toggled' /\ rows' = rows /\ rows \subseteq {1, 2, 3}
      /\ rows \subseteq Existing' /\ drift' # "newer"
  BY <1>1, <1>2, <1>3, BranchesKept
<1>5. Marks'
  BY <1>1, <1>2 DEF MergeInv, Marks
<1>6. Stages'
  <2>1. Changed(Changed(Base, content[4]), content[5]) = wanted
    BY <1>2 DEF Changed, Nothing
  <2>2. Changed(Changed(Base, content[4]), content[5])' = wanted
    BY <1>1, <2>1 DEF Changed
  <2> QED BY <1>1, <1>2, <2>2 DEF MergeInv, Stages
<1>7. Written' /\ Histories' /\ Ahead'
  BY <1>1, <1>2, <1>4 DEF MergeInv, Written, Histories, Ahead, Dirty, environment
<1> QED BY <1>4, <1>5, <1>6, <1>7 DEF MergeInv

LEMMA DiscardKeeps ==
  ASSUME MergeInv, Discard
  PROVE  MergeInv'
<1>1. /\ UNCHANGED <<stacked, target, mergeHead, persistent, pulled, environment, plans, pc,
                     queue, wanted, aim, drift>>
      /\ content' = [content EXCEPT ![4] = Nothing]
      /\ pc = "idle" /\ torn /\ ~pulled /\ marked' = {} /\ torn' = FALSE /\ probe' = "none"
  BY DEF Discard, Merged
<1>2. /\ content' = [v \in AllVersions |-> content'[v]] /\ content'[4] = Nothing
      /\ \A v \in AllVersions \ {4} : content'[v] = content[v]
  <2>1. DOMAIN content = AllVersions /\ 4 \in AllVersions
    BY FileOfEveryVersion DEF MergeInv, AllVersions
  <2>2. content' = [v \in AllVersions |-> IF v = 4 THEN Nothing ELSE content[v]]
    BY <1>1, <2>1
  <2> QED BY <2>1, <2>2
<1>3. content'[5] = Nothing
  BY <1>1, <1>2 DEF MergeInv, Stages, AllVersions
<1>4. Written'
  <2>1. /\ content'[1] = content[1] /\ content'[2] = content[2] /\ content'[3] = content[3]
    BY <1>2 DEF AllVersions
  <2>2. \A s : Fits(s, Nothing)
    BY DEF Fits, Nothing
  <2> QED BY <1>1, <1>2, <1>3, <2>1, <2>2 DEF MergeInv, Written
<1>5. Live' = Live
  BY <1>1 DEF Live, environment, MergeInv, Stages
<1>6. /\ Order' /\ Toggled' /\ rows' = rows /\ rows \subseteq {1, 2, 3}
      /\ rows \subseteq Existing' /\ drift' # "newer"
  BY <1>1, <1>2, <1>5, BranchesKept
<1>7. Marks' /\ Stages'
  BY <1>1, <1>3 DEF MergeInv, Marks, Stages
<1>8. Histories' /\ Ahead'
  BY <1>1, <1>6 DEF MergeInv, Histories, Ahead, Dirty, environment
<1> QED BY <1>4, <1>6, <1>7, <1>8 DEF MergeInv

LEMMA GenerateNewerKeeps ==
  ASSUME MergeInv, GenerateNewer
  PROVE  MergeInv'
<1>1. /\ UNCHANGED <<stacked, marked, torn, probe, persistent, pulled, environment, plans, pc,
                     queue, wanted, aim, drift>>
      /\ content' = [content EXCEPT ![5] = Diff(target, target')]
      /\ pc = "idle" /\ ~torn /\ probe # "none" /\ 5 \notin Existing
  BY DEF GenerateNewer, Newer
<1>2. /\ content' = [v \in AllVersions |-> content'[v]]
      /\ content'[5] = Diff(target, target')
      /\ \A v \in AllVersions \ {5} : content'[v] = content[v]
  <2>1. DOMAIN content = AllVersions /\ 5 \in AllVersions
    BY FileOfEveryVersion DEF MergeInv, AllVersions
  <2>2. content' = [v \in AllVersions |-> IF v = 5 THEN Diff(target, target') ELSE content[v]]
    BY <1>1, <2>1
  <2> QED BY <2>1, <2>2
<1>3. content[5] = Nothing /\ target = Changed(Base, content[4])
  <2>1. content[5] = Nothing
    BY <1>1 DEF Existing, AllVersions
  <2>2. target = Changed(Changed(Base, content[4]), content[5])
    BY <1>1 DEF MergeInv, Stages
  <2> QED BY <2>1, <2>2 DEF Changed, Nothing
<1>4. /\ content'[1] = content[1] /\ content'[2] = content[2] /\ content'[3] = content[3]
      /\ content'[4] = content[4]
  BY <1>2 DEF AllVersions
<1>5. Fits(target, content'[5]) /\ Changed(target, content'[5]) = target'
  BY <1>2 DEF Fits, Diff, Changed
<1>6. Written'
  BY <1>1, <1>2, <1>3, <1>4, <1>5 DEF MergeInv, Written
<1>7. (Branch \cap Existing)' = Branch \cap Existing
  BY <1>2 DEF Branch, Existing, AllVersions
<1>8. Marks'
  BY <1>1, <1>7, <1>2 DEF MergeInv, Marks, Existing, AllVersions
<1>9. Stages'
  BY <1>1, <1>3, <1>4, <1>5 DEF MergeInv, Stages
<1>10. drift # "newer" /\ rows \subseteq Existing /\ 5 \notin rows /\ rows' = rows
       /\ drift' = drift
  BY <1>1 DEF MergeInv, Histories, environment
<1>11. rows \subseteq Existing'
  BY <1>2, <1>10 DEF Existing
<1>12. Dirty' = Dirty /\ Live' = Live
  BY <1>1 DEF Dirty, Live, environment
<1>13. Histories' /\ Ahead'
  BY <1>1, <1>10, <1>11, <1>12 DEF MergeInv, Histories, Ahead, environment
<1>14. 5 \in AllVersions /\ \A w \in rows : w \in AllVersions /\ w <= 5 /\ w # 5
  <2>1. rows \subseteq AllVersions
    BY <1>10 DEF Existing
  <2>2. 5 \in AllVersions /\ \A w \in AllVersions : w <= 5
    BY DEF AllVersions
  <2> QED BY <1>10, <2>1, <2>2
<1>15. Telling' => Telling
  BY <1>1, <1>12 DEF Telling
<1>16. Order' /\ Toggled'
  BY <1>1, <1>2, <1>10, <1>12, <1>14, <1>15, HistoryKept
<1> QED BY <1>6, <1>8, <1>9, <1>13, <1>16 DEF MergeInv

LEMMA PullKeeps ==
  ASSUME MergeInv, Pull
  PROVE  MergeInv'
<1>1. /\ UNCHANGED <<content, stacked, marked, target, torn, probe, persistent, environment,
                     plans, pc, queue, wanted, aim, drift>>
      /\ pc = "idle" /\ ~pulled /\ pulled' = TRUE /\ (torn \/ probe # "none")
  BY DEF Pull
<1>2. Existing' = Existing /\ Live' = Live
  BY <1>1 DEF Existing, Live, environment
<1>3. /\ Order' /\ Toggled' /\ rows' = rows /\ rows \subseteq {1, 2, 3}
      /\ rows \subseteq Existing' /\ drift' # "newer"
  BY <1>1, <1>2, BranchesKept
<1>4. Written' /\ Marks' /\ Stages'
  BY <1>1, <1>2 DEF MergeInv, Written, Marks, Stages
<1>5. Histories' /\ Ahead'
  BY <1>1, <1>3 DEF MergeInv, Histories, Ahead, environment
<1> QED BY <1>3, <1>4, <1>5 DEF MergeInv

LEMMA CrashKeeps ==
  ASSUME MergeInv, Crash
  PROVE  MergeInv'
<1>1. /\ UNCHANGED <<content, stacked, marked, target, mergeHead, probe, persistent, pulled,
                     environment, plans, drift>>
      /\ pc' = "idle" /\ torn' = (torn \/ pc \in {"merge", "state"}) /\ Stop
  BY DEF Crash, Stop
<1>2. CASE pc \notin {"merge", "state"}
  <2>1. torn' = torn
    BY <1>1, <1>2 DEF MergeInv, Stages
  <2> QED BY <1>1, <1>2, <2>1, StopKeeps DEF repository, tree
<1>3. CASE pc \in {"merge", "state"}
  <2>1. ~pulled /\ content[5] = Nothing /\ torn' = TRUE
    BY <1>1, <1>3 DEF MergeInv, Stages
  <2>2. Existing' = Existing /\ Live' = Live
    BY <1>1 DEF Existing, Live, environment
  <2>3. /\ Order' /\ Toggled' /\ rows' = rows /\ rows \subseteq {1, 2, 3}
        /\ rows \subseteq Existing' /\ drift' # "newer"
    BY <1>1, <1>3, <2>1, <2>2, BranchesKept
  <2>4. Written' /\ Marks' /\ Stages'
    BY <1>1, <2>1, <2>2 DEF MergeInv, Written, Marks, Stages
  <2>5. Histories' /\ Ahead'
    BY <1>1, <2>1, <2>3 DEF MergeInv, Histories, Ahead, Dirty, environment
  <2> QED BY <2>3, <2>4, <2>5 DEF MergeInv
<1> QED BY <1>2, <1>3

LEMMA MergeInvStutter ==
  ASSUME MergeInv, UNCHANGED mergeVars
  PROVE  MergeInv'
<1>1. UNCHANGED <<repository, environment, plans, pc, queue, wanted, aim, drift>>
  BY DEF mergeVars
<1>2. /\ content' = content /\ stacked' = stacked /\ marked' = marked /\ target' = target
      /\ torn' = torn /\ probe' = probe /\ persistent' = persistent /\ pulled' = pulled
      /\ actual' = actual /\ rows' = rows /\ recorded' = recorded /\ plans' = plans
      /\ pc' = pc /\ queue' = queue /\ wanted' = wanted /\ aim' = aim /\ drift' = drift
  BY <1>1 DEF repository, tree, environment
<1>3. /\ Existing' = Existing /\ Dirty' = Dirty /\ Live' = Live /\ Applied' = Applied
  BY <1>2 DEF Existing, Dirty, Live, Applied
<1>4. InEffect' = InEffect /\ Telling' = Telling
  BY <1>2, <1>3 DEF InEffect, Telling
<1>5. Aims' = Aims /\ \A S : Net(S)' = Net(S)
  BY <1>2, <1>3 DEF Aims, Trees, Readings, Net, Changed
<1>6. Written' /\ Marks' /\ Stages' /\ Histories'
  BY <1>2, <1>3 DEF MergeInv, Written, Marks, Stages, Histories
<1>7. Order' /\ Toggled'
  BY <1>2, <1>3, <1>4 DEF MergeInv, Order, Over, Linked, Toggled
<1>8. Ahead'
  BY <1>2, <1>3, <1>5 DEF MergeInv, Ahead, Over, Linked
<1> QED BY <1>6, <1>7, <1>8 DEF MergeInv

LEMMA MergeInvNext ==
  ASSUME MergeInv, [MergeNext]_mergeVars
  PROVE  MergeInv'
<1>1. CASE StartMerge \/ Discard \/ GenerateNewer \/ Pull
  BY <1>1, StartMergeKeeps, DiscardKeeps, GenerateNewerKeeps, PullKeeps
<1>2. CASE MigrateBranch \/ MigrateMerged
  BY <1>2, MigrateBranchKeeps, MigrateMergedKeeps
<1>3. CASE Recover
  BY <1>3, StartReconcileKeeps, StartRebaseKeeps, ResetKeeps DEF Recover
<1>4. CASE MarkFirst \/ RecordMerge \/ WriteState
  BY <1>4, MarkFirstKeeps, RecordMergeKeeps, WriteStateKeeps
<1>5. CASE SkipFirst
  BY <1>5, SkipFirstKeeps
<1>6. CASE ApplyFirst
  <2>1. pc \in {"migrate", "rebase"} \/ pc = "reconcile"
    BY <1>6 DEF ApplyFirst, Applying
  <2> QED BY <1>6, <2>1, ApplyVersionKeeps, ApplyPlanKeeps
<1>7. CASE FailFirst \/ FinishRun \/ FailToConverge \/ FinishReconcile
  <2>1. Stop /\ UNCHANGED repository /\ pc \notin {"merge", "state"}
    BY <1>7 DEF FailFirst, FinishRun, FailToConverge, FinishReconcile, Applying
  <2> QED BY <2>1, StopKeeps
<1>8. CASE RecordVersions \/ MarkReconciled
  BY <1>8, RecordVersionsKeeps, MarkReconciledKeeps
<1>9. CASE RevertFirst \/ ResetAfterFailure \/ Reapply
  BY <1>9, RevertFirstKeeps, ResetKeeps, ReapplyKeeps
<1>10. CASE Crash
  BY <1>10, CrashKeeps
<1>11. CASE UNCHANGED mergeVars
  BY <1>11, MergeInvStutter
<1> QED
  BY <1>1, <1>2, <1>3, <1>4, <1>5, <1>6, <1>7, <1>8, <1>9, <1>10, <1>11 DEF MergeNext, Step

(* What an environment has applied tells its schema, whatever merge, pull, *)
(* migrate, reconcile or rebase was killed, for all schemas and bounds.    *)
THEOREM HistoryTellsSchema == MergeSpec => []SchemaMatchesHistory
<1>1. MergeInit => MergeInv
  BY MergeInit0
<1>2. MergeInv /\ [MergeNext]_mergeVars => MergeInv'
  BY MergeInvNext
<1>3. MergeInv => SchemaMatchesHistory
  BY Matches
<1> QED BY <1>1, <1>2, <1>3, PTL DEF MergeSpec
=============================================================================
