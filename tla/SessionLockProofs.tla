-------------------------- MODULE SessionLockProofs --------------------------
(***************************************************************************)
(* What the two protections of a session lock keep, for any number of      *)
(* processes, threads, sessions and losses: the lock of the server, which  *)
(* moves with the sessions of a process, and _acquired_locks.              *)
(***************************************************************************)
EXTENDS SessionLock, FiniteSetTheorems, WellFoundedInduction, TLAPS

PCs == {"idle", "acquire", "check", "try", "store", "acquired", "open", "running", "finished",
        "release"}

(* From the entry into _acquired_locks to the release, also after the      *)
(* migration is over; with the entry to come; with the question to come.   *)
Engaged(r) == pc[r] \in {"acquired", "open", "running", "finished", "release"}
Locked(r) == pc[r] = "store" \/ Engaged(r)
Trying(r) == pc[r] = "try" \/ Locked(r)

(* Only a migration has a connection, and an acquisition has one from      *)
(* where it opens it: what is cut off aborts no other run.                 *)
Slots ==
  /\ pc \in [Runs -> PCs]
  /\ \A r \in Runs : conn[r] # 0 => pc[r] = "running"
  /\ \A r \in Runs : (pc[r] = "acquire" => unowned[r] = 0) /\ (Acquiring(r) => unowned[r] # 0)

PlaceTypes ==
  /\ pool \in [Procs -> SUBSET Sessions]
  /\ unowned \in [Runs -> Sessions \cup {0}] /\ conn \in [Runs -> Sessions \cup {0}]

(* A session belongs to one process as long as it is open ...              *)
Places ==
  /\ PlaceTypes /\ stale \in [Runs -> BOOLEAN]
  /\ \A p, q \in Procs : \A s \in SessionsOf(p) \cap SessionsOf(q) : p = q

(* ... and is in one place there.                                          *)
Distinct ==
  /\ \A r, t \in Runs : r # t /\ unowned[r] # 0 => unowned[r] # unowned[t]
  /\ \A r, t \in Runs : unowned[r] # 0 => unowned[r] # conn[t]
  /\ \A r, t \in Runs : r # t /\ conn[r] # 0 => conn[r] # conn[t]
  /\ \A r \in Runs : \A p \in Procs : unowned[r] \notin pool[p] /\ conn[r] \notin pool[p]

(* What belongs to an engine that was disposed of is in use.               *)
Loose == \A s \in detached : s # 0 /\ \E r \in Runs : s \in {unowned[r], conn[r]}

(* The lock is with an open session.                                       *)
Owned ==
  /\ count \in Nat /\ (count = 0 <=> owner = 0)
  /\ owner # 0 => \E p \in Procs : Covered(p)

(* Without a race _acquired_locks has the process of every run that is     *)
(* engaged, and lets no second one pass.                                   *)
Unraced ==
  engine = "postgresql" =>
    \A r \in Runs : Proc[r] \notin raced =>
      /\ Engaged(r) => Proc[r] \in tracked
      /\ \A t \in Runs : Proc[t] = Proc[r] /\ Trying(r) /\ Trying(t) => r = t

(* Without a loss every run of p that was granted the lock has it in its   *)
(* process, and the lock was taken at least once for each of them.         *)
LockedRuns(p) == {r \in Runs : Proc[r] = p /\ Locked(r)}

Attached(p) ==
  /\ SessionsOf(p) \cap detached = {}
  /\ \A r \in Runs : Proc[r] = p => ~stale[r]

Counted(p) ==
  /\ IsFiniteSet(LockedRuns(p))
  /\ LockedRuns(p) # {} => Covered(p) /\ Cardinality(LockedRuns(p)) <= count

StoreOwns(p) == \A r \in Runs : Proc[r] = p /\ pc[r] = "store" => unowned[r] = owner

(* On PostgreSQL, race or not, there is one such run at most: as long as   *)
(* it has not stored its entry it works on the session with the lock, which*)
(* no other thread can have, and afterwards no thread with that session    *)
(* gets past the entry.                                                    *)
ServerExcludes(p) ==
  engine = "postgresql" =>
    \A r \in LockedRuns(p) :
      /\ Engaged(r) => p \in tracked
      /\ \A t \in Runs \ {r} :
            Proc[t] = p => ~Locked(t) /\ (pc[t] = "try" => unowned[t] # owner)

Safe(p) == Attached(p) /\ Counted(p) /\ StoreOwns(p) /\ ServerExcludes(p)

Unstruck == \A p \in Procs \ struck : Safe(p)

CoverInv == Slots /\ Places /\ Distinct /\ Loose /\ Owned /\ Unraced /\ Unstruck

(* The server frees a session that the client gives up, and no other; the  *)
(* process p may get an unused one.                                        *)
Step(p) ==
  /\ \A q \in Procs : \A s \in SessionsOf(q)' : s \in SessionsOf(q) \/ (q = p /\ s \in Unused)
  /\ owner' # 0 =>
       \/ owner' = owner /\ \A q \in Procs : Covered(q) => Covered(q)'
       \/ owner = 0 /\ p \in Procs /\ Covered(p)'

-----------------------------------------------------------------------------
LEMMA Minimum ==
  ASSUME NEW T, T \subseteq Nat, T # {}
  PROVE  \E x \in T : \A y \in T : x <= y
<1> DEFINE R == {ss \in Nat \X Nat : ss[1] < ss[2]}
<1>1. IsWellFoundedOn(R, Nat)
  BY NatLessThanWellFounded DEF OpToRel
<1>2. \A x, y \in Nat : y < x => <<y, x>> \in R
  OBVIOUS
<1> HIDE DEF R
<1>3. PICK x \in T : \A y \in T : ~ (<<y, x>> \in R)
  BY <1>1, WFMin
<1>4. ASSUME NEW y \in T PROVE x <= y
  <2>1. x \in Nat /\ y \in Nat
    OBVIOUS
  <2>2. ~ (<<y, x>> \in R)
    BY <1>3
  <2>3. ~ (y < x)
    BY <1>2, <2>1, <2>2
  <2> QED BY <2>1, <2>3
<1> QED BY <1>4

LEMMA NewIsUnused == Unused # {} => New \in Unused
<1> SUFFICES ASSUME Unused # {} PROVE New \in Unused
  OBVIOUS
<1>1. Unused \subseteq Nat
  BY BoundsAssumption DEF Unused, Sessions
<1>2. \E s \in Unused : \A t \in Unused : s <= t
  BY <1>1, Minimum
<1> QED BY <1>2 DEF New

(* The sessions of a process, one by one.                                  *)
SessionsSpelled ==
  \A p \in Procs : \A s :
    s \in SessionsOf(p) <=>
      \/ s \in pool[p]
      \/ s # 0 /\ \E r \in Runs : Proc[r] = p /\ (unowned[r] = s \/ conn[r] = s)

LEMMA SpellSessions == SessionsSpelled
BY DEF SessionsSpelled, SessionsOf, Held

LEMMA SpellSessionsNext == SessionsSpelled'
BY SpellSessions, PTL

LEMMA OpenSessions ==
  \A s : s \in Open <=> \E p \in Procs : s \in SessionsOf(p)
BY DEF Open

LEMMA ZeroIsNoSession ==
  ASSUME Places
  PROVE  \A p \in Procs : SessionsOf(p) \subseteq Sessions /\ 0 \notin SessionsOf(p)
BY SpellSessions, BoundsAssumption DEF SessionsSpelled, Places, PlaceTypes, Sessions

(* A step of the run r, which gives up the sessions in Gone.               *)
LEMMA RunMoves ==
  ASSUME Places, Owned, NEW r \in Runs, NEW p, p = Proc[r], NEW Gone,
         \A q \in Procs \ {p} : pool'[q] = pool[q],
         \A t \in Runs \ {r} : unowned'[t] = unowned[t] /\ conn'[t] = conn[t],
         pool'[p] \cup {unowned'[r], conn'[r]} \subseteq SessionsOf(p) \cup Unused \cup {0},
         pool[p] \cup {unowned[r], conn[r]}
           \subseteq pool'[p] \cup {unowned'[r], conn'[r]} \cup Gone \cup {0},
         0 \notin pool'[p],
         owner' # 0 => \/ owner' = owner /\ owner \notin Gone
                       \/ owner = 0 /\ owner' \in pool'[p] \cup {unowned'[r], conn'[r]}
  PROVE  Step(p)
<1> USE SpellSessions, SpellSessionsNext DEF SessionsSpelled
<1>0. p \in Procs
  BY ProcsAssumption
<1>1. ASSUME NEW q \in Procs, q # p, NEW s
      PROVE  s \in SessionsOf(q)' <=> s \in SessionsOf(q)
  BY <1>1
<1>2. ASSUME NEW s \in SessionsOf(p)'
      PROVE  s \in SessionsOf(p) \/ s \in Unused
  <2>1. CASE s \in pool'[p]
    BY <2>1
  <2>2. CASE s # 0 /\ \E t \in Runs : Proc[t] = p /\ (unowned'[t] = s \/ conn'[t] = s)
    BY <1>0, <2>2
  <2> QED BY <1>0, <2>1, <2>2
<1>3. ASSUME NEW s \in SessionsOf(p), s \notin Gone, s # 0
      PROVE  s \in SessionsOf(p)'
  <2>1. CASE s \in pool[p]
    BY <1>0, <1>3, <2>1
  <2>2. CASE s # 0 /\ \E t \in Runs : Proc[t] = p /\ (unowned[t] = s \/ conn[t] = s)
    BY <1>0, <1>3, <2>2
  <2> QED BY <1>0, <2>1, <2>2
<1>4. ASSUME owner' # 0, owner' = owner, owner \notin Gone, NEW q \in Procs, Covered(q)
      PROVE  Covered(q)'
  BY <1>1, <1>3, <1>4 DEF Covered
<1>5. ASSUME owner' # 0, owner' \in pool'[p] \cup {unowned'[r], conn'[r]}
      PROVE  Covered(p)'
  BY <1>0, <1>5 DEF Covered
<1> QED BY <1>0, <1>1, <1>2, <1>4, <1>5 DEF Step

(* Sessions are cut off.                                                   *)
LEMMA CutMoves ==
  ASSUME Places, Owned, NEW S, Cut(S), 0 \notin S
  PROVE  /\ Step(None)
         /\ pool' \in [Procs -> SUBSET Sessions]
         /\ unowned' \in [Runs -> Sessions \cup {0}] /\ conn' \in [Runs -> Sessions \cup {0}]
<1> USE SpellSessions, SpellSessionsNext DEF SessionsSpelled
<1>1. /\ pool' = [p \in Procs |-> pool[p] \ S]
      /\ unowned' = [r \in Runs |-> IF unowned[r] \in S THEN 0 ELSE unowned[r]]
      /\ conn' = [r \in Runs |-> IF conn[r] \in S THEN 0 ELSE conn[r]]
      /\ owner' # 0 => owner' = owner /\ owner \notin S
  BY DEF Cut, Closed, server
<1>2. ASSUME NEW q \in Procs, NEW s
      PROVE  s \in SessionsOf(q)' <=> s \in SessionsOf(q) /\ s \notin S
  BY <1>1
<1>3. Step(None)
  BY <1>1, <1>2, ProcsAssumption DEF Step, Covered
<1> QED BY <1>1, <1>3 DEF Places, PlaceTypes

(* What every step keeps: sessions are not shared between processes, and   *)
(* the lock is with one that is open.                                      *)
LEMMA StepKeepsOwner ==
  ASSUME Places, Owned, NEW p, Step(p)
  PROVE  /\ \A q, t \in Procs : \A s \in SessionsOf(q)' \cap SessionsOf(t)' : q = t
         /\ owner' # 0 => \E q \in Procs : Covered(q)'
         /\ \A q, t \in Procs : Covered(q) /\ Covered(t)' => q = t
<1>1. \A s \in Unused : \A q \in Procs : s \notin SessionsOf(q)
  BY OpenSessions DEF Unused
<1>2. \A q, t \in Procs : \A s \in SessionsOf(q)' \cap SessionsOf(t)' : q = t
  BY <1>1 DEF Step, Places
<1>3. owner' # 0 => \E q \in Procs : Covered(q)'
  BY DEF Step, Owned
<1>4. ASSUME NEW q \in Procs, NEW t \in Procs, Covered(q), Covered(t)' PROVE q = t
  <2>1. owner # 0
    BY <1>4, ZeroIsNoSession DEF Covered
  <2>2. owner' # 0
    <3>1. SUFFICES ASSUME owner' = 0 PROVE FALSE
      OBVIOUS
    <3>2. 0 \in SessionsOf(t)'
      BY <1>4, <3>1 DEF Covered
    <3>3. 0 \in SessionsOf(t) \/ 0 \in Unused
      BY <3>2 DEF Step
    <3> QED BY <3>3, ZeroIsNoSession, BoundsAssumption DEF Unused, Sessions
  <2>3. Covered(q)' /\ owner' = owner
    BY <1>4, <2>1, <2>2 DEF Step
  <2> QED BY <1>2, <1>4, <2>3 DEF Covered
<1> QED BY <1>2, <1>3, <1>4

-----------------------------------------------------------------------------
LEMMA PlacesShape ==
  ASSUME Places
  PROVE  /\ PlaceTypes /\ 0 \notin Sessions
         /\ \A r \in Runs : /\ Proc[r] \in Procs /\ pool[Proc[r]] \subseteq Sessions
                            /\ pool[Proc[r]] \subseteq SessionsOf(Proc[r])
                            /\ unowned[r] \in SessionsOf(Proc[r]) \cup {0}
                            /\ conn[r] \in SessionsOf(Proc[r]) \cup {0}
         /\ Unused \subseteq Sessions /\ 0 \notin Unused
BY SpellSessions, ProcsAssumption, BoundsAssumption
   DEF Places, PlaceTypes, SessionsSpelled, Sessions, Unused

(* What Connect returns.                                                   *)
LEMMA Connected ==
  ASSUME Places, Unused # {}, NEW r \in Runs, NEW s \in Connect(r)
  PROVE  /\ s \in SessionsOf(Proc[r]) \cup Unused /\ s \in Sessions
         /\ ~stale[r] => s = New \/ s \in pool[Proc[r]]
         /\ stale[r] => s = New
BY NewIsUnused, PlacesShape DEF Connect

LEMMA ProbeMoves ==
  ASSUME Places, Owned, NEW r \in Runs, Probe(r)
  PROVE  Step(Proc[r]) /\ PlaceTypes'
<1> DEFINE p == Proc[r]
<1>1. /\ Unused # {} /\ UNCHANGED <<server, unowned, conn>>
      /\ pool' = [pool EXCEPT ![p] = IF @ = {} THEN {New} ELSE @]
  BY DEF Probe
<1>2. New \in Unused /\ New \in Sessions /\ New # 0
  BY <1>1, NewIsUnused, PlacesShape
<1>3. pool'[p] = IF pool[p] = {} THEN {New} ELSE pool[p]
  BY <1>1, PlacesShape DEF PlaceTypes
<1>4. PlaceTypes'
  BY <1>1, <1>2, PlacesShape DEF PlaceTypes
<1>5. Step(p)
  <2> DEFINE Gone == {}
  <2>1. /\ \A q \in Procs \ {p} : pool'[q] = pool[q]
        /\ pool'[p] \cup {unowned'[r], conn'[r]} \subseteq SessionsOf(p) \cup Unused \cup {0}
        /\ 0 \notin pool'[p]
        /\ pool[p] \cup {unowned[r], conn[r]}
             \subseteq pool'[p] \cup {unowned'[r], conn'[r]} \cup Gone \cup {0}
    BY <1>1, <1>2, <1>3, PlacesShape DEF PlaceTypes
  <2>2. owner' = owner /\ owner \notin Gone
    BY <1>1 DEF server
  <2>3. \A t \in Runs \ {r} : unowned'[t] = unowned[t] /\ conn'[t] = conn[t]
    BY <1>1
  <2> HIDE DEF Gone
  <2> QED BY <2>1, <2>2, <2>3, RunMoves
<1> QED BY <1>4, <1>5

LEMMA ProbeFailsMoves ==
  ASSUME Places, Owned, NEW r \in Runs, ProbeFails(r)
  PROVE  Step(Proc[r]) /\ PlaceTypes'
<1> DEFINE p == Proc[r]
<1>1. /\ Unused # {} /\ UNCHANGED <<unowned, conn>>
      /\ pool' = [pool EXCEPT ![p] = {New}] /\ Closed(pool[p])
  BY DEF ProbeFails
<1>2. New \in Unused /\ New \in Sessions /\ New # 0
  BY <1>1, NewIsUnused, PlacesShape
<1>3. pool'[p] = {New}
  BY <1>1, PlacesShape DEF PlaceTypes
<1>4. PlaceTypes'
  BY <1>1, <1>2, PlacesShape DEF PlaceTypes
<1>5. Step(p)
  <2> DEFINE Gone == pool[p]
  <2>1. /\ \A q \in Procs \ {p} : pool'[q] = pool[q]
        /\ pool'[p] \cup {unowned'[r], conn'[r]} \subseteq SessionsOf(p) \cup Unused \cup {0}
        /\ 0 \notin pool'[p]
        /\ pool[p] \cup {unowned[r], conn[r]}
             \subseteq pool'[p] \cup {unowned'[r], conn'[r]} \cup Gone \cup {0}
    BY <1>1, <1>2, <1>3, PlacesShape DEF PlaceTypes
  <2>2. owner' # 0 => owner' = owner /\ owner \notin Gone
    BY <1>1 DEF Closed, server
  <2>3. \A t \in Runs \ {r} : unowned'[t] = unowned[t] /\ conn'[t] = conn[t]
    BY <1>1
  <2> HIDE DEF Gone
  <2> QED BY <2>1, <2>2, <2>3, RunMoves
<1> QED BY <1>4, <1>5

(* The steps of a run by what they do with the sessions of its process.    *)
Gives(r) == RefuseReentrant(r) \/ Refuse(r) \/ StoreFails(r) \/ Collect(r) \/ CloseConnection(r)
Takes(r) == OpenLockConnection(r) \/ OpenConnection(r)
Stays(r) == CheckReentrant(r) \/ TryLock(r) \/ Store(r)

LEMMA GivesSpelled ==
  ASSUME Slots, PlaceTypes, NEW r \in Runs, Gives(r)
  PROVE  /\ \/ /\ unowned[r] # 0 /\ GiveBack(Proc[r], {unowned[r]})
               /\ unowned' = [unowned EXCEPT ![r] = 0] /\ UNCHANGED conn
            \/ /\ GiveBack(Proc[r], {conn[r]} \ {0})
               /\ conn' = [conn EXCEPT ![r] = 0] /\ UNCHANGED unowned
         /\ UNCHANGED <<engine, stale, tracked, raced, struck>>
         /\ \/ Acquiring(r) /\ pc' = [pc EXCEPT ![r] = "idle"] /\ unowned'[r] = 0
            \/ ~Acquiring(r) /\ pc' = pc /\ unowned' = [unowned EXCEPT ![r] = 0]
            \/ /\ pc[r] = "running" /\ pc' = [pc EXCEPT ![r] = "finished"]
               /\ conn'[r] = 0 /\ UNCHANGED unowned
<1>1. CASE RefuseReentrant(r) \/ Refuse(r) \/ StoreFails(r)
  BY <1>1 DEF RefuseReentrant, Refuse, StoreFails, CloseLockConnection, Slots, Acquiring, past,
              PlaceTypes
<1>2. CASE Collect(r)
  BY <1>2 DEF Collect, past
<1>3. CASE CloseConnection(r)
  BY <1>3 DEF CloseConnection, past, Goto, PlaceTypes
<1> QED BY <1>1, <1>2, <1>3 DEF Gives

LEMMA TakesSpelled ==
  ASSUME Slots, PlaceTypes, NEW r \in Runs, Takes(r)
  PROVE  /\ Unused # {}
         /\ \E s \in Connect(r) :
              /\ Take(r, s)
              /\ \/ /\ unowned[r] = 0 /\ unowned' = [unowned EXCEPT ![r] = s] /\ UNCHANGED conn
                    /\ pc[r] = "acquire" /\ pc' = [pc EXCEPT ![r] = "check"]
                 \/ /\ conn[r] = 0 /\ conn' = [conn EXCEPT ![r] = s] /\ UNCHANGED unowned
                    /\ pc[r] = "open" /\ pc' = [pc EXCEPT ![r] = "running"]
         /\ UNCHANGED <<engine, server, stale, tracked, raced, struck>>
<1>1. CASE OpenLockConnection(r)
  BY <1>1 DEF OpenLockConnection, past, Goto, Slots
<1>2. CASE OpenConnection(r)
  BY <1>2 DEF OpenConnection, past, Goto, Slots
<1> QED BY <1>1, <1>2 DEF Takes

(* A session goes back to the pool, or is closed.                          *)
LEMMA GiveBackMoves ==
  ASSUME Slots, Places, Owned, NEW r \in Runs, Gives(r)
  PROVE  Step(Proc[r]) /\ PlaceTypes'
<1> DEFINE p == Proc[r]
<1>1. PICK S \in {{unowned[r]}, {conn[r]} \ {0}} :
        /\ GiveBack(p, S) /\ 0 \notin S
        /\ \/ S = {unowned[r]} /\ unowned' = [unowned EXCEPT ![r] = 0] /\ UNCHANGED conn
           \/ S = {conn[r]} \ {0} /\ conn' = [conn EXCEPT ![r] = 0] /\ UNCHANGED unowned
  BY GivesSpelled DEF Places
<1>2. /\ pool' = [pool EXCEPT ![p] = @ \cup (S \ detached)]
      /\ owner' # 0 => owner' = owner /\ owner \notin S \cap detached
  BY <1>1 DEF GiveBack, Closed, server
<1>3. S \subseteq Sessions /\ S \subseteq SessionsOf(p)
  BY <1>1, PlacesShape DEF PlaceTypes
<1>4. pool'[p] = pool[p] \cup (S \ detached)
  BY <1>2, PlacesShape DEF PlaceTypes
<1>5. PlaceTypes'
  BY <1>1, <1>2, <1>3, PlacesShape DEF PlaceTypes
<1>6. Step(p)
  <2> DEFINE Gone == S \cap detached
  <2>1. /\ \A q \in Procs \ {p} : pool'[q] = pool[q]
        /\ pool'[p] \cup {unowned'[r], conn'[r]} \subseteq SessionsOf(p) \cup Unused \cup {0}
        /\ 0 \notin pool'[p]
        /\ pool[p] \cup {unowned[r], conn[r]}
             \subseteq pool'[p] \cup {unowned'[r], conn'[r]} \cup Gone \cup {0}
    BY <1>1, <1>2, <1>3, <1>4, PlacesShape DEF PlaceTypes
  <2>2. owner' # 0 => owner' = owner /\ owner \notin Gone
    BY <1>2
  <2>3. \A t \in Runs \ {r} : unowned'[t] = unowned[t] /\ conn'[t] = conn[t]
    BY <1>1, PlacesShape DEF PlaceTypes
  <2> HIDE DEF Gone
  <2> QED BY <2>1, <2>2, <2>3, RunMoves
<1> QED BY <1>5, <1>6

(* A session of the pool is used, or a new one.                            *)
LEMMA TakeMoves ==
  ASSUME Slots, Places, Owned, NEW r \in Runs, Takes(r)
  PROVE  Step(Proc[r]) /\ PlaceTypes'
<1> DEFINE p == Proc[r]
<1>1. PICK s \in Connect(r) :
        /\ Unused # {} /\ UNCHANGED server
        /\ pool' = [pool EXCEPT ![p] = @ \ {s}]
        /\ \/ unowned[r] = 0 /\ unowned' = [unowned EXCEPT ![r] = s] /\ UNCHANGED conn
           \/ conn[r] = 0 /\ conn' = [conn EXCEPT ![r] = s] /\ UNCHANGED unowned
  BY TakesSpelled DEF Take, Places
<1>2. s \in SessionsOf(p) \cup Unused /\ s \in Sessions
  BY <1>1, Connected
<1>3. pool'[p] = pool[p] \ {s} /\ s \in {unowned'[r], conn'[r]}
  BY <1>1, PlacesShape DEF PlaceTypes
<1>4. PlaceTypes'
  BY <1>1, <1>2, PlacesShape DEF PlaceTypes
<1>5. Step(p)
  <2> DEFINE Gone == {}
  <2>1. /\ \A q \in Procs \ {p} : pool'[q] = pool[q]
        /\ pool'[p] \cup {unowned'[r], conn'[r]} \subseteq SessionsOf(p) \cup Unused \cup {0}
        /\ 0 \notin pool'[p]
        /\ pool[p] \cup {unowned[r], conn[r]}
             \subseteq pool'[p] \cup {unowned'[r], conn'[r]} \cup Gone \cup {0}
    BY <1>1, <1>2, <1>3, PlacesShape DEF PlaceTypes
  <2>2. owner' = owner /\ owner \notin Gone
    BY <1>1 DEF server
  <2>3. \A t \in Runs \ {r} : unowned'[t] = unowned[t] /\ conn'[t] = conn[t]
    BY <1>1, PlacesShape DEF PlaceTypes
  <2> HIDE DEF Gone
  <2> QED BY <2>1, <2>2, <2>3, RunMoves
<1> QED BY <1>4, <1>5

(* The sessions stay where they are.                                       *)
LEMMA StayMoves ==
  ASSUME Slots, Places, Owned, NEW r \in Runs, Stays(r)
  PROVE  Step(Proc[r]) /\ PlaceTypes'
<1> DEFINE p == Proc[r]
<1>1. /\ UNCHANGED <<pool, unowned, conn>>
      /\ owner' = owner \/ (owner \in {0, owner'} /\ owner' = unowned[r])
  BY DEF Stays, CheckReentrant, TryLock, Store, Granted, client, server
<1>2. PlaceTypes'
  BY <1>1, PlacesShape DEF PlaceTypes
<1>3. Step(p)
  <2> DEFINE Gone == {}
  <2>1. /\ pool'[p] \cup {unowned'[r], conn'[r]} \subseteq SessionsOf(p) \cup Unused \cup {0}
        /\ 0 \notin pool'[p]
        /\ pool[p] \cup {unowned[r], conn[r]}
             \subseteq pool'[p] \cup {unowned'[r], conn'[r]} \cup Gone \cup {0}
    BY <1>1, PlacesShape
  <2>2. \/ owner' = owner /\ owner \notin Gone
        \/ owner = 0 /\ owner' \in pool'[p] \cup {unowned'[r], conn'[r]}
    BY <1>1
  <2> HIDE DEF Gone
  <2> QED BY <1>1, <2>1, <2>2, RunMoves
<1> QED BY <1>2, <1>3

LEMMA ReleaseMoves ==
  ASSUME Places, Owned, NEW r \in Runs, Release(r)
  PROVE  Step(Proc[r]) /\ PlaceTypes'
<1> DEFINE p == Proc[r]
<1>1. PICK s \in Connect(r) :
        /\ Unused # {} /\ UNCHANGED <<unowned, conn>> /\ Unlock(s)
        /\ pool' = IF stale[r] THEN pool ELSE [pool EXCEPT ![p] = @ \cup {s}]
  BY DEF Release
<1>2. s \in SessionsOf(p) \cup Unused /\ s \in Sessions
  BY <1>1, Connected
<1>3. pool'[p] = pool[p] \/ pool'[p] = pool[p] \cup {s}
  BY <1>1, PlacesShape DEF PlaceTypes
<1>4. PlaceTypes'
  BY <1>1, <1>2, PlacesShape DEF PlaceTypes
<1>5. Step(p)
  <2> DEFINE Gone == {}
  <2>1. /\ \A q \in Procs \ {p} : pool'[q] = pool[q]
        /\ pool'[p] \cup {unowned'[r], conn'[r]} \subseteq SessionsOf(p) \cup Unused \cup {0}
        /\ 0 \notin pool'[p]
        /\ pool[p] \cup {unowned[r], conn[r]}
             \subseteq pool'[p] \cup {unowned'[r], conn'[r]} \cup Gone \cup {0}
    BY <1>1, <1>2, <1>3, PlacesShape DEF PlaceTypes
  <2>2. owner' # 0 => owner' = owner /\ owner \notin Gone
    BY <1>1 DEF Unlock, server
  <2>3. \A t \in Runs \ {r} : unowned'[t] = unowned[t] /\ conn'[t] = conn[t]
    BY <1>1
  <2> HIDE DEF Gone
  <2> QED BY <2>1, <2>2, <2>3, RunMoves
<1> QED BY <1>4, <1>5

-----------------------------------------------------------------------------
RunNext(r) == Probe(r) \/ ProbeFails(r) \/ Gives(r) \/ Takes(r) \/ Stays(r) \/ Release(r)

(* The environment: sessions are cut off, processes end.                   *)
Ended(s) == s # 0 /\ End(s)
EnvNext == (\E s : Ended(s)) \/ \E p \in Procs : EndProcess(p)

LEMMA NextSpelled ==
  ASSUME PlaceTypes, Next
  PROVE  (\E r \in Runs : RunNext(r)) \/ EnvNext
<1>1. ASSUME NEW s \in Sessions, LoseSession(s) PROVE EnvNext
  BY <1>1, BoundsAssumption DEF LoseSession, EnvNext, Ended, Sessions
<1>2. CASE TerminateHolder
  BY <1>2 DEF TerminateHolder, EnvNext, Ended
<1> QED BY <1>1, <1>2 DEF Next, RunNext, Gives, Takes, Stays, EnvNext

LEMMA AnyRunMoves ==
  ASSUME Slots, Places, Owned, NEW r \in Runs, RunNext(r)
  PROVE  Step(Proc[r]) /\ PlaceTypes'
BY ProbeMoves, ProbeFailsMoves, GiveBackMoves, TakeMoves, StayMoves, ReleaseMoves DEF RunNext

LEMMA EnvMoves ==
  ASSUME Places, Owned, EnvNext
  PROVE  Step(None) /\ PlaceTypes'
<1>1. ASSUME NEW s, Ended(s) PROVE Step(None) /\ PlaceTypes'
  <2>1. 0 \notin {s} /\ Cut({s})
    BY <1>1 DEF Ended, End
  <2> QED BY <2>1, CutMoves DEF PlaceTypes
<1>2. ASSUME NEW p \in Procs, EndProcess(p) PROVE Step(None) /\ PlaceTypes'
  <2>1. 0 \notin SessionsOf(p) /\ Cut(SessionsOf(p))
    BY <1>2, ZeroIsNoSession DEF EndProcess
  <2> QED BY <2>1, CutMoves DEF PlaceTypes
<1> QED BY <1>1, <1>2 DEF EnvNext

-----------------------------------------------------------------------------
LEMMA SlotsKept ==
  ASSUME Slots, Places, Owned, [Next]_vars
  PROVE  Slots' /\ stale' \in [Runs -> BOOLEAN]
<1> USE DEF Places, PlaceTypes
<1>1. ASSUME NEW r \in Runs, Probe(r) \/ ProbeFails(r) \/ Release(r)
      PROVE  Slots' /\ stale' \in [Runs -> BOOLEAN]
  <2>1. /\ UNCHANGED <<unowned, conn>>
        /\ \/ pc[r] = "idle" /\ pc' = [pc EXCEPT ![r] = "acquire"] /\ unowned[r] = 0
           \/ pc[r] = "acquired" /\ pc' = [pc EXCEPT ![r] = "open"]
           \/ pc[r] = "finished" /\ pc' = [pc EXCEPT ![r] = "release"]
           \/ pc[r] = "release" /\ pc' = [pc EXCEPT ![r] = "idle"]
           \/ pc' = pc
    BY <1>1 DEF Probe, ProbeFails, ProbeStep, Release, Goto
  <2>2. Slots'
    BY <2>1 DEF Slots, PCs, Acquiring
  <2>3. stale' \in [Runs -> BOOLEAN]
    BY <1>1 DEF Probe, ProbeFails, Release
  <2> QED BY <2>2, <2>3
<1>2. ASSUME NEW r \in Runs, Gives(r)
      PROVE  Slots' /\ stale' \in [Runs -> BOOLEAN]
  <2>1. /\ UNCHANGED stale
        /\ \A t \in Runs \ {r} : unowned'[t] = unowned[t] /\ conn'[t] = conn[t]
        /\ \/ unowned'[r] = 0 /\ conn'[r] = conn[r]
           \/ conn'[r] = 0 /\ unowned'[r] = unowned[r]
    BY <1>2, GivesSpelled
  <2>2. \/ Acquiring(r) /\ pc' = [pc EXCEPT ![r] = "idle"] /\ unowned'[r] = 0
        \/ ~Acquiring(r) /\ pc' = pc
        \/ pc[r] = "running" /\ pc' = [pc EXCEPT ![r] = "finished"] /\ conn'[r] = 0
    BY <1>2, GivesSpelled
  <2> QED BY <2>1, <2>2 DEF Slots, PCs, Acquiring
<1>3. ASSUME NEW r \in Runs, Takes(r)
      PROVE  Slots' /\ stale' \in [Runs -> BOOLEAN]
  <2>1. PICK s \in Connect(r) :
          \/ /\ unowned' = [unowned EXCEPT ![r] = s] /\ UNCHANGED conn
             /\ pc[r] = "acquire" /\ pc' = [pc EXCEPT ![r] = "check"]
          \/ /\ conn' = [conn EXCEPT ![r] = s] /\ UNCHANGED unowned
             /\ pc[r] = "open" /\ pc' = [pc EXCEPT ![r] = "running"]
    BY <1>3, TakesSpelled
  <2>2. s # 0 /\ UNCHANGED stale
    BY <1>3, <2>1, TakesSpelled, Connected, PlacesShape
  <2> QED BY <2>1, <2>2 DEF Slots, PCs, Acquiring
<1>4. ASSUME NEW r \in Runs, Stays(r)
      PROVE  Slots' /\ stale' \in [Runs -> BOOLEAN]
  BY <1>4 DEF Stays, CheckReentrant, TryLock, Store, Goto, client, Slots, PCs, Acquiring
<1>5. ASSUME NEW s, Ended(s)
      PROVE  Slots' /\ stale' \in [Runs -> BOOLEAN]
  BY <1>5 DEF Ended, End, Cut, Slots, PCs, Acquiring
<1>6. ASSUME NEW p \in Procs, EndProcess(p)
      PROVE  Slots' /\ stale' \in [Runs -> BOOLEAN]
  <2>1. /\ unowned' = [r \in Runs |-> IF unowned[r] \in SessionsOf(p) THEN 0 ELSE unowned[r]]
        /\ conn' = [r \in Runs |-> IF conn[r] \in SessionsOf(p) THEN 0 ELSE conn[r]]
        /\ pc' = [r \in Runs |-> IF Proc[r] = p THEN "idle" ELSE pc[r]]
        /\ stale' = [r \in Runs |-> IF Proc[r] = p THEN FALSE ELSE stale[r]]
    BY <1>6 DEF EndProcess, Cut
  <2>2. \A r \in Runs : Proc[r] = p => unowned'[r] = 0 /\ conn'[r] = 0
    BY <2>1, PlacesShape
  <2>3. \A r \in Runs : Proc[r] # p => unowned'[r] = unowned[r] /\ conn'[r] = conn[r]
    BY <2>1, PlacesShape, ZeroIsNoSession
  <2>4. \A r \in Runs : pc'[r] = IF Proc[r] = p THEN "idle" ELSE pc[r]
    BY <2>1
  <2>5. pc' \in [Runs -> PCs]
    BY <2>1 DEF Slots, PCs
  <2>6. \A r \in Runs : /\ conn'[r] # 0 => pc'[r] = "running"
                        /\ pc'[r] = "acquire" => unowned'[r] = 0
                        /\ Acquiring(r)' => unowned'[r] # 0
    BY <2>2, <2>3, <2>4 DEF Slots, Acquiring
  <2> QED BY <2>1, <2>5, <2>6 DEF Slots
<1>7. CASE UNCHANGED vars
  BY <1>7 DEF vars, client, Slots, Acquiring
<1> QED
  BY <1>1, <1>2, <1>3, <1>4, <1>5, <1>6, <1>7, NextSpelled DEF RunNext, EnvNext

(* The counter of the server.                                              *)
LEMMA CountKept ==
  ASSUME Slots, Places, Owned, [Next]_vars
  PROVE  count' \in Nat /\ (count' = 0 <=> owner' = 0)
<1> USE DEF Owned, server, Closed
<1>1. ASSUME NEW S, Closed(S) PROVE count' \in Nat /\ (count' = 0 <=> owner' = 0)
  BY <1>1
<1>2. ASSUME NEW r \in Runs, RunNext(r) PROVE count' \in Nat /\ (count' = 0 <=> owner' = 0)
  <2>1. CASE Stays(r)
    <3>1. CASE TryLock(r)
      BY <3>1 DEF TryLock, Goto, Slots, Acquiring
    <3> QED BY <2>1, <3>1 DEF Stays, CheckReentrant, Store
  <2>2. CASE Gives(r)
    BY <1>1, <2>2, GivesSpelled DEF Places, GiveBack
  <2>3. CASE Release(r)
    <3>1. PICK s \in Connect(r) : Unused # {} /\ Unlock(s)
      BY <2>3 DEF Release
    <3>2. s # 0
      BY <3>1, Connected, PlacesShape
    <3> QED BY <3>1, <3>2 DEF Unlock
  <2>4. CASE Probe(r)
    BY <2>4 DEF Probe
  <2>5. CASE ProbeFails(r)
    BY <1>1, <2>5 DEF ProbeFails
  <2>6. CASE Takes(r)
    BY <2>6, TakesSpelled DEF Places
  <2> QED BY <1>2, <2>1, <2>2, <2>3, <2>4, <2>5, <2>6 DEF RunNext
<1>3. CASE EnvNext
  <2>1. ASSUME NEW S, Cut(S) PROVE count' \in Nat /\ (count' = 0 <=> owner' = 0)
    BY <1>1, <2>1 DEF Cut
  <2> QED BY <1>3, <2>1 DEF EnvNext, Ended, End, EndProcess
<1>4. CASE UNCHANGED vars
  BY <1>4 DEF vars
<1> QED BY <1>2, <1>3, <1>4, NextSpelled DEF Places

LEMMA PlacesKept ==
  ASSUME Slots, Places, Owned, [Next]_vars
  PROVE  Places' /\ Owned'
<1>1. PICK p : Step(p) /\ PlaceTypes'
  <2>1. CASE UNCHANGED vars
    BY <2>1 DEF vars, client, server, Step, SessionsOf, Held, Covered, Places, PlaceTypes
  <2> QED BY <2>1, AnyRunMoves, EnvMoves, NextSpelled DEF Places
<1>2. Owned'
  BY <1>1, StepKeepsOwner, CountKept DEF Owned
<1> QED BY <1>1, <1>2, SlotsKept, StepKeepsOwner DEF Places

(* What is used comes out of the pool or is new, and what comes into the   *)
(* pool is new or given up.                                                *)
LEMMA DistinctKept ==
  ASSUME Slots, Places, Owned, Distinct, [Next]_vars
  PROVE  Distinct'
<1> USE DEF Distinct
<1>0. \A s \in Unused : \A r \in Runs : /\ s # unowned[r] /\ s # conn[r]
                                        /\ \A p \in Procs : s \notin pool[p]
  <2>1. \A s \in Unused : \A p \in Procs : s \notin SessionsOf(p)
    BY OpenSessions DEF Unused
  <2> QED BY <2>1, PlacesShape, SpellSessions DEF SessionsSpelled
<1>1. ASSUME NEW r \in Runs, Probe(r) \/ ProbeFails(r)
      PROVE  Distinct'
  <2>1. /\ UNCHANGED <<unowned, conn>> /\ Unused # {}
        /\ \/ pool' = [pool EXCEPT ![Proc[r]] = IF @ = {} THEN {New} ELSE @]
           \/ pool' = [pool EXCEPT ![Proc[r]] = {New}]
    BY <1>1 DEF Probe, ProbeFails
  <2>2. New \in Unused
    BY <2>1, NewIsUnused
  <2>3. \A q \in Procs : pool'[q] \subseteq pool[q] \cup {New}
    BY <2>1, PlacesShape DEF PlaceTypes
  <2> QED BY <1>0, <2>1, <2>2, <2>3
<1>2. ASSUME NEW r \in Runs, Release(r)
      PROVE  Distinct'
  <2>1. PICK s \in Connect(r) :
          /\ UNCHANGED <<unowned, conn>> /\ Unused # {}
          /\ pool' = IF stale[r] THEN pool ELSE [pool EXCEPT ![Proc[r]] = @ \cup {s}]
    BY <1>2 DEF Release
  <2>2. s \in Unused \/ s \in pool[Proc[r]]
    BY <2>1, NewIsUnused DEF Connect
  <2>3. \A q \in Procs : pool'[q] \subseteq pool[q] \cup {s}
    BY <2>1, PlacesShape DEF PlaceTypes
  <2>4. Proc[r] \in Procs
    BY PlacesShape
  <2> QED BY <1>0, <2>1, <2>2, <2>3, <2>4
<1>3. ASSUME NEW r \in Runs, Gives(r)
      PROVE  Distinct'
  <2>1. \/ /\ \A q \in Procs : pool'[q] \subseteq pool[q] \cup ({unowned[r]} \ {0})
           /\ unowned'[r] = 0 /\ \A t \in Runs \ {r} : unowned'[t] = unowned[t]
           /\ UNCHANGED conn
        \/ /\ \A q \in Procs : pool'[q] \subseteq pool[q] \cup ({conn[r]} \ {0})
           /\ conn'[r] = 0 /\ \A t \in Runs \ {r} : conn'[t] = conn[t]
           /\ UNCHANGED unowned
    <3>1. CASE /\ unowned[r] # 0 /\ GiveBack(Proc[r], {unowned[r]})
               /\ unowned' = [unowned EXCEPT ![r] = 0] /\ UNCHANGED conn
      BY <3>1, PlacesShape DEF GiveBack, PlaceTypes
    <3>2. CASE /\ GiveBack(Proc[r], {conn[r]} \ {0})
               /\ conn' = [conn EXCEPT ![r] = 0] /\ UNCHANGED unowned
      BY <3>2, PlacesShape DEF GiveBack, PlaceTypes
    <3> QED BY <1>3, <3>1, <3>2, GivesSpelled, PlacesShape
  <2>2. \A q \in Procs : 0 \notin pool[q]
    BY PlacesShape DEF PlaceTypes
  <2> QED BY <2>1, <2>2
<1>4. ASSUME NEW r \in Runs, Takes(r)
      PROVE  Distinct'
  <2>1. PICK s \in Connect(r) :
          /\ Take(r, s) /\ Unused # {}
          /\ \/ /\ unowned' = [unowned EXCEPT ![r] = s] /\ UNCHANGED conn
             \/ /\ conn' = [conn EXCEPT ![r] = s] /\ UNCHANGED unowned
    BY <1>4, TakesSpelled, PlacesShape
  <2>2. s \in Unused \/ s \in pool[Proc[r]]
    BY <2>1, NewIsUnused DEF Connect
  <2>3. /\ \A q \in Procs : pool'[q] \subseteq pool[q]
        /\ s \notin pool'[Proc[r]]
    BY <2>1, PlacesShape DEF PlaceTypes, Take
  <2>4. \A q \in Procs : s \notin pool'[q]
    BY <1>0, <2>2, <2>3, PlacesShape, SpellSessions DEF Places, SessionsSpelled
  <2>5. \A t \in Runs : s # unowned[t] /\ s # conn[t]
    BY <1>0, <2>2, PlacesShape
  <2> QED BY <2>1, <2>3, <2>4, <2>5, PlacesShape DEF PlaceTypes
<1>5. ASSUME NEW S, Cut(S)
      PROVE  Distinct'
  <2>1. /\ \A q \in Procs : pool'[q] \subseteq pool[q] /\ 0 \notin pool'[q]
        /\ \A t \in Runs : unowned'[t] \in {0, unowned[t]} /\ conn'[t] \in {0, conn[t]}
    BY <1>5, PlacesShape DEF Cut, PlaceTypes
  <2> QED BY <2>1
<1>6. CASE EnvNext
  BY <1>5, <1>6 DEF EnvNext, Ended, End, EndProcess
<1>7. CASE UNCHANGED client
  BY <1>7 DEF client
<1> QED
  BY <1>1, <1>2, <1>3, <1>4, <1>6, <1>7, NextSpelled
  DEF RunNext, Stays, CheckReentrant, TryLock, Store, vars, Places

LEMMA LooseKept ==
  ASSUME Slots, Places, Loose, [Next]_vars
  PROVE  Loose'
<1> USE DEF Loose
<1>1. ASSUME NEW r \in Runs, Probe(r) \/ Release(r)
      PROVE  Loose'
  BY <1>1 DEF Probe, Release
<1>2. ASSUME NEW r \in Runs, ProbeFails(r)
      PROVE  Loose'
  BY <1>2 DEF ProbeFails, Held
<1>3. ASSUME NEW r \in Runs, Gives(r)
      PROVE  Loose'
  <2>1. \/ /\ \A s \in detached' : s \in detached /\ s # unowned[r]
           /\ \A t \in Runs \ {r} : unowned'[t] = unowned[t]
           /\ UNCHANGED conn
        \/ /\ \A s \in detached' : s \in detached /\ (s # conn[r] \/ s = 0)
           /\ \A t \in Runs \ {r} : conn'[t] = conn[t]
           /\ UNCHANGED unowned
    <3>1. CASE /\ unowned[r] # 0 /\ GiveBack(Proc[r], {unowned[r]})
               /\ unowned' = [unowned EXCEPT ![r] = 0] /\ UNCHANGED conn
      BY <3>1, PlacesShape DEF GiveBack, PlaceTypes
    <3>2. CASE /\ GiveBack(Proc[r], {conn[r]} \ {0})
               /\ conn' = [conn EXCEPT ![r] = 0] /\ UNCHANGED unowned
      BY <3>2, PlacesShape DEF GiveBack, PlaceTypes
    <3> QED BY <1>3, <3>1, <3>2, GivesSpelled, PlacesShape
  <2> QED BY <2>1
<1>4. ASSUME NEW r \in Runs, Takes(r)
      PROVE  Loose'
  <2>1. PICK s \in Connect(r) :
          /\ Take(r, s) /\ Unused # {}
          /\ \/ /\ unowned[r] = 0 /\ unowned' = [unowned EXCEPT ![r] = s] /\ UNCHANGED conn
             \/ /\ conn[r] = 0 /\ conn' = [conn EXCEPT ![r] = s] /\ UNCHANGED unowned
    BY <1>4, TakesSpelled, PlacesShape
  <2>2. s # 0 /\ detached' \subseteq detached \cup {s}
    BY <2>1, Connected, PlacesShape DEF Take
  <2> QED BY <2>1, <2>2, PlacesShape DEF PlaceTypes
<1>5. ASSUME NEW S, Cut(S)
      PROVE  Loose'
  BY <1>5 DEF Cut
<1>6. CASE EnvNext
  BY <1>5, <1>6 DEF EnvNext, Ended, End, EndProcess
<1>7. CASE UNCHANGED client
  BY <1>7 DEF client
<1> QED
  BY <1>1, <1>2, <1>3, <1>4, <1>6, <1>7, NextSpelled
  DEF RunNext, Stays, CheckReentrant, TryLock, Store, vars, Places

-----------------------------------------------------------------------------
(* A run that no step brings nearer to the lock.                           *)
Keeps(t) ==
  /\ Engaged(t)' => Engaged(t)
  /\ pc'[t] = "store" => pc[t] = "store" /\ unowned'[t] = unowned[t]
  /\ pc'[t] = "try" => pc[t] = "try" /\ unowned'[t] = unowned[t]

LEMMA RunKeeps ==
  ASSUME Slots, Places, NEW r \in Runs, RunNext(r)
  PROVE  /\ \A t \in Runs \ {r} : Keeps(t)
         /\ Stays(r) \/ Keeps(r)
         /\ UNCHANGED engine /\ raced \subseteq raced'
<1> USE DEF Keeps, Engaged, Slots, PCs
<1>1. CASE Probe(r) \/ ProbeFails(r) \/ Release(r)
  BY <1>1 DEF Probe, ProbeFails, ProbeStep, Release, Goto, past
<1>2. CASE Gives(r)
  <2>1. /\ \A t \in Runs \ {r} : unowned'[t] = unowned[t]
        /\ UNCHANGED <<engine, raced>>
        /\ \/ Acquiring(r) /\ pc' = [pc EXCEPT ![r] = "idle"]
           \/ ~Acquiring(r) /\ pc' = pc
           \/ pc[r] = "running" /\ pc' = [pc EXCEPT ![r] = "finished"]
    BY <1>2, GivesSpelled DEF Places, PlaceTypes
  <2> QED BY <2>1 DEF Acquiring
<1>3. CASE Takes(r)
  <2>1. /\ \A t \in Runs \ {r} : unowned'[t] = unowned[t]
        /\ UNCHANGED <<engine, raced>>
        /\ \/ pc[r] = "acquire" /\ pc' = [pc EXCEPT ![r] = "check"]
           \/ pc[r] = "open" /\ pc' = [pc EXCEPT ![r] = "running"]
    <3>1. PICK s \in Connect(r) :
            \/ /\ unowned' = [unowned EXCEPT ![r] = s] /\ UNCHANGED conn
               /\ pc[r] = "acquire" /\ pc' = [pc EXCEPT ![r] = "check"]
            \/ /\ conn' = [conn EXCEPT ![r] = s] /\ UNCHANGED unowned
               /\ pc[r] = "open" /\ pc' = [pc EXCEPT ![r] = "running"]
      BY <1>3, TakesSpelled DEF Places
    <3>2. UNCHANGED <<engine, raced>>
      BY <1>3, TakesSpelled DEF Places
    <3> QED BY <3>1, <3>2 DEF Places, PlaceTypes
  <2> QED BY <2>1
<1>4. CASE Stays(r)
  BY <1>4 DEF Stays, CheckReentrant, TryLock, Store, Goto, client, past
<1> QED BY <1>1, <1>2, <1>3, <1>4 DEF RunNext

LEMMA EnvKeeps ==
  ASSUME Slots, Places, EnvNext
  PROVE  /\ \A t \in Runs : Keeps(t)
         /\ UNCHANGED <<engine, raced>>
<1> USE DEF Keeps, Engaged, Slots, PCs
<1>1. ASSUME NEW s, Ended(s)
      PROVE  (\A t \in Runs : Keeps(t)) /\ UNCHANGED <<engine, raced>>
  BY <1>1 DEF Ended, End, Cut, Acquiring
<1>2. ASSUME NEW p \in Procs, EndProcess(p)
      PROVE  (\A t \in Runs : Keeps(t)) /\ UNCHANGED <<engine, raced>>
  <2>1. /\ unowned' = [r \in Runs |-> IF unowned[r] \in SessionsOf(p) THEN 0 ELSE unowned[r]]
        /\ pc' = [r \in Runs |-> IF Proc[r] = p THEN "idle" ELSE pc[r]]
        /\ UNCHANGED <<engine, raced>>
    BY <1>2 DEF EndProcess, Cut, past
  <2>2. \A r \in Runs : Proc[r] # p => unowned'[r] = unowned[r]
    BY <2>1, PlacesShape, ZeroIsNoSession DEF Places
  <2> QED BY <2>1, <2>2
<1> QED BY <1>1, <1>2 DEF EnvNext

LEMMA UnracedSame ==
  ASSUME Unraced, UNCHANGED engine, raced \subseteq raced', \A t \in Runs : Keeps(t),
         engine = "postgresql" =>
           \A t \in Runs : Engaged(t)' /\ Proc[t] \in tracked \ raced => Proc[t] \in tracked'
  PROVE  Unraced'
<1>1. \A t \in Runs : Trying(t)' => Trying(t)
  BY DEF Keeps, Trying, Locked
<1>2. \A t \in Runs : Engaged(t)' => Engaged(t)
  BY DEF Keeps
<1> QED BY <1>1, <1>2 DEF Unraced

(* What one thread stores between the look and the entry of another is what*)
(* makes a race.                                                           *)
LEMMA UnracedKept ==
  ASSUME Slots, Places, Unraced, [Next]_vars
  PROVE  Unraced'
<1> USE DEF Unraced
<1>1. ASSUME NEW r \in Runs, CheckReentrant(r)
      PROVE  Unraced'
  <2>1. /\ pc[r] = "check" /\ pc' = [pc EXCEPT ![r] = "try"] /\ ~Reentrant(r)
        /\ raced \subseteq raced' /\ UNCHANGED <<engine, tracked>>
        /\ Proc[r] \notin raced' =>
             \A t \in Runs : Proc[t] = Proc[r] => pc[t] \notin {"try", "store"}
    BY <1>1 DEF CheckReentrant, Goto
  <2>2. \A t \in Runs \ {r} : (Trying(t)' <=> Trying(t)) /\ (Engaged(t)' <=> Engaged(t))
    BY <2>1 DEF Trying, Locked, Engaged
  <2>3. ~Engaged(r)'
    BY <2>1 DEF Engaged, Slots
  <2>4. ASSUME engine = "postgresql", Proc[r] \notin raced', NEW t \in Runs, Proc[t] = Proc[r]
        PROVE  ~Trying(t)
    <3>1. ~Engaged(t)
      BY <2>1, <2>4 DEF Reentrant
    <3> QED BY <2>1, <2>4, <3>1 DEF Trying, Locked
  <2> QED BY <2>1, <2>2, <2>3, <2>4
<1>2. ASSUME NEW r \in Runs, TryLock(r)
      PROVE  Unraced'
  <2>1. /\ pc[r] = "try" /\ pc' = [pc EXCEPT ![r] = "store"]
        /\ UNCHANGED <<engine, tracked, raced>>
    BY <1>2 DEF TryLock, Goto, past
  <2>2. \A t \in Runs : (Trying(t)' <=> Trying(t)) /\ (Engaged(t)' <=> Engaged(t))
    BY <2>1 DEF Trying, Locked, Engaged, Slots
  <2> QED BY <2>1, <2>2
<1>3. ASSUME NEW r \in Runs, Store(r)
      PROVE  Unraced'
  <2>1. /\ pc[r] = "store" /\ pc' = [pc EXCEPT ![r] = "acquired"]
        /\ UNCHANGED <<engine, raced>>
        /\ tracked \subseteq tracked' /\ (engine = "postgresql" => Proc[r] \in tracked')
    BY <1>3 DEF Store, Goto, past
  <2>2. \A t \in Runs : Trying(t)' <=> Trying(t)
    BY <2>1 DEF Trying, Locked, Engaged, Slots
  <2>3. \A t \in Runs \ {r} : Engaged(t)' <=> Engaged(t)
    BY <2>1 DEF Engaged
  <2> QED BY <2>1, <2>2, <2>3
<1>4. ASSUME NEW r \in Runs, Release(r)
      PROVE  Unraced'
  <2>1. /\ pc[r] = "release" /\ pc' = [pc EXCEPT ![r] = "idle"]
        /\ tracked' = tracked \ {Proc[r]}
    BY <1>4 DEF Release, Goto
  <2>2. Trying(r) /\ ~Engaged(r)'
    BY <2>1 DEF Trying, Locked, Engaged, Slots
  <2>3. /\ \A t \in Runs : Keeps(t) /\ (Engaged(t)' => Trying(t))
        /\ UNCHANGED engine /\ raced \subseteq raced'
    <3>1. ~Stays(r)
      BY <2>1 DEF Stays, CheckReentrant, TryLock, Store, Goto
    <3> QED BY <1>4, <3>1, RunKeeps DEF RunNext, Keeps, Trying, Locked
  <2>4. engine = "postgresql" =>
          \A t \in Runs : Engaged(t)' /\ Proc[t] \in tracked \ raced => Proc[t] \in tracked'
    BY <2>1, <2>2, <2>3
  <2> QED BY <2>3, <2>4, UnracedSame
<1>5. ASSUME NEW r \in Runs, Probe(r) \/ ProbeFails(r) \/ Gives(r) \/ Takes(r)
      PROVE  Unraced'
  <2>1. UNCHANGED tracked
    BY <1>5, GivesSpelled, TakesSpelled DEF Probe, ProbeFails, Places
  <2>2. /\ \A t \in Runs \ {r} : Keeps(t)
        /\ UNCHANGED engine /\ raced \subseteq raced'
    BY <1>5, RunKeeps DEF RunNext
  <2>3. Keeps(r)
    <3>1. CASE Stays(r)
      BY <1>5, <3>1, GivesSpelled, TakesSpelled
      DEF Stays, CheckReentrant, TryLock, Store, Goto, Probe, ProbeFails, ProbeStep, Places, Slots,
          Acquiring
    <3> QED BY <1>5, <3>1, RunKeeps DEF RunNext
  <2> QED BY <2>1, <2>2, <2>3, UnracedSame
<1>6. CASE EnvNext
  <2>1. \A t \in Runs : Engaged(t)' /\ Proc[t] \in tracked => Proc[t] \in tracked'
    BY <1>6 DEF EnvNext, Ended, End, EndProcess, Engaged
  <2> QED BY <1>6, <2>1, EnvKeeps, UnracedSame
<1>7. CASE UNCHANGED vars
  BY <1>7 DEF vars, past, Engaged, Trying, Locked
<1> QED
  BY <1>1, <1>2, <1>3, <1>4, <1>5, <1>6, <1>7, NextSpelled DEF RunNext, Stays, Places

-----------------------------------------------------------------------------
(* A process that takes new sessions, and gives away none that are used up.*)
LEMMA AttachedKept ==
  ASSUME Places, Loose, NEW p \in Procs, Attached(p), NEW q, Step(q),
         NEW D, detached' \subseteq detached \cup D, D \cap SessionsOf(p)' = {},
         \A t \in Runs : Proc[t] = p => ~stale'[t]
  PROVE  Attached(p)'
<1>1. ASSUME NEW s \in detached, s \in Unused PROVE FALSE
  <2>1. PICK r \in Runs : s # 0 /\ s \in {unowned[r], conn[r]}
    BY DEF Loose
  <2>2. s \in SessionsOf(Proc[r]) /\ Proc[r] \in Procs
    BY <2>1, PlacesShape
  <2> QED BY <1>1, <2>2, OpenSessions DEF Unused
<1>2. \A s \in SessionsOf(p)' : s \in SessionsOf(p) \/ s \in Unused
  BY DEF Step
<1> QED BY <1>1, <1>2 DEF Attached

(* Sessions of another process are none of p's, before and after.          *)
LEMMA OthersApart ==
  ASSUME Places, Owned, NEW p \in Procs, NEW q \in Procs \ {p}, Step(q)
  PROVE  /\ SessionsOf(p)' \subseteq SessionsOf(p)
         /\ SessionsOf(p)' \cap (SessionsOf(q) \cup Unused) = {}
<1>1. SessionsOf(p)' \subseteq SessionsOf(p)
  BY DEF Step
<1>2. SessionsOf(p) \cap Unused = {}
  BY OpenSessions DEF Unused
<1> QED BY <1>1, <1>2 DEF Places

(* The process of a run that was granted the lock.                         *)
LEMMA OwnerOf ==
  ASSUME Places, NEW p \in Procs, Counted(p), LockedRuns(p) # {}
  PROVE  /\ Covered(p) /\ owner # 0 /\ owner \notin Unused
         /\ \A q \in Procs \ {p} : owner \notin SessionsOf(q)
<1>1. Covered(p)
  BY DEF Counted
<1> QED BY <1>1, ZeroIsNoSession, OpenSessions DEF Covered, Places, Unused

(* A step that brings no run of p nearer to the lock.                      *)
LEMMA SafeSame ==
  ASSUME Places, Owned, NEW p \in Procs, Safe(p), NEW q, Step(q), Attached(p)', UNCHANGED engine,
         \A t \in Runs : Proc[t] = p => Keeps(t),
         LockedRuns(p)' # {} => UNCHANGED server /\ (p \in tracked => p \in tracked')
  PROVE  Safe(p)'
<1> USE DEF Safe
<1>1. LockedRuns(p)' \subseteq LockedRuns(p)
  BY DEF LockedRuns, Locked, Keeps
<1>2. Counted(p)'
  <2>1. IsFiniteSet(LockedRuns(p)') /\ Cardinality(LockedRuns(p)') <= Cardinality(LockedRuns(p))
    BY <1>1, FS_Subset DEF Counted
  <2>2. ASSUME LockedRuns(p)' # {} PROVE Covered(p)' /\ Cardinality(LockedRuns(p)') <= count'
    <3>1. LockedRuns(p) # {} /\ owner' = owner /\ count' = count
      BY <1>1, <2>2 DEF server
    <3>2. Covered(p)'
      BY <3>1, OwnerOf DEF Step
    <3>3. Cardinality(LockedRuns(p)') \in Nat /\ Cardinality(LockedRuns(p)) \in Nat
      BY <2>1, FS_CardinalityType DEF Counted
    <3> QED BY <2>1, <3>1, <3>2, <3>3 DEF Counted, Owned
  <2> QED BY <2>1, <2>2 DEF Counted
<1>3. StoreOwns(p)'
  <2>1. SUFFICES ASSUME NEW t \in Runs, Proc[t] = p, pc'[t] = "store"
                 PROVE  unowned'[t] = owner'
    BY DEF StoreOwns
  <2>2. t \in LockedRuns(p)'
    BY <2>1 DEF LockedRuns, Locked
  <2> QED BY <2>1, <2>2 DEF StoreOwns, Keeps, server
<1>4. ServerExcludes(p)'
  <2>1. SUFFICES ASSUME engine = "postgresql", NEW r \in LockedRuns(p)'
                 PROVE  /\ Engaged(r)' => p \in tracked'
                        /\ \A t \in Runs \ {r} :
                              Proc[t] = p => ~Locked(t)' /\ (pc'[t] = "try" => unowned'[t] # owner')
    BY DEF ServerExcludes
  <2>2. r \in LockedRuns(p) /\ r \in Runs /\ Proc[r] = p /\ owner' = owner
    BY <1>1 DEF LockedRuns, server
  <2>3. Engaged(r)' => p \in tracked'
    BY <2>1, <2>2 DEF Keeps, ServerExcludes
  <2>4. ASSUME NEW t \in Runs \ {r}, Proc[t] = p
        PROVE  ~Locked(t)' /\ (pc'[t] = "try" => unowned'[t] # owner')
    BY <2>1, <2>2, <2>4 DEF Keeps, ServerExcludes, Locked
  <2> QED BY <2>3, <2>4
<1> QED BY <1>2, <1>3, <1>4

(* The thread that passed the look does not have the session with the lock,*)
(* as long as another thread of its process was granted it.                *)
LEMMA CheckSafe ==
  ASSUME Slots, Places, Owned, Distinct, NEW r \in Runs, CheckReentrant(r), Safe(Proc[r]),
         Attached(Proc[r])', Step(Proc[r])
  PROVE  Safe(Proc[r])'
<1> DEFINE p == Proc[r]
<1>1. /\ pc[r] = "check" /\ pc' = [pc EXCEPT ![r] = "try"] /\ ~Reentrant(r)
      /\ UNCHANGED <<engine, owner, count, unowned, tracked>>
  BY DEF CheckReentrant, Goto, client, server
<1>2. /\ \A t \in Runs : (Locked(t)' <=> Locked(t)) /\ (Engaged(t)' <=> Engaged(t))
      /\ LockedRuns(p)' = LockedRuns(p)
  BY <1>1 DEF Locked, Engaged, LockedRuns, Slots
<1>3. p \in Procs
  BY PlacesShape
<1>4. Counted(p)'
  <2>1. LockedRuns(p) # {} => Covered(p)'
    BY <1>1, <1>3, OwnerOf DEF Safe, Step
  <2> QED BY <1>1, <1>2, <2>1 DEF Safe, Counted
<1>5. StoreOwns(p)'
  BY <1>1 DEF Safe, StoreOwns, Slots
<1>6. ASSUME engine = "postgresql", NEW u \in LockedRuns(p) PROVE unowned[r] # owner
  <2>1. ~Engaged(u)
    BY <1>1, <1>6 DEF Safe, ServerExcludes, Reentrant
  <2>2. unowned[u] = owner /\ u # r
    BY <1>1, <2>1 DEF LockedRuns, Locked, Safe, StoreOwns
  <2>3. u \in Runs /\ unowned[u] # 0
    BY <2>1 DEF LockedRuns, Locked, Slots, Acquiring
  <2> QED BY <2>2, <2>3 DEF Distinct
<1>7. ServerExcludes(p)'
  <2>1. \A t \in Runs : pc'[t] = "try" => pc[t] = "try" \/ t = r
    BY <1>1 DEF Slots
  <2>2. SUFFICES ASSUME engine = "postgresql", NEW u \in LockedRuns(p)
                 PROVE  /\ Engaged(u)' => p \in tracked'
                        /\ \A t \in Runs \ {u} :
                              Proc[t] = p => ~Locked(t)' /\ (pc'[t] = "try" => unowned'[t] # owner')
    BY <1>1, <1>2 DEF ServerExcludes
  <2>3. /\ Engaged(u) => p \in tracked
        /\ \A t \in Runs \ {u} : Proc[t] = p => ~Locked(t) /\ (pc[t] = "try" => unowned[t] # owner)
    BY <2>2 DEF Safe, ServerExcludes
  <2>4. u \in Runs /\ unowned[r] # owner
    BY <1>6, <2>2 DEF LockedRuns
  <2> QED BY <1>1, <1>2, <2>1, <2>3, <2>4
<1> QED BY <1>4, <1>5, <1>7 DEF Safe

LEMMA TryLockSafe ==
  ASSUME Slots, Places, Owned, Distinct, NEW r \in Runs, TryLock(r), Safe(Proc[r]),
         Attached(Proc[r])', Step(Proc[r])
  PROVE  Safe(Proc[r])'
<1> DEFINE p == Proc[r]
<1>1. /\ pc[r] = "try" /\ pc' = [pc EXCEPT ![r] = "store"]
      /\ owner \in {0, unowned[r]} /\ owner' = unowned[r] /\ count' = count + 1
      /\ unowned[r] # 0
      /\ UNCHANGED <<engine, pool, unowned, conn, tracked>>
  BY DEF TryLock, Goto, Granted, client, Slots, Acquiring
<1>2. /\ \A t \in Runs \ {r} : (Locked(t)' <=> Locked(t)) /\ pc'[t] = pc[t]
      /\ \A t \in Runs : Engaged(t)' <=> Engaged(t)
      /\ LockedRuns(p)' = LockedRuns(p) \cup {r} /\ r \notin LockedRuns(p)
  BY <1>1 DEF Locked, Engaged, LockedRuns, Slots
<1>3. p \in Procs
  BY PlacesShape
<1>4. Covered(p)'
  <2>1. owner' \in SessionsOf(p)'
    BY <1>1, <1>3, SpellSessionsNext DEF SessionsSpelled
  <2> QED BY <2>1 DEF Covered
<1>5. Counted(p)'
  <2>1. IsFiniteSet(LockedRuns(p)) /\ Cardinality(LockedRuns(p)) <= count /\ count \in Nat
    <3>1. LockedRuns(p) = {} => Cardinality(LockedRuns(p)) = 0
      BY FS_EmptySet
    <3> QED BY <3>1 DEF Safe, Counted, Owned
  <2>2. /\ IsFiniteSet(LockedRuns(p) \cup {r}) /\ Cardinality(LockedRuns(p)) \in Nat
        /\ Cardinality(LockedRuns(p) \cup {r}) = Cardinality(LockedRuns(p)) + 1
    BY <1>2, <2>1, FS_AddElement, FS_CardinalityType
  <2> QED BY <1>1, <1>2, <1>4, <2>1, <2>2 DEF Counted
<1>6. StoreOwns(p)'
  <2>1. SUFFICES ASSUME NEW t \in Runs, Proc[t] = p, pc'[t] = "store", t # r
                 PROVE  FALSE
    BY <1>1 DEF StoreOwns
  <2>2. t \in LockedRuns(p) /\ pc[t] = "store"
    BY <1>2, <2>1 DEF LockedRuns, Locked
  <2>3. owner # 0 /\ unowned[t] = owner
    BY <1>3, <2>1, <2>2, OwnerOf DEF Safe, StoreOwns
  <2> QED BY <1>1, <2>1, <2>3 DEF Distinct
<1>7. ServerExcludes(p)'
  <2>1. SUFFICES ASSUME engine = "postgresql"
                 PROVE  ServerExcludes(p)'
    BY <1>1 DEF ServerExcludes
  <2>2. LockedRuns(p) = {}
    <3>1. SUFFICES ASSUME NEW u \in LockedRuns(p) PROVE FALSE
      OBVIOUS
    <3>2. unowned[r] # owner
      BY <1>1, <1>2, <2>1 DEF Safe, ServerExcludes
    <3>3. owner # 0
      BY <1>3, <3>1, OwnerOf DEF Safe
    <3> QED BY <1>1, <3>2, <3>3
  <2>3. ~Engaged(r)'
    BY <1>1 DEF Engaged, Slots
  <2>4. ASSUME NEW t \in Runs \ {r}, Proc[t] = p
        PROVE  ~Locked(t)' /\ (pc'[t] = "try" => unowned'[t] # owner')
    BY <1>1, <1>2, <2>2, <2>4 DEF LockedRuns, Distinct
  <2> QED BY <1>2, <2>2, <2>3, <2>4 DEF ServerExcludes
<1> QED BY <1>5, <1>6, <1>7 DEF Safe

LEMMA StoreSafe ==
  ASSUME Slots, Places, Owned, NEW r \in Runs, Store(r), Safe(Proc[r]),
         Attached(Proc[r])', Step(Proc[r])
  PROVE  Safe(Proc[r])'
<1> DEFINE p == Proc[r]
<1>1. /\ pc[r] = "store" /\ pc' = [pc EXCEPT ![r] = "acquired"]
      /\ UNCHANGED <<engine, owner, count, unowned>>
      /\ tracked \subseteq tracked' /\ (engine = "postgresql" => p \in tracked')
  BY DEF Store, Goto, client, server
<1>2. /\ \A t \in Runs : Locked(t)' <=> Locked(t)
      /\ \A t \in Runs \ {r} : pc'[t] = pc[t]
      /\ LockedRuns(p)' = LockedRuns(p)
  BY <1>1 DEF Locked, Engaged, LockedRuns, Slots
<1>3. p \in Procs
  BY PlacesShape
<1>4. Counted(p)'
  <2>1. LockedRuns(p) # {} => Covered(p)'
    BY <1>1, <1>3, OwnerOf DEF Safe, Step
  <2> QED BY <1>1, <1>2, <2>1 DEF Safe, Counted
<1>5. StoreOwns(p)'
  BY <1>1 DEF Safe, StoreOwns, Slots
<1>6. ServerExcludes(p)'
  <2>1. \A t \in Runs : pc'[t] = "try" => pc[t] = "try"
    BY <1>1 DEF Slots
  <2> QED BY <1>1, <1>2, <2>1 DEF Safe, ServerExcludes
<1> QED BY <1>4, <1>5, <1>6 DEF Safe

(* The lock is given up only when it was released as often as it was taken:*)
(* no other run of the process needs it then.                              *)
LEMMA ReleaseSafe ==
  ASSUME Slots, Places, Owned, NEW r \in Runs, Release(r), Safe(Proc[r]),
         Attached(Proc[r])', Step(Proc[r])
  PROVE  Safe(Proc[r])'
<1> DEFINE p == Proc[r]
<1>1. PICK s \in Connect(r) : Unlock(s)
  BY DEF Release
<1>2. /\ pc[r] = "release" /\ pc' = [pc EXCEPT ![r] = "idle"] /\ UNCHANGED <<engine, unowned>>
  BY DEF Release, Goto
<1>3. /\ LockedRuns(p)' = LockedRuns(p) \ {r} /\ r \in LockedRuns(p)
      /\ \A t \in Runs : pc'[t] = "store" => pc[t] = "store" /\ t # r
  BY <1>2 DEF LockedRuns, Locked, Engaged, Slots
<1>4. p \in Procs
  BY PlacesShape
<1>5. /\ IsFiniteSet(LockedRuns(p)')
      /\ Cardinality(LockedRuns(p)') = Cardinality(LockedRuns(p)) - 1
      /\ Cardinality(LockedRuns(p)) \in Nat /\ Cardinality(LockedRuns(p)') \in Nat
      /\ Cardinality(LockedRuns(p)) <= count
  BY <1>3, FS_RemoveElement, FS_CardinalityType DEF Safe, Counted
<1>6. count' = count \/ (count' = count - 1 /\ (count # 1 => owner' = owner))
  BY <1>1 DEF Unlock, server
<1>7. owner' = owner \/ (owner' = 0 /\ count = 1)
  BY <1>1 DEF Unlock, server
<1>8. LockedRuns(p)' # {} => owner' = owner
  <2>1. SUFFICES ASSUME count = 1 PROVE LockedRuns(p)' = {}
    BY <1>7
  <2>2. Cardinality(LockedRuns(p)') = 0
    BY <1>5, <2>1
  <2> QED BY <1>5, <2>2, FS_EmptySet
<1>9. Counted(p)'
  <2>1. Cardinality(LockedRuns(p)') <= count'
    BY <1>5, <1>6 DEF Owned
  <2>2. LockedRuns(p)' # {} => Covered(p)'
    BY <1>3, <1>4, <1>8, OwnerOf DEF Safe, Step
  <2> QED BY <1>5, <2>1, <2>2 DEF Counted
<1>10. StoreOwns(p)'
  <2>1. SUFFICES ASSUME NEW t \in Runs, Proc[t] = p, pc'[t] = "store"
                 PROVE  unowned'[t] = owner'
    BY DEF StoreOwns
  <2>2. t \in LockedRuns(p)'
    BY <2>1 DEF LockedRuns, Locked
  <2> QED BY <1>2, <1>3, <1>8, <2>1, <2>2 DEF Safe, StoreOwns
<1>11. ServerExcludes(p)'
  <2>1. engine = "postgresql" => LockedRuns(p)' = {}
    BY <1>3 DEF Safe, ServerExcludes, LockedRuns
  <2> QED BY <1>2, <2>1 DEF ServerExcludes
<1> QED BY <1>9, <1>10, <1>11 DEF Safe

(* The lock is with p, or no run of p was granted it.                      *)
LEMMA ServerKept ==
  ASSUME Slots, Places, Owned, NEW p \in Procs, Safe(p),
         NEW r \in Runs, RunNext(r), p \notin struck', Proc[r] # p \/ ~(TryLock(r) \/ Release(r)),
         LockedRuns(p) # {}
  PROVE  UNCHANGED server
<1> USE DEF Closed
<1>1. /\ owner # 0 /\ owner \notin Unused
      /\ \A q \in Procs \ {p} : owner \notin SessionsOf(q)
  BY OwnerOf DEF Safe
<1>2. Proc[r] # p => owner \notin SessionsOf(Proc[r])
  BY <1>1, PlacesShape
<1>3. CASE ProbeFails(r)
  <2>1. Proc[r] # p /\ Closed(pool[Proc[r]])
    BY <1>3 DEF ProbeFails
  <2> QED BY <1>2, <2>1, PlacesShape
<1>4. CASE Gives(r)
  <2>1. PICK S : GiveBack(Proc[r], S) /\ 0 \notin S /\ S \subseteq {unowned[r], conn[r]}
    <3>1. \/ unowned[r] # 0 /\ GiveBack(Proc[r], {unowned[r]})
          \/ GiveBack(Proc[r], {conn[r]} \ {0})
      BY <1>4, GivesSpelled DEF Places
    <3> QED BY <3>1
  <2>2. S \subseteq SessionsOf(Proc[r])
    BY <2>1, PlacesShape
  <2>3. owner \notin S \cap detached
    BY <1>2, <2>2 DEF Safe, Attached
  <2> QED BY <2>1, <2>3 DEF GiveBack
<1>5. CASE TryLock(r)
  <2>1. owner \in {0, unowned[r]} /\ Proc[r] # p
    BY <1>5 DEF TryLock, Granted
  <2> QED BY <1>1, <1>2, <2>1, PlacesShape
<1>6. CASE Release(r)
  <2>1. PICK s \in Connect(r) : Unused # {} /\ Unlock(s)
    BY <1>6 DEF Release
  <2>2. s # owner
    BY <1>1, <1>2, <1>6, <2>1, Connected
  <2> QED BY <2>1, <2>2 DEF Unlock
<1>7. CASE Probe(r) \/ CheckReentrant(r) \/ Store(r)
  BY <1>7 DEF Probe, CheckReentrant, Store
<1>8. CASE Takes(r)
  BY <1>8, TakesSpelled DEF Places
<1> QED BY <1>3, <1>4, <1>5, <1>6, <1>7, <1>8 DEF RunNext, Stays

(* No session that comes to p belongs to an engine that was disposed of.   *)
LEMMA RunAttached ==
  ASSUME Slots, Places, Owned, Loose, NEW p \in Procs, Safe(p),
         NEW r \in Runs, RunNext(r), p \notin struck'
  PROVE  Attached(p)'
<1>0. Attached(p) /\ Step(Proc[r]) /\ Proc[r] \in Procs
  BY AnyRunMoves, PlacesShape DEF Safe
<1>1. CASE Probe(r) \/ Gives(r) \/ Stays(r) \/ Release(r)
  <2>1. detached' \subseteq detached \cup {}
    <3>1. CASE Gives(r)
      BY <3>1, GivesSpelled DEF Places, GiveBack
    <3> QED BY <1>1, <3>1 DEF Probe, Stays, CheckReentrant, TryLock, Store, Release, client
  <2>2. stale' = stale \/ stale' = [stale EXCEPT ![r] = FALSE]
    <3>1. CASE Gives(r)
      BY <3>1, GivesSpelled DEF Places
    <3> QED BY <1>1, <3>1 DEF Probe, Stays, CheckReentrant, TryLock, Store, Release
  <2>3. \A t \in Runs : Proc[t] = p => ~stale'[t]
    BY <1>0, <2>2 DEF Attached, Places
  <2>4. {} \cap SessionsOf(p)' = {}
    OBVIOUS
  <2> QED BY <1>0, <2>1, <2>3, <2>4, AttachedKept
<1>2. CASE ProbeFails(r)
  <2>1. /\ Proc[r] # p /\ detached' \subseteq detached \cup Held(Proc[r])
        /\ \A t \in Runs : Proc[t] = p => ~stale'[t]
    BY <1>0, <1>2 DEF ProbeFails, Attached
  <2>2. Held(Proc[r]) \cap SessionsOf(p)' = {}
    BY <1>0, <2>1, OthersApart DEF SessionsOf
  <2> QED BY <1>0, <2>1, <2>2, AttachedKept
<1>3. CASE Takes(r)
  <2>1. PICK s \in Connect(r) : Take(r, s) /\ Unused # {} /\ UNCHANGED stale
    BY <1>3, TakesSpelled DEF Places
  <2> DEFINE D == IF stale[r] THEN {s} ELSE {}
  <2>2. detached' \subseteq detached \cup D
    BY <2>1 DEF Take
  <2>3. \A t \in Runs : Proc[t] = p => ~stale'[t]
    BY <1>0, <2>1 DEF Attached
  <2>4. D \cap SessionsOf(p)' = {}
    <3>1. CASE Proc[r] = p
      BY <1>0, <3>1 DEF Attached
    <3>2. CASE Proc[r] # p
      <4>1. s \in SessionsOf(Proc[r]) \cup Unused
        BY <2>1, Connected
      <4> QED BY <1>0, <3>2, <4>1, OthersApart
    <3> QED BY <3>1, <3>2
  <2> HIDE DEF D
  <2> QED BY <1>0, <2>2, <2>3, <2>4, AttachedKept
<1> QED BY <1>1, <1>2, <1>3 DEF RunNext

LEMMA RunSafe ==
  ASSUME Slots, Places, Owned, Distinct, Loose, NEW p \in Procs, Safe(p),
         NEW r \in Runs, RunNext(r), p \notin struck'
  PROVE  Safe(p)'
<1>1. Attached(p)' /\ Step(Proc[r])
  BY RunAttached, AnyRunMoves
<1>2. CASE Proc[r] = p /\ (CheckReentrant(r) \/ TryLock(r) \/ Store(r) \/ Release(r))
  BY <1>1, <1>2, CheckSafe, TryLockSafe, StoreSafe, ReleaseSafe
<1>3. CASE ~(Proc[r] = p /\ (CheckReentrant(r) \/ TryLock(r) \/ Store(r) \/ Release(r)))
  <2>1. \A t \in Runs : Proc[t] = p => Keeps(t)
    BY <1>3, RunKeeps DEF Stays
  <2>2. LockedRuns(p)' \subseteq LockedRuns(p)
    BY <2>1 DEF LockedRuns, Locked, Keeps
  <2>3. LockedRuns(p)' # {} => UNCHANGED server
    BY <1>3, <2>2, ServerKept
  <2>4. p \in tracked => p \in tracked'
    <3>1. CASE Release(r)
      BY <1>3, <3>1 DEF Release
    <3>2. CASE Gives(r) \/ Takes(r)
      BY <3>2, GivesSpelled, TakesSpelled DEF Places
    <3> QED BY <3>1, <3>2 DEF RunNext, Probe, ProbeFails, Stays, CheckReentrant, TryLock, Store
  <2> QED BY <1>1, <2>1, <2>3, <2>4, SafeSame, RunKeeps
<1> QED BY <1>2, <1>3

LEMMA EnvSafe ==
  ASSUME Slots, Places, Owned, Loose, NEW p \in Procs, Safe(p), EnvNext, p \notin struck'
  PROVE  Safe(p)'
<1> USE DEF Closed
<1>1. Step(None) /\ Attached(p)
  BY EnvMoves DEF Safe
<1>2. /\ \A t \in Runs : Proc[t] = p => Keeps(t)
      /\ UNCHANGED engine /\ LockedRuns(p)' \subseteq LockedRuns(p)
  BY EnvKeeps DEF LockedRuns, Locked, Keeps
<1>3. Attached(p)'
  <2>1. detached' \subseteq detached \cup {}
    BY DEF EnvNext, Ended, End, EndProcess, Cut
  <2>2. \A t \in Runs : Proc[t] = p => ~stale'[t]
    BY <1>1 DEF EnvNext, Ended, End, EndProcess, Attached
  <2>3. {} \cap SessionsOf(p)' = {}
    OBVIOUS
  <2> QED BY <1>1, <2>1, <2>2, <2>3, AttachedKept
<1>4. ASSUME LockedRuns(p)' # {} PROVE UNCHANGED server /\ (p \in tracked => p \in tracked')
  <2>1. LockedRuns(p) # {}
    BY <1>2, <1>4
  <2>2. Covered(p) /\ \A q \in Procs \ {p} : owner \notin SessionsOf(q)
    BY <2>1, OwnerOf DEF Safe
  <2>3. ASSUME NEW s, Ended(s) PROVE UNCHANGED <<server, tracked>>
    <3>1. s # owner
      BY <2>2, <2>3 DEF Ended, End, Covered
    <3> QED BY <2>3, <3>1 DEF Ended, End, Cut
  <2>4. ASSUME NEW q \in Procs, EndProcess(q)
        PROVE  UNCHANGED server /\ (p \in tracked => p \in tracked')
    <3>1. q # p
      <4>1. SUFFICES ASSUME q = p PROVE LockedRuns(p)' = {}
        BY <1>4
      <4>2. \A t \in Runs : Proc[t] = p => pc'[t] = "idle"
        BY <2>4, <4>1 DEF EndProcess
      <4> QED BY <4>2 DEF LockedRuns, Locked, Engaged
    <3> QED BY <2>2, <2>4, <3>1 DEF EndProcess, Cut
  <2> QED BY <2>3, <2>4 DEF EnvNext
<1> QED BY <1>1, <1>2, <1>3, <1>4, SafeSame

LEMMA UnstruckKept ==
  ASSUME Slots, Places, Owned, Distinct, Loose, Unstruck, [Next]_vars
  PROVE  Unstruck'
<1>1. CASE UNCHANGED vars
  BY <1>1
  DEF vars, client, server, past, Unstruck, Safe, Attached, Counted, StoreOwns, ServerExcludes,
      Covered, SessionsOf, Held, LockedRuns, Locked, Engaged
<1>2. CASE Next
  <2>1. struck \subseteq struck'
    <3>1. ASSUME NEW r \in Runs, RunNext(r) PROVE struck \subseteq struck'
      <4>1. CASE Gives(r) \/ Takes(r)
        BY <4>1, GivesSpelled, TakesSpelled DEF Places
      <4> QED
        BY <3>1, <4>1
        DEF RunNext, Probe, ProbeFails, Stays, CheckReentrant, TryLock, Store, Release, past
    <3>2. CASE EnvNext
      BY <3>2 DEF EnvNext, Ended, End, EndProcess, past
    <3> QED BY <1>2, <3>1, <3>2, NextSpelled DEF Places
  <2>2. SUFFICES ASSUME NEW p \in Procs, p \notin struck' PROVE Safe(p)'
    BY DEF Unstruck
  <2>3. Safe(p)
    BY <2>1, <2>2 DEF Unstruck
  <2> QED BY <1>2, <2>2, <2>3, RunSafe, EnvSafe, NextSpelled DEF Places
<1> QED BY <1>1, <1>2

LEMMA CoverInvariant == Spec => []CoverInv
<1>1. Init => CoverInv
  <2> SUFFICES ASSUME Init PROVE CoverInv
    OBVIOUS
  <2>1. SessionsSpelled
    BY SpellSessions
  <2>2. \A p \in Procs : SessionsOf(p) = {}
    BY <2>1 DEF Init, SessionsSpelled
  <2>3. Slots /\ Places /\ Distinct /\ Loose /\ Owned
    BY <2>2 DEF Init, Slots, PCs, Acquiring, Places, PlaceTypes, Distinct, Loose, Owned
  <2>4. \A p \in Procs : LockedRuns(p) = {}
    BY DEF Init, LockedRuns, Locked, Engaged
  <2>5. Unraced
    BY DEF Init, Unraced, Trying, Locked, Engaged
  <2>6. Unstruck
    BY <2>4, FS_EmptySet
    DEF Init, Unstruck, Safe, Attached, Counted, StoreOwns, ServerExcludes
  <2> QED BY <2>3, <2>5, <2>6 DEF CoverInv
<1>2. CoverInv /\ [Next]_vars => CoverInv'
  BY SlotsKept, PlacesKept, DistinctKept, LooseKept, UnracedKept, UnstruckKept DEF CoverInv
<1> QED BY <1>1, <1>2, PTL DEF Spec

-----------------------------------------------------------------------------
LEMMA ActiveCovered == CoverInv => RunsAreCovered
<1>1. \A r \in Runs : Active(r) => r \in LockedRuns(Proc[r]) /\ Proc[r] \in Procs
  BY ProcsAssumption DEF Active, LockedRuns, Locked, Engaged
<1> QED BY <1>1 DEF CoverInv, Unstruck, Safe, Counted, RunsAreCovered

(* Whichever of its sessions the pool has passed the lock to, it stays with*)
(* the process until every run has released it: acquire_lock keeps no      *)
(* connection, and release_lock may be given any session.  What other      *)
(* processes lose does not matter.                                         *)
THEOREM LockStaysWithProcess == Spec => []RunsAreCovered
BY ActiveCovered, CoverInvariant, PTL

(* Of two processes that migrate at once one has lost the lock, or disposed*)
(* of an engine: the session of the other still has it, and a session      *)
(* belongs to one process.                                                 *)
THEOREM OverlapsAreStruck == Spec => []OnlyStruckOverlap
<1>1. CoverInv => OnlyStruckOverlap
  BY ActiveCovered, ProcsAssumption DEF CoverInv, Places, RunsAreCovered, Covered, OnlyStruckOverlap
<1> QED BY <1>1, CoverInvariant, PTL

(* Two threads of a process migrate at once on PostgreSQL only if both     *)
(* protections failed.  Without a race the entry in _acquired_locks refuses*)
(* the second, whatever became of the sessions; and without a loss the     *)
(* server does, as the thread that got past the entry has a session other  *)
(* than the one with the lock.                                             *)
THEOREM ThreadsExclude == Spec => []NestedRefused
<1>1. ASSUME CoverInv, engine = "postgresql", NEW r \in Runs, NEW t \in Runs,
             r # t, Proc[r] = Proc[t], Active(r), Active(t)
      PROVE  Proc[r] \in raced /\ Proc[r] \in struck
  <2>1. Locked(r) /\ Locked(t) /\ Proc[r] \in Procs
    BY <1>1, ProcsAssumption DEF Active, Locked, Engaged
  <2>2. Proc[r] \in raced
    BY <1>1, <2>1 DEF CoverInv, Unraced, Trying
  <2>3. Proc[r] \in struck
    BY <1>1, <2>1 DEF CoverInv, Unstruck, Safe, ServerExcludes, LockedRuns
  <2> QED BY <2>2, <2>3
<1>2. CoverInv => NestedRefused
  BY <1>1 DEF NestedRefused
<1> QED BY <1>2, CoverInvariant, PTL
==============================================================================
