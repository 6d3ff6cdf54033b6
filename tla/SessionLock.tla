----------------------------- MODULE SessionLock -----------------------------
(***************************************************************************)
(* The migration lock on PostgreSQL (pg_try_advisory_lock) and on MySQL    *)
(* and MariaDB (GET_LOCK).  The server gives the lock to a session and     *)
(* counts how often it was taken.  The session comes from the pool of the  *)
(* engine that the process keeps in _engine_cache, and acquire_lock does   *)
(* not keep the connection: when it is garbage collected the session goes  *)
(* back to the pool, with the lock.  release_lock takes a session of its   *)
(* own.                                                                    *)
(*                                                                         *)
(* Nothing commits the connections of acquire and release on these         *)
(* engines, so the status row never becomes durable and is not here.       *)
(***************************************************************************)
EXTENDS Naturals, FiniteSets

CONSTANTS
  Engines,      (* Which of "postgresql" and "mysql" the database may be.  *)
  Procs, None,
  Runs,         (* Invocations that can be under way at the same time.     *)
  Proc,         (* Proc[r]: the process of r; it may have several threads. *)
  MaxSessions,  (* Bound: sessions open at a time.                         *)
  MaxRuns,      (* Bound: attempts to acquire.                             *)
  MaxLosses     (* Bound: failed probes, sessions that are cut off.        *)

Sessions == 1 .. MaxSessions

ASSUME EnginesAssumption == Engines \subseteq {"postgresql", "mysql"}
ASSUME ProcsAssumption == None \notin Procs /\ Proc \in [Runs -> Procs]
ASSUME BoundsAssumption == MaxSessions \in Nat /\ MaxRuns \in Nat /\ MaxLosses \in Nat

VARIABLES
  engine,
  owner,      (* The session that has the lock, or 0.                      *)
  count,      (* How often it has taken it.                                *)
  pool,       (* pool[p]: the idle sessions of the cached engine of p.     *)
  detached,   (* Sessions in use that belong to an engine that was         *)
              (* disposed of: given back, they are closed.                 *)
  unowned,    (* unowned[r]: the session of the connection of acquire_lock,*)
              (* which drops it when it succeeds, until it is collected;   *)
              (* or 0.                                                     *)
  conn,       (* conn[r]: the session of _migration_conn; or 0.            *)
  stale,      (* stale[r]: r goes on with an engine that was disposed of.  *)
  tracked,    (* Processes with an entry in _acquired_locks.               *)
  pc,
  attempts, losses

(* Of the history, for the properties only.                                *)
VARIABLES
  raced,      (* Processes two threads of which were past the look at      *)
              (* _acquired_locks at once, and had not stored into it.      *)
  struck      (* Processes that lost a session that had the lock, or that  *)
              (* disposed of an engine.                                    *)

server == <<owner, count>>
client == <<pool, detached, unowned, conn>>
bounds == <<attempts, losses>>
past == <<raced, struck>>
vars == <<engine, server, client, stale, tracked, pc, bounds, past>>

Held(p) == UNION {{unowned[r], conn[r]} \ {0} : r \in {q \in Runs : Proc[q] = p}}
SessionsOf(p) == pool[p] \cup Held(p)
Open == UNION {SessionsOf(p) : p \in Procs}
Unused == Sessions \ Open
New == CHOOSE s \in Unused : \A t \in Unused : s <= t

(* engine.connect(): an idle session, a new one when there is none.        *)
Connect(r) ==
  IF stale[r] \/ pool[Proc[r]] = {} THEN {New} ELSE pool[Proc[r]]

(* The server frees what the sessions in S had.                            *)
Closed(S) == IF owner \in S THEN owner' = 0 /\ count' = 0 ELSE UNCHANGED server

Init ==
  /\ engine \in Engines
  /\ owner = 0 /\ count = 0
  /\ pool = [p \in Procs |-> {}] /\ detached = {}
  /\ unowned = [r \in Runs |-> 0] /\ conn = [r \in Runs |-> 0]
  /\ stale = [r \in Runs |-> FALSE] /\ tracked = {}
  /\ pc = [r \in Runs |-> "idle"]
  /\ attempts = 0 /\ losses = 0
  /\ raced = {} /\ struck = {}

-----------------------------------------------------------------------------

Goto(r, from, to) == pc[r] = from /\ pc' = [pc EXCEPT ![r] = to]

(* _probe_connection at the start of acquire_lock, of                      *)
(* hold_migration_connection and of release_lock.  While the connection of *)
(* an invocation is not collected, the next one is another r.              *)
ProbeStep(r) ==
  \/ /\ Goto(r, "idle", "acquire") /\ unowned[r] = 0
     /\ attempts < MaxRuns /\ attempts' = attempts + 1
  \/ Goto(r, "acquired", "open") /\ UNCHANGED attempts
  \/ Goto(r, "finished", "release") /\ UNCHANGED attempts

Probe(r) ==
  /\ ProbeStep(r) /\ Unused # {}
  /\ pool' = [pool EXCEPT ![Proc[r]] = IF @ = {} THEN {New} ELSE @]
  /\ stale' = [stale EXCEPT ![r] = FALSE]
  /\ UNCHANGED <<engine, server, detached, unowned, conn, tracked, losses, past>>

(* It fails once: the engine is disposed of, with its idle sessions, and   *)
(* the second attempt succeeds on a new one.  Its caller keeps the old     *)
(* one, as do the threads that have fetched it.  A migration under way     *)
(* probes at every step too.                                               *)
ProbeFails(r) ==
  /\ losses < MaxLosses /\ losses' = losses + 1 /\ Unused # {}
  /\ \/ ProbeStep(r)
     \/ pc[r] = "running" /\ UNCHANGED <<pc, attempts>>
  /\ pool' = [pool EXCEPT ![Proc[r]] = {New}]
  /\ detached' = detached \cup Held(Proc[r])
  /\ Closed(pool[Proc[r]])
  /\ stale' = [t \in Runs |-> Proc[t] = Proc[r] \/ stale[t]]
  /\ struck' = struck \cup {Proc[r]}
  /\ UNCHANGED <<engine, unowned, conn, tracked, raced>>

(***************************************************************************)
(* acquire_lock                                                            *)
(***************************************************************************)

(* The session s is taken for r.                                           *)
Take(r, s) ==
  /\ pool' = [pool EXCEPT ![Proc[r]] = @ \ {s}]
  /\ detached' = IF stale[r] THEN detached \cup {s} ELSE detached

(* S is given back by the process p.                                       *)
GiveBack(p, S) ==
  /\ pool' = [pool EXCEPT ![p] = @ \cup (S \ detached)]
  /\ detached' = detached \ S
  /\ Closed(S \cap detached)

OpenLockConnection(r) ==
  /\ Unused # {}
  /\ \E s \in Connect(r) : Take(r, s) /\ unowned' = [unowned EXCEPT ![r] = s]
  /\ Goto(r, "acquire", "check")
  /\ UNCHANGED <<engine, server, conn, stale, tracked, bounds, past>>

(* acquire_lock closes the connection of a refused or failed acquisition,  *)
(* which gives the session back as it is.                                  *)
CloseLockConnection(r) ==
  /\ GiveBack(Proc[r], {unowned[r]})
  /\ unowned' = [unowned EXCEPT ![r] = 0]
  /\ pc' = [pc EXCEPT ![r] = "idle"]
  /\ UNCHANGED conn

(* Mutant: PostgreSQL, too, counts on the server alone.                    *)
MutantReentrant(r) == FALSE

Reentrant(r) == engine = "postgresql" /\ Proc[r] \in tracked

(* PostgreSQLStrategy.acquire looks into _acquired_locks, which nothing    *)
(* guards while it goes on.                                                *)
CheckReentrant(r) ==
  /\ Goto(r, "check", "try") /\ ~Reentrant(r)
  /\ raced' = IF \E t \in Runs : Proc[t] = Proc[r] /\ pc[t] \in {"try", "store"}
                THEN raced \cup {Proc[r]} ELSE raced
  /\ UNCHANGED <<engine, server, client, stale, tracked, bounds, struck>>

RefuseReentrant(r) ==
  /\ pc[r] = "check" /\ Reentrant(r)
  /\ CloseLockConnection(r)
  /\ UNCHANGED <<engine, stale, tracked, bounds, past>>

(* Mutant: the answer of the server is not looked at.                      *)
MutantGranted(s) == TRUE

(* The answer of the server to the session s.                              *)
Granted(s) == owner \in {0, s}

(* pg_try_advisory_lock, GET_LOCK: asked again until it is granted or the  *)
(* time for it is over.                                                    *)
TryLock(r) ==
  /\ Goto(r, "try", "store") /\ Granted(unowned[r])
  /\ owner' = unowned[r] /\ count' = count + 1
  /\ UNCHANGED <<engine, client, stale, tracked, bounds, past>>

Refuse(r) ==
  /\ pc[r] = "try" /\ ~Granted(unowned[r])
  /\ CloseLockConnection(r)
  /\ UNCHANGED <<engine, stale, tracked, bounds, past>>

(* The INSERT of the status row, and the entry in _acquired_locks.         *)
Store(r) ==
  /\ Goto(r, "store", "acquired")
  /\ tracked' = IF engine = "postgresql" THEN tracked \cup {Proc[r]} ELSE tracked
  /\ UNCHANGED <<engine, server, client, stale, bounds, past>>

StoreFails(r) ==
  /\ losses < MaxLosses /\ losses' = losses + 1
  /\ pc[r] = "store"
  /\ CloseLockConnection(r)
  /\ UNCHANGED <<engine, stale, tracked, attempts, past>>

Acquiring(r) == pc[r] \in {"check", "try", "store"}

(* The garbage collector finds the connection that acquire_lock dropped.   *)
Collect(r) ==
  /\ unowned[r] # 0 /\ ~Acquiring(r)
  /\ GiveBack(Proc[r], {unowned[r]})
  /\ unowned' = [unowned EXCEPT ![r] = 0]
  /\ UNCHANGED <<engine, conn, stale, tracked, pc, bounds, past>>

(***************************************************************************)
(* The migration.                                                          *)
(***************************************************************************)

(* hold_migration_connection.                                              *)
OpenConnection(r) ==
  /\ Unused # {}
  /\ \E s \in Connect(r) : Take(r, s) /\ conn' = [conn EXCEPT ![r] = s]
  /\ Goto(r, "open", "running")
  /\ UNCHANGED <<engine, server, unowned, stale, tracked, bounds, past>>

(* The finally block closes the migration connection ...                   *)
CloseConnection(r) ==
  /\ Goto(r, "running", "finished")
  /\ GiveBack(Proc[r], {conn[r]} \ {0})
  /\ conn' = [conn EXCEPT ![r] = 0]
  /\ UNCHANGED <<engine, unowned, stale, tracked, bounds, past>>

(* Mutant: pg_advisory_unlock_all, wherever the lock is.                   *)
MutantUnlock(s) == owner' = 0 /\ count' = 0

(* pg_advisory_unlock, RELEASE_LOCK: nothing but a warning when another    *)
(* session has the lock.                                                   *)
Unlock(s) ==
  IF owner = s THEN count' = count - 1 /\ owner' = IF count = 1 THEN 0 ELSE owner
               ELSE UNCHANGED server

(* ... and releases the lock, on whatever session it gets.                 *)
Release(r) ==
  /\ Unused # {}
  /\ \E s \in Connect(r) :
       /\ Unlock(s)
       /\ pool' = IF stale[r] THEN pool ELSE [pool EXCEPT ![Proc[r]] = @ \cup {s}]
  /\ Goto(r, "release", "idle")
  /\ tracked' = tracked \ {Proc[r]}
  /\ UNCHANGED <<engine, detached, unowned, conn, stale, bounds, past>>

-----------------------------------------------------------------------------

(***************************************************************************)
(* Sessions that end.                                                      *)
(***************************************************************************)

Cut(S) ==
  /\ pool' = [p \in Procs |-> pool[p] \ S]
  /\ detached' = detached \ S
  /\ unowned' = [r \in Runs |-> IF unowned[r] \in S THEN 0 ELSE unowned[r]]
  /\ conn' = [r \in Runs |-> IF conn[r] \in S THEN 0 ELSE conn[r]]
  /\ Closed(S)

(* The session s is no more.  An acquisition or a migration that loses its *)
(* connection is aborted; a connection that nobody uses is not missed.     *)
End(s) ==
  /\ losses < MaxLosses /\ losses' = losses + 1
  /\ Cut({s})
  /\ pc' = [r \in Runs |-> IF conn[r] = s THEN "finished"
                           ELSE IF unowned[r] = s /\ Acquiring(r) THEN "idle" ELSE pc[r]]
  /\ struck' = IF s = owner THEN struck \cup {p \in Procs : s \in SessionsOf(p)} ELSE struck
  /\ UNCHANGED <<engine, stale, tracked, attempts, raced>>

(* A time-out of the server or of the network.                             *)
LoseSession(s) == s \in Open /\ End(s)

(* terminate_holder kills the session that has the lock.  It is not the    *)
(* one the migration works on, unless the pool made them so.               *)
TerminateHolder == owner # 0 /\ End(owner)

(* The process ends, regularly or not.                                     *)
EndProcess(p) ==
  /\ SessionsOf(p) # {} /\ Cut(SessionsOf(p))
  /\ pc' = [r \in Runs |-> IF Proc[r] = p THEN "idle" ELSE pc[r]]
  /\ stale' = [r \in Runs |-> IF Proc[r] = p THEN FALSE ELSE stale[r]]
  /\ tracked' = tracked \ {p}
  /\ UNCHANGED <<engine, bounds, past>>

Next ==
  \/ \E r \in Runs :
       \/ Probe(r) \/ ProbeFails(r)
       \/ OpenLockConnection(r) \/ CheckReentrant(r) \/ RefuseReentrant(r)
       \/ TryLock(r) \/ Refuse(r) \/ Store(r) \/ StoreFails(r)
       \/ Collect(r) \/ OpenConnection(r) \/ CloseConnection(r) \/ Release(r)
  \/ \E s \in Sessions : LoseSession(s)
  \/ TerminateHolder
  \/ \E p \in Procs : EndProcess(p)

Spec == Init /\ [][Next]_vars

-----------------------------------------------------------------------------
(***************************************************************************)
(* Properties.                                                             *)
(***************************************************************************)

Active(r) == pc[r] \in {"acquired", "open", "running"}
Covered(p) == owner \in SessionsOf(p)

(* The process of a run has the lock, whichever of its sessions the pool   *)
(* has passed it to, unless it was struck by a loss itself: what others do *)
(* and lose, and how they end, does not take it away.                      *)
RunsAreCovered == \A r \in Runs : Active(r) /\ Proc[r] \notin struck => Covered(Proc[r])

(* Of two processes that migrate at once one was struck by a loss: nobody  *)
(* is let in beside a process that has not lost its lock.                  *)
OnlyStruckOverlap ==
  \A r, t \in Runs :
    Active(r) /\ Active(t) => Proc[r] = Proc[t] \/ Proc[r] \in struck \/ Proc[t] \in struck

(* On PostgreSQL two threads of a process migrate at once only if their    *)
(* looks at _acquired_locks and their entries into it crossed and the      *)
(* process was struck as well: each of the two protections, the entry and  *)
(* the lock of the server, makes up for a failure of the other.            *)
NestedRefused ==
  engine = "postgresql" =>
    \A r, t \in Runs :
      r # t /\ Proc[r] = Proc[t] /\ Active(r) /\ Active(t) =>
        Proc[r] \in raced /\ Proc[r] \in struck
=============================================================================
