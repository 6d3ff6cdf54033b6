---------------------------- MODULE MCSessionLock ----------------------------
(* Instances of SessionLock for TLC.                                       *)
EXTENDS SessionLock, TLC

CONSTANTS p1, p2, r1, r2, r3

TwoProcs == {p1, p2}
BothEngines == {"postgresql", "mysql"}

(* A process with two threads, and one more.                               *)
ThreeRuns == {r1, r2, r3}
ThreeProc == (r1 :> p1 @@ r2 :> p1 @@ r3 :> p2)
Threads == Permutations({r1, r2})
=============================================================================
