-------------------------- MODULE MCMigrationOrder --------------------------
(* Every dependency function over three versions and one that no file has,  *)
(* of those on a version itself only {1};                                   *)
(* the third file arrives late, the second is the one with risks.           *)
EXTENDS MigrationOrder

AllChoices ==
  {f \in [Versions -> SUBSET (Versions \cup {Absent})] :
     \A v \in Versions : v \in f[v] => f[v] = {v} /\ v = 1}
SomeSeverity == [v \in Versions |-> IF v = 2 THEN 2 ELSE 1]
=============================================================================
