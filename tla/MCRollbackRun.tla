--------------------------- MODULE MCRollbackRun ---------------------------
(* Version 2 has an autocommit rollback statement, version 1 two effects;   *)
(* the file of version 3 is fragile, that of version 2 may come late.       *)
EXTENDS RollbackRun

SomeEffects == [v \in Versions |-> IF v = 1 THEN 2 ELSE 1]
SomeAuto == {<<2, 1>>}
NoAuto == {}
=============================================================================
