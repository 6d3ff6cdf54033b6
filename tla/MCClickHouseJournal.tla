------------------------- MODULE MCClickHouseJournal -------------------------
(* Instances of ClickHouseJournal for TLC.                                 *)
EXTENDS ClickHouseJournal

(* Two statements, a step of guards only, one statement; the rollback has  *)
(* one step of two statements.                                             *)
MixedSize == [upgrade |-> <<2, 0, 1>>, rollback |-> <<2>>]
MixedChecked == [upgrade |-> {1}, rollback |-> {1}]
=============================================================================
