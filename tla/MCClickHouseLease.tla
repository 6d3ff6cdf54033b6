------------------------- MODULE MCClickHouseLease -------------------------
(* Two invocations of ClickHouseLease for TLC.                             *)
EXTENDS ClickHouseLease
CONSTANTS p1, p2

TwoProcs == {p1, p2}
=============================================================================
