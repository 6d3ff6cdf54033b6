---------------------------- MODULE MCSqliteLock ----------------------------
(* Instances of SqliteLock for TLC: three invocations, one or three files.*)
EXTENDS SqliteLock
CONSTANTS p1, p2, p3

ThreeProcs == {p1, p2, p3}
(* One of the processes belongs to somebody else.                          *)
User3 == [p \in ThreeProcs |-> IF p = p3 THEN "cron" ELSE "deploy"]

OneFile == << <<"ddl", "dml">> >>
ThreeFiles == << <<"dml">>, <<"dml", "ddl">>, <<"dml", "dml">> >>
OneOrThree == {OneFile, ThreeFiles}
=============================================================================
