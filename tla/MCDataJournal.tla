---------------------------- MODULE MCDataJournal ----------------------------
(* Instances of DataJournal for TLC: plans of a few steps.                 *)
EXTENDS DataJournal

(* Copies rows with an ownership proof, checks, alters the table and       *)
(* rewrites a column in two statements; the rollback alters, then removes  *)
(* the rows under locks.                                                   *)
MixedBody ==
  [upgrade |-> << <<"insert", "dml">>, << >>, <<"ddl">> >>,
   rollback |-> << <<"ddl">>, <<"dml", "insert">> >>]
MixedChecked == [upgrade |-> {1, 3}, rollback |-> {1, 2}]

BothModes == {"transactional", "nontransactional"}
=============================================================================
