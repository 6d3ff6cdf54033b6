--------------------------- MODULE MCMergeRecovery ---------------------------
(* Two elements, one of them in the base: each branch, the merge and the    *)
(* version after it may add, drop and restore either.                       *)
EXTENDS MergeRecovery

Elements == {"a", "b"}
AllSchemas == SUBSET Elements
SomeBase == {"a"}
Replacement == {[add |-> {"b"}, drop |-> {"a"}]}
=============================================================================
