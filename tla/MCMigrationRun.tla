--------------------------- MODULE MCMigrationRun ---------------------------
(* Instances of MigrationRun for TLC: small directories of migration files. *)
EXTENDS MigrationRun

(* Four versioned files, one RA__ and one ROC__ file.  The second version  *)
(* has an autocommit statement; the third has the statements, hence the    *)
(* checksum, of the first (a column added, dropped and added again).       *)
EngineKind == <<"versioned", "versioned", "versioned", "versioned", "always", "change">>
EngineBody == << <<"dml", "ddl">>, <<"dml", "auto">>, <<"dml", "ddl">>,
                 <<"ddl", "dml">>, <<"dml">>, <<"dml">> >>
EngineChecksum == <<1, 2, 1, 4, 5, 6>>

AllEngines == {"postgresql", "mysql", "sqlite", "clickhouse"}
=============================================================================
