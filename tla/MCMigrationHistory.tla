------------------------- MODULE MCMigrationHistory -------------------------
(* Small instances of MigrationHistory for TLC.                            *)
EXTENDS MigrationHistory

CONSTANTS p1, p2

OneProc == {p1}
TwoProcs == {p1, p2}
=============================================================================
