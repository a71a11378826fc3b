---------------------------- MODULE MCDeployment ----------------------------
(* Small instances of Deployment for TLC.                                  *)
EXTENDS Deployment

CONSTANTS p1, p2

OneProc == {p1}
TwoProcs == {p1, p2}

\* Everywhere but between the first statement of a migration's own Complete
\* and the write that records it.
OutsideOwnComplete == Steps \ {"own", "reproject", "done"}
=============================================================================
