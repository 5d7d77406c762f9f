------------------------- MODULE MCTaskOrchestrator -------------------------
(***************************************************************************)
(* Instances of TaskOrchestrator for TLC.                                  *)
(***************************************************************************)
EXTENDS TaskOrchestrator, TLC

\* Processes are interchangeable: used for runs without liveness properties.
ProcSymmetry == Permutations(Procs)
=============================================================================
