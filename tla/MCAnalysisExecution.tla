------------------------- MODULE MCAnalysisExecution -------------------------
(* Small instances of AnalysisExecution: no action compares two processes.   *)
EXTENDS AnalysisExecution, TLC

Symmetry == Permutations(Processes)
=============================================================================
