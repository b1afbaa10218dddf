--------------------------- MODULE MCWorkflowCore ---------------------------
(***************************************************************************)
(* Small instances of WorkflowCore for TLC.  Workers, requests and keys    *)
(* are interchangeable: no action compares two of them.                    *)
(***************************************************************************)
EXTENDS WorkflowCoreInv, TLC

Symmetry == Permutations(Workers) \cup Permutations(Clients)
               \cup Permutations(Keys)
=============================================================================
