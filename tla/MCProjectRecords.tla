--------------------------- MODULE MCProjectRecords ---------------------------
(* Small instances of ProjectRecords; no symmetry, for the sake of liveness. *)
EXTENDS ProjectRecords
=============================================================================
