---------------------------- MODULE MCAgentLoop ----------------------------
(* Small instances of AgentLoop: the worker processes are interchangeable.    *)
EXTENDS AgentLoop, TLC

Symmetry == Permutations(Workers)
=============================================================================
