----------------------------- MODULE MCDiscovery -----------------------------
(* A small instance of Discovery; its constants are given in the cfg files.   *)
EXTENDS Discovery
=============================================================================
