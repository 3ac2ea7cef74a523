------------------------------ MODULE MCEdge ------------------------------
(* Instances of Edge for TLC; the constants are numbers, set in the .cfg.  *)
EXTENDS Edge
=============================================================================
