------------------------------- MODULE MCMux -------------------------------
(* Instances of Mux for TLC: every session asks for the same destination.  *)
EXTENDS Mux

MCdest == [i \in Sid |-> CHOOSE d \in Dest : TRUE]
=============================================================================
