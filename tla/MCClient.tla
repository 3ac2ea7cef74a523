------------------------------ MODULE MCClient ------------------------------
(* Small instances of Client for TLC; goroutines are interchangeable.       *)
EXTENDS Client, TLC

Symm == Permutations(G)
=============================================================================
