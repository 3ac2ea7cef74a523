----------------------------- MODULE MCSession -----------------------------
(* Small instances of Session for TLC: both sessions belong to one client   *)
(* name, as two logins of one user from one address do.                     *)
EXTENDS Session, TLC

MCcid == [s \in Sess |-> "user@ip"]
Symm  == Permutations(Tun) \cup Permutations(Sess) \cup Permutations(Token)
=============================================================================
