---------------------------- MODULE MCHandshake ----------------------------
(* Handshakes for TLC: the edges of the random tail and the masking key.   *)
EXTENDS Handshake

MCRandLens == {0, 255}
MCSKeys == {1, 65535}
=============================================================================
