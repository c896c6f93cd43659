------------------------------ MODULE NatnegMC ------------------------------
(* Natneg on small sets of peers.                                          *)
EXTENDS Natneg, TLC

Peers == Permutations(Peer)
=============================================================================
