----------------------------- MODULE LegacyMsMC -----------------------------
(* The older master server beside a small registry.                        *)
EXTENDS LegacyMs, TLC

Servers == Permutations(Addr)
=============================================================================
