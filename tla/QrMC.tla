-------------------------------- MODULE QrMC --------------------------------
(* Qr on small sets of servers.                                            *)
EXTENDS Qr

\* The constants of Qr.cfg: fewer would not tell a served game, a disabled
\* one and none apart, nor the entry's own instance key from another.
ASSUME QrMCAssumption == Game \ Disabled # {} /\ Disabled # {} /\ Key # {ZeroKey}
=============================================================================
