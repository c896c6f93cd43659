----------------------------- MODULE BrowsingMC -----------------------------
(* Browsing on small sets of servers and clients.                          *)
EXTENDS Browsing, TLC

Everything == SUBSET Option

\* With and without a limit: lists that say all and lists that do not.
Subscriptions == {{"push"}, {"push", "limit"}}

Slots == Permutations(Client)
=============================================================================
