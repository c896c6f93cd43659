----------------------------- MODULE PeerchatMC -----------------------------
(* Peerchat on small sets of clients, channels and invitations.            *)
EXTENDS Peerchat, TLC

Clients == Permutations(Slot)
Objects == Clients \union Permutations(Block) \union Permutations(Entry)

\* Names that all differ, and two spellings of one name.
Apart   == [n \in Name |-> n]
Spelled == [n \in Name |-> IF n = "#A" THEN "#a" ELSE n]

\* Everybody is a halfop of #a, who may set +i and invite.
Halfops == {[host |-> "h", chan |-> "#a", flag |-> "h"]}

\* Everybody joins #a as its owner, and is what is left after -O, +o and +h.
Owners == {[host |-> "h", chan |-> "#a", flag |-> "O"]}

\* What operators may.
Operators == {{"OPEROVERRIDE", "KILL", "MANIPULATE", "SERVMANAGE"}}

Property(flags, limit) == [flags |-> flags, limit |-> limit]

\* A channel whose owners alone may use OPEROVERRIDE.
Reserved == {Property({"onlyowner"}, 0)}

\* A channel that stays open, and one that makes its first user owner, then
\* everybody, and is limited; both private as well as secret.
Properties == {Property({"z", "i", "p", "s"}, 0), Property({"r", "a", "s"}, 1)}
=============================================================================
