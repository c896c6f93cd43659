----------------------------- MODULE PresenceMC -----------------------------
(* Presence for TLC: the slots are interchangeable.                        *)
EXTENDS Presence, TLC

\* What the clients of one behaviour do: befriend and tell, change accounts,
\* block, or write.
Parts == {{"status", "getprofile", "addbuddy", "authadd", "delbuddy", "revoke"},
          {"status", "authadd", "newuser", "newprofile", "delprofile"},
          {"status", "authadd", "addblock", "removeblock"},
          {"bm", "authadd", "newuser", "delprofile"}}

SlotSymmetry == Permutations(Slot)
=============================================================================
