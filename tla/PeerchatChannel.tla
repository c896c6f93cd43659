-------------------------- MODULE PeerchatChannel --------------------------
(***************************************************************************)
(* What a Channel object of the chat server (src/peerchat) does to itself: *)
(* its user list with the ranks of the users, its modes and limit, and the *)
(* changes MODE, KICK and the channel properties make to them.             *)
(*                                                                         *)
(* A mode letter is a member of the set "flags"; the letters z, r and a    *)
(* (stayopen, registered, allops) and "onlyowner" only come with channel   *)
(* properties.  "k" stands for a key being set, whichever it is.           *)
(***************************************************************************)
EXTENDS Integers, FiniteSets

CONSTANTS
    Slot,         \* memory a Client object may occupy: the Client pointers
    Name,         \* spellings of channel names
    NoName,       \* the name of no channel
    Fold,         \* the spelling stricmp() and match() compare, per spelling
    LimitValue    \* user limits that MODE +l and the properties may set

ASSUME ChannelAssumption ==
    /\ NoName \notin Name
    /\ Fold \in [Name -> Name]
    /\ LimitValue \subseteq Nat \ {0}

\* EModeFlags and the bool members of Channel; the EOperPrivileges used here.
Flag  == {"i", "k", "e", "m", "n", "t", "p", "s", "z", "r", "a", "onlyowner"}
Right == {"INVISIBLE", "BANEXCEMPT", "GETOPS", "GLOBALOWNER", "GETVOICE",
          "OPEROVERRIDE", "KILL", "MANIPULATE", "SERVMANAGE"}

\* chanClient: Off is the zeroed tinfo, and a slot that is not on the list.
Member == [on : BOOLEAN, voice : BOOLEAN, halfop : BOOLEAN, op : BOOLEAN,
           owner : BOOLEAN, invisible : BOOLEAN]

Off == [on |-> FALSE, voice |-> FALSE, halfop |-> FALSE, op |-> FALSE,
        owner |-> FALSE, invisible |-> FALSE]

ChannelRec == [name : Name \union {NoName}, flags : SUBSET Flag,
               limit : LimitValue \union {0}, users : [Slot -> Member]]

Empty == [c \in Slot |-> Off]

NoChannel == [name |-> NoName, flags |-> {}, limit |-> 0, users |-> Empty]

\* What a chanprops entry sets; its mask is kept beside it.
PropRec == [flags : SUBSET Flag, limit : LimitValue \union {0}]

Live(ch)    == ch.name # NoName
On(ch)      == {c \in Slot : ch.users[c].on}
Ranked(m)   == m.halfop \/ m.op \/ m.owner
SameName(n, m) == n \in Name /\ m \in Name /\ Fold[n] = Fold[m]

getNumUsers(ch) == Cardinality({c \in On(ch) : ~ch.users[c].invisible})

-----------------------------------------------------------------------------
(* Joining and leaving.                                                    *)

addUser(ch, c, m) == [ch EXCEPT !.users = [@ EXCEPT ![c] = [m EXCEPT !.on = TRUE]]]

\* removeUser deletes the channel that it leaves like this.
Emptied(ch) == On(ch) = {} /\ "z" \notin ch.flags

Without(ch, c) == [ch EXCEPT !.users = [@ EXCEPT ![c] = Off]]

Cleared(ch) == [ch EXCEPT !.users = Empty]

-----------------------------------------------------------------------------
(* Channel properties.                                                     *)

\* Fault: +s and +p are applied one after the other without unsetting.
KeepBoth(flags) == flags

\* applyChanProps sets s, which unsets p, and then p, which unsets s.
Settled(flags) == IF "p" \in flags THEN flags \ {"s"} ELSE flags

applyChanProps(ch, props) == [ch EXCEPT !.flags = Settled(props.flags), !.limit = props.limit]

\* clearProps leaves stayopen, the key and the limit as they are.
clearProps(ch) == [ch EXCEPT !.flags = @ \intersect {"z", "k"}]

-----------------------------------------------------------------------------
(* setModes: what the setter may do, and one letter.  The string of a MODE *)
(* is a sequence of letters, each with the channel as the last one left    *)
(* it; the correction of the setter's own rank at the start changes        *)
(* nothing when repeated, so a string is as good as a series of MODEs.     *)

SetRank(ch, t, m) == [ch EXCEPT !.users = [@ EXCEPT ![t] = m]]

Corrected(m) == [m EXCEPT !.op = @ \/ m.owner, !.halfop = @ \/ m.op \/ m.owner]

\* Lines 398-401: the setter's entry, or the zeroed tinfo that is not kept.
Started(ch, c) ==
    IF ch.users[c].on THEN SetRank(ch, c, Corrected(ch.users[c])) ELSE ch

Overrides(ch, c, rights) ==
    "OPEROVERRIDE" \in rights /\ ("onlyowner" \in ch.flags => ch.users[c].owner)

MayHalf(ch, c, rights)  == ch.users[c].halfop \/ Overrides(ch, c, rights)
MayOp(ch, c, rights)    == ch.users[c].op \/ Overrides(ch, c, rights)
MayOwner(ch, c, rights) == ch.users[c].owner \/ Overrides(ch, c, rights)

Put(flags, letter, set) == IF set THEN flags \union {letter} ELSE flags \ {letter}

Opposed(letter) == IF letter = "p" THEN {"s"} ELSE IF letter = "s" THEN {"p"} ELSE {}

\* The letters e, m, n, i, t, k, and p and s, of which one unsets the other.
SetFlag(ch, c, rights, letter, set) ==
    IF ~MayHalf(ch, c, rights) THEN ch
    ELSE [ch EXCEPT !.flags = Put(IF set THEN @ \ Opposed(letter) ELSE @, letter, set)]

\* The letter l: a limit of at least one, or none.
SetLimit(ch, c, rights, value) ==
    IF MayHalf(ch, c, rights) THEN [ch EXCEPT !.limit = value] ELSE ch

SetOp(ch, c, rights, t, set) ==
    LET m == ch.users[t]
    IN IF MayOwner(ch, c, rights) /\ m.on /\ m.op # set
       THEN SetRank(ch, t, [m EXCEPT !.owner = @ /\ set, !.op = set, !.halfop = set])
       ELSE ch

\* A user without any rank may still take its own voice away.
SetVoice(ch, c, rights, t, set) ==
    LET m == ch.users[t]
        canVoice == Ranked(ch.users[c]) \/ Overrides(ch, c, rights)
    IN IF m.on /\ (canVoice \/ (t = c /\ ~set))
       THEN SetRank(ch, t, [m EXCEPT !.voice = set])
       ELSE ch

\* Fault: a halfop may make halfops.
SetHalfopByHalfops(ch, c, rights, t, set) ==
    LET m == ch.users[t]
    IN IF /\ MayHalf(ch, c, rights) /\ m.on /\ m.halfop # set
          /\ ~m.op /\ (m.owner => ch.users[c].owner)
       THEN SetRank(ch, t, [m EXCEPT !.halfop = set])
       ELSE ch

SetHalfop(ch, c, rights, t, set) ==
    LET m == ch.users[t]
    IN IF /\ MayOp(ch, c, rights) /\ m.on /\ m.halfop # set
          /\ ~m.op /\ (m.owner => ch.users[c].owner)
       THEN SetRank(ch, t, [m EXCEPT !.halfop = set])
       ELSE ch

SetOwner(ch, c, rights, t, set) ==
    LET m == ch.users[t]
    IN IF MayOwner(ch, c, rights) /\ m.on /\ m.owner # set
       THEN SetRank(ch, t, [m EXCEPT !.owner = set, !.op = set, !.halfop = set])
       ELSE ch

\* The rank letters, each with a target found by its nick.
SetUser(ch, c, rights, letter, t, set) ==
    CASE letter = "o" -> SetOp(ch, c, rights, t, set)
      [] letter = "v" -> SetVoice(ch, c, rights, t, set)
      [] letter = "h" -> SetHalfop(ch, c, rights, t, set)
      [] letter = "O" -> SetOwner(ch, c, rights, t, set)

-----------------------------------------------------------------------------
(* cmd_kick's tests, in its order.                                         *)

\* Fault: the test of the target's ownership is missing.
MayKickAnybody(ch, c, rights, t) ==
    LET self == ch.users[c] target == ch.users[t]
    IN /\ target.on /\ (target.invisible => "INVISIBLE" \in rights)
       /\ \/ "OPEROVERRIDE" \in rights
          \/ /\ self.on /\ Ranked(self)
             /\ "onlyowner" \in ch.flags => self.owner

MayKick(ch, c, rights, t) ==
    LET self == ch.users[c] target == ch.users[t]
    IN /\ target.on /\ (target.invisible => "INVISIBLE" \in rights)
       /\ \/ "OPEROVERRIDE" \in rights
          \/ /\ self.on /\ (target.owner => self.owner)
             /\ Ranked(self)
             /\ "onlyowner" \in ch.flags => self.owner
=============================================================================
