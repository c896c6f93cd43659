------------------------------ MODULE LegacyMs ------------------------------
(***************************************************************************)
(* The older master server (src/legacyms) beside the registry of game      *)
(* servers (Qr).  Its thread takes connections whose first word must prove *)
(* that they are of a game, answers one request each and hangs up.  For a  *)
(* list of servers it calls into qr and walks the registry, a linked list, *)
(* while qr's thread adds to its end and erases from it; no lock is taken. *)
(*                                                                         *)
(* A connection deleted by a request still has the rest of its datagram    *)
(* run, on the freed object ("gone").  Encryption is left out, and so is a *)
(* name that no game of the database has, by which the process ends.       *)
(***************************************************************************)
EXTENDS Qr

CONSTANTS
    Slot,       \* memory a Client object may occupy
    NoSlot,     \* no client
    NoWalk      \* the thread is not inside findMatchingServers

\* Whose request it is, what it asks for, where the iterator is (the entries it
\* has ahead), and whether the one it stands on has been erased.
Walk == [of : Slot, game : Game, filtered : BOOLEAN,
         here : Addr \union {Nobody}, ahead : SUBSET Addr, adrift : BOOLEAN]

ASSUME LegacyMsAssumption == NoSlot \notin Slot /\ NoWalk \notin Walk

VARIABLES
    clients,    \* server.client_list
    validated,  \* of the Client object in each slot: it has given the right answer
    gone,       \* deleted, with requests of its datagram left to run
    walk,       \* the walk over the registry, NoWalk between requests
    listed,     \* listData.server_list: addresses with ports
    steady      \* the servers of the game that were there all through the walk

legacyVars == <<clients, validated, gone, walk, listed, steady>>

bothVars == <<vars, legacyVars>>

LegacyInit ==
    /\ Init
    /\ clients = {} /\ gone = NoSlot
    /\ validated = [c \in Slot |-> FALSE]
    /\ walk = NoWalk /\ listed = {} /\ steady = {}

-----------------------------------------------------------------------------
(* Connections.                                                            *)

Idle == walk = NoWalk /\ UNCHANGED <<vars, walk, listed, steady>>

\* Without the database the newcomer is hung up on, which changes nothing.
Accept(c) ==
    /\ Idle
    /\ gone = NoSlot /\ c \notin clients
    /\ clients' = clients \union {c}
    /\ UNCHANGED <<validated, gone>>

Disconnect(c) ==
    /\ Idle
    /\ gone = NoSlot /\ c \in clients
    /\ clients' = clients \ {c}
    /\ validated' = [validated EXCEPT ![c] = FALSE]
    /\ UNCHANGED gone

\* Fault: the deleted client stays on the list.
StillListed(c) == IF c \in clients THEN gone' = c /\ UNCHANGED clients ELSE UNCHANGED <<clients, gone>>

\* deleteClient from within a request; of a client that is off the list, nothing.
\* The freed memory still says whether it was validated.
Deleted(c) ==
    IF c \in clients THEN clients' = clients \ {c} /\ gone' = c
                     ELSE UNCHANGED <<clients, gone>>

\* The datagram of a deleted client has been read to its end.
EndOfData ==
    /\ Idle
    /\ gone # NoSlot
    /\ gone' = NoSlot
    /\ validated' = [validated EXCEPT ![gone] = FALSE]
    /\ UNCHANGED clients

Running(c) == IF gone = NoSlot THEN c \in clients ELSE c = gone

\* The game must be served, and the answer to the challenge right for it.
handleValidation(c, g, right) ==
    /\ Idle
    /\ Running(c) /\ ~validated[c]
    /\ IF right /\ g \notin Disabled
       THEN validated' = [validated EXCEPT ![c] = TRUE] /\ UNCHANGED <<clients, gone>>
       ELSE Deleted(c) /\ UNCHANGED validated

\* The other kinds of list (groups, whether or not the database has them, and
\* those that are not known) end with the connection.
OtherList(c) ==
    /\ Idle
    /\ Running(c) /\ validated[c]
    /\ Deleted(c)
    /\ UNCHANGED validated

-----------------------------------------------------------------------------
(* The list of servers.                                                    *)

\* What findMatchingServers takes from the entry it stands on.
Matches(s, g) == s.live /\ s.registered /\ s.game = g

There(g) == {<<a, server[a].port>> : a \in {b \in Addr : Matches(server[b], g)}}

\* The game is the one named, any that there is, or the client's own.
handleList(c, g, f) ==
    /\ walk = NoWalk
    /\ Running(c) /\ validated[c]
    /\ walk' = [of |-> c, game |-> g, filtered |-> f, here |-> Nobody,
                ahead |-> {a \in Addr : server[a].live}, adrift |-> FALSE]
    /\ listed' = {} /\ steady' = There(g)
    /\ UNCHANGED <<vars, clients, validated, gone>>

\* Fault: the walk ends at the first entry that does not match.
FirstMismatch(a) ==
    LET entry == server[a]
        takes == Matches(entry, walk.game)
    IN  /\ walk # NoWalk /\ ~walk.adrift
        /\ a \in walk.ahead
        /\ walk' = [walk EXCEPT !.here = a, !.ahead = IF takes THEN @ \ {a} ELSE {}]
        /\ listed' = IF takes /\ ~walk.filtered THEN listed \union {<<a, entry.port>>} ELSE listed
        /\ UNCHANGED <<vars, clients, validated, gone, steady>>

\* The iterator comes to the entry of a.
Look(a) ==
    LET entry == server[a]
        takes == Matches(entry, walk.game)
    IN  /\ walk # NoWalk /\ ~walk.adrift
        /\ a \in walk.ahead
        /\ walk' = [walk EXCEPT !.here = a, !.ahead = @ \ {a}]
        /\ \/ takes /\ listed' = listed \union {<<a, entry.port>>}
           \/ ~takes /\ UNCHANGED listed
           \/ walk.filtered /\ UNCHANGED listed
        /\ UNCHANGED <<vars, clients, validated, gone, steady>>

\* The walk comes to the list's end; from an entry that has been erased it goes
\* wherever the freed memory points, or ends there.  What was found goes to the
\* connection, if it is there, which is closed.
Answered ==
    /\ walk # NoWalk
    /\ walk.adrift \/ walk.ahead = {}
    /\ Deleted(walk.of)
    /\ walk' = NoWalk /\ listed' = {} /\ steady' = {}
    /\ UNCHANGED <<vars, validated>>

-----------------------------------------------------------------------------
(* qr's thread, and what it does to the list under the walk.               *)

Erased(a) == server[a].live /\ ~server'[a].live
Added(a)  == ~server[a].live /\ server'[a].live

Underfoot(w) ==
    [w EXCEPT !.ahead  = {a \in Addr : Added(a) \/ (a \in @ /\ ~Erased(a))},
              !.adrift = @ \/ (w.here # Nobody /\ Erased(w.here))]

QrThread ==
    /\ Next
    /\ IF walk = NoWalk THEN UNCHANGED <<walk, steady>>
       ELSE /\ walk' = Underfoot(walk)
            /\ steady' = steady \intersect There(walk.game)'
    /\ UNCHANGED <<clients, validated, gone, listed>>

Requests(c) ==
    \/ \E g \in Game : \/ \E right \in BOOLEAN : handleValidation(c, g, right)
                       \/ \E f \in BOOLEAN : handleList(c, g, f)
    \/ OtherList(c)

LegacyNext ==
    \/ QrThread
    \/ \E c \in Slot : Accept(c) \/ Disconnect(c) \/ Requests(c)
    \/ \E a \in Addr : Look(a)
    \/ Answered
    \/ EndOfData

LegacySpec == LegacyInit /\ [][LegacyNext]_bothVars

-----------------------------------------------------------------------------
(* Properties.                                                             *)

LegacyTypeOK ==
    /\ clients \subseteq Slot /\ gone \in (Slot \union {NoSlot}) \ clients
    /\ validated \in [Slot -> BOOLEAN]
    /\ walk \in Walk \union {NoWalk}
    /\ listed \subseteq Addr \X Port /\ steady \subseteq Addr \X Port

\* An answer lacks a server that was registered for the game, under one port, all
\* through the walk only if qr's thread erased the entry the iterator stood on, and
\* then only one that the iterator had not come to (findMatchingServers walks qr's
\* list without a lock).  Entries that are added, rewritten, or erased elsewhere cost
\* an answer nothing.  (A filter leaves some out.)
AnswersLackNothing ==
    [][walk # NoWalk /\ walk' = NoWalk /\ ~walk.filtered =>
          \A x \in steady : x \in listed \/ (walk.adrift /\ x[1] \in walk.ahead)]_bothVars

\* The service of a disabled game may be asked for by a client of another game:
\* what it is then told of are servers of the older protocol only, which register
\* without a challenge (qr's handleHeartbeat deletes the others).
DisabledAreOldStyle ==
    [][\A x \in listed' \ listed : walk.game \in Disabled => server[x[1]].legacy]_bothVars
=============================================================================
