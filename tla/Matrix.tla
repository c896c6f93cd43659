------------------------------- MODULE Matrix -------------------------------
(***************************************************************************)
(* The database of the chat server (src/Matrix.sql): its tables of opers   *)
(* and of global user modes, the stored procedures that change them, and   *)
(* the datagrams by which the chat server is told (src/udf/Matrix).        *)
(*                                                                         *)
(* A procedure first changes its table and then calls matrixqueue, which   *)
(* sends one UDP datagram to a fixed port of its own host.  Several        *)
(* sessions of the database run procedures at once, so that datagrams may  *)
(* come in another order than the changes; and a datagram is lost when the *)
(* chat server is not listening or does not read fast enough.              *)
(***************************************************************************)
EXTENDS Naturals, Sequences, FiniteSets

CONSTANTS
    Host,        \* hosts that clients connect from
    NoHost,      \* no hostmask
    Profile,     \* profiles of the players' database
    NoProfile,   \* profileid 0
    Mask,        \* rights masks
    NoOper,      \* no row for a profile
    Slot,        \* memory a Client object of the chat server may occupy
    Sd,          \* socket descriptors of clients
    Panel,       \* database sessions of other programs than the chat server
    Uses,        \* who uses the service, and how (see Use)
    NoCall,      \* a session that runs no procedure
    MaxId,       \* bound on the user modes ever stored
    MaxWire      \* datagrams that the socket's buffer holds

\* The database sessions: "server" is that of the chat server that runs, "old"
\* that of one that ended during its call.
Session == {"server", "old"} \union Panel

\* A user mode of the channel mask x: whom it is for, and what it does: gag, ban
\* or exempt from bans.  "expires": it will run out.
UserMode == [host : Host \union {NoHost}, profile : Profile \union {NoProfile},
             flags : SUBSET {"g", "b", "E"}, chanmask : {"x", "X"}, expires : BOOLEAN]

Id == 1 .. MaxId

\* One way the service is used: the opers that the table has from the start, the
\* sessions of other programs and the procedures they call, the clients and the
\* lines they send, the user modes and the rights that are set, the bound on ids,
\* and whether the chat server may end.
Use == [opers : [Profile -> Mask \union {NoOper}], panels : SUBSET Panel,
        calls : SUBSET STRING, clients : SUBSET Slot, lines : SUBSET STRING,
        forms : SUBSET UserMode, rights : SUBSET Mask, ids : 0 .. MaxId, crashes : BOOLEAN]

\* The datagrams: a change of a row, with its key, or the outcome of a login.
Message ==
    [id : {"SetUserMode"}, key : Id, um : UserMode]
        \union [id : {"DelUserMode"}, key : Id]
        \union [id : {"AddOper"}, key : Profile, rights : Mask]
        \union [id : {"DelOper"}, key : Profile]
        \union [id : {"AuthClient"}, sd : Sd, key : Profile \union {NoProfile}]

ASSUME MatrixAssumption ==
    /\ NoHost \notin Host /\ NoProfile \notin Profile /\ NoOper \notin Mask
    /\ {"server", "old"} \intersect Panel = {}
    /\ Mask \subseteq SUBSET {"KILL", "GLOBALOWNER"} /\ {} \in Mask
    /\ \A u \in Uses : /\ u.opers \in [Profile -> Mask \union {NoOper}]
                      /\ u.forms \subseteq UserMode /\ u.rights \subseteq Mask
                      /\ u.ids \in 0 .. MaxId
    /\ NoCall \notin Message
    /\ Profile \intersect Id = {}  \* astray has the keys of both tables
    /\ Sd \subseteq Nat /\ MaxId \in Nat /\ MaxWire \in Nat \ {0}

VARIABLES
    use,            \* the one of Uses that this behaviour is of
    chanusermodes,  \* table: the user mode with each id that has a row
    lastid,         \* the AUTO_INCREMENT of its usermodeid
    globalopers,    \* table: the rights of each profile
    pending,        \* of each session: the datagram its procedure has yet to send
    wire,           \* the receive buffer of the chat server's queue
    stage,          \* how far the chat server has come
    astray          \* history: ids and profiles whose datagrams were lost or crossed

tables == <<chanusermodes, lastid, globalopers>>
matrixVars == <<use, tables, pending, wire, stage, astray>>

\* The chat server is down, or has started, has read the user modes, has read
\* the opers, and is listening.
Stage == {"down", "started", "modes", "opers", "up"}

Idle(s) == pending[s] = NoCall

\* The keys of the tables that a message tells of.
Told(msg) == IF msg = NoCall \/ msg.id = "AuthClient" THEN {} ELSE {msg.key}

Unsent == UNION {Told(pending[s]) : s \in Session}

\* The table has been changed.  Another call about the same key that has not
\* sent its datagram yet may be overtaken.
Begin(s, msg) ==
    /\ Idle(s)
    /\ pending' = [pending EXCEPT ![s] = msg]
    /\ astray' = astray \union (Told(msg) \intersect Unsent)

SetGlobalOper(s, p, rights) ==
    /\ Begin(s, [id |-> "AddOper", key |-> p, rights |-> rights])
    /\ globalopers' = [globalopers EXCEPT ![p] = rights]
    /\ UNCHANGED <<chanusermodes, lastid>>

DelGlobalOper(s, p) ==
    /\ Begin(s, [id |-> "DelOper", key |-> p])
    /\ globalopers' = [globalopers EXCEPT ![p] = NoOper]
    /\ UNCHANGED <<chanusermodes, lastid>>

SetUserMode(s, um) ==
    /\ lastid < use.ids
    /\ lastid' = lastid + 1
    /\ Begin(s, [id |-> "SetUserMode", key |-> lastid', um |-> um])
    /\ chanusermodes' = [n \in DOMAIN chanusermodes \union {lastid'} |->
                            IF n = lastid' THEN um ELSE chanusermodes[n]]
    /\ UNCHANGED globalopers

DelUserMode(s, n) ==
    /\ Begin(s, [id |-> "DelUserMode", key |-> n])
    /\ chanusermodes' = [k \in DOMAIN chanusermodes \ {n} |-> chanusermodes[k]]
    /\ UNCHANGED <<lastid, globalopers>>

\* The profile that the name and the password are of, or none.
AuthClientCall(s, sd, p) ==
    /\ Begin(s, [id |-> "AuthClient", sd |-> sd, key |-> p])
    /\ UNCHANGED tables

\* Whether a datagram reaches the buffer.
Received == stage = "up" /\ Len(wire) < MaxWire

matrixqueue(s) ==
    /\ ~Idle(s)
    /\ pending' = [pending EXCEPT ![s] = NoCall]
    /\ wire' = IF Received THEN Append(wire, pending[s]) ELSE wire
    /\ astray' = IF Received THEN astray ELSE astray \union Told(pending[s])
    /\ UNCHANGED <<use, tables, stage>>

\* What a web page of the staff calls.  It deletes modes by the ids it has seen.
panel(s) ==
    /\ s \in use.panels
    /\ \/ "SetGlobalOper" \in use.calls /\ \E p \in Profile, r \in use.rights : SetGlobalOper(s, p, r)
       \/ "DelGlobalOper" \in use.calls /\ \E p \in Profile : DelGlobalOper(s, p)
       \/ "SetUserMode" \in use.calls /\ \E um \in use.forms : SetUserMode(s, um)
       \/ "DelUserMode" \in use.calls /\ \E n \in 1 .. lastid : DelUserMode(s, n)
    /\ UNCHANGED <<use, wire, stage>>

MatrixInit ==
    /\ use \in Uses
    /\ chanusermodes = <<>> /\ lastid = 0
    /\ globalopers = use.opers
    /\ pending = [s \in Session |-> NoCall]
    /\ wire = <<>> /\ stage = "down" /\ astray = {}

MatrixTypeOK ==
    /\ use \in Uses
    /\ lastid \in 0 .. MaxId
    /\ DOMAIN chanusermodes \subseteq 1 .. lastid
    /\ \A n \in DOMAIN chanusermodes : chanusermodes[n] \in UserMode
    /\ globalopers \in [Profile -> Mask \union {NoOper}]
    /\ pending \in [Session -> Message \union {NoCall}]
    /\ wire \in Seq(Message) /\ Len(wire) <= MaxWire
    /\ stage \in Stage
    /\ astray \subseteq Id \union Profile
=============================================================================
