------------------------------ MODULE Browsing ------------------------------
(***************************************************************************)
(* The server browser (src/serverbrowsing) beside the registry of game     *)
(* servers (Qr).  Its thread accepts game clients and answers their        *)
(* requests for lists, for which it calls into qr and walks the registry   *)
(* while qr's own thread goes on changing it; qr's thread calls pushServer *)
(* and deleteServer here and writes to the clients' sockets itself.  No    *)
(* lock is taken anywhere, so the two threads take steps in any order.     *)
(*                                                                         *)
(* A Client object is named by its memory: c is reused by a later client.  *)
(* Answers that change nothing (server rules, messages relayed to a        *)
(* server) are left out.  So is a list request with PUSH_UPDATES for a     *)
(* game that is not in the database, after which sendKeyList follows a     *)
(* NULL pointer and the process ends.                                      *)
(***************************************************************************)
EXTENDS Qr

CONSTANTS
    Client,      \* memory of Client objects
    Asked,       \* sets of options that requests come with
    Filters,     \* whether requests come with a filter
    NoOne,       \* the thread is in select()
    NotCalled    \* qr's thread is not inside pushServer or deleteServer

\* PUSH_UPDATES, LIMIT_RESULT_COUNT, SEND_GROUPS and NO_SERVER_LIST.
Option == {"push", "limit", "groups", "ip"}

ASSUME BrowsingAssumption ==
    /\ Asked \subseteq SUBSET Option /\ Filters \subseteq BOOLEAN
    /\ NoOne \notin Client
    /\ \A S \in SUBSET Client : NotCalled # S

VARIABLES
    client,      \* the Client objects; what a freed one held stays
    serving,     \* whose list request the thread is answering
    todo,        \* the addresses whose entries the walk has yet to look at
    found,       \* listData.server_list: addresses with ports
    audience,    \* the clients of the copy of client_list still to be told
    told,        \* what each connection carried: entries told of, not deleted since
    garbled,     \* whether it carried a message where a list or header had to be
    door,        \* the listening socket is open
    dbUp,        \* what do_db_check returns
    refused      \* those who were told to try again later

browsingVars ==
    <<client, serving, todo, found, audience, told, garbled, door, dbUp, refused>>

allVars == <<vars, browsingVars>>

NewClient ==
    [live |-> TRUE, game |-> NoGame, options |-> {}, filtered |-> FALSE, header |-> FALSE]

ClientRec ==
    [live : BOOLEAN, game : Game \union {NoGame}, options : SUBSET Option,
     filtered : BOOLEAN, header : BOOLEAN]

BrowsingInit ==
    /\ Init
    /\ client = [c \in Client |-> [NewClient EXCEPT !.live = FALSE]]
    /\ serving = NoOne /\ todo = {} /\ found = {}
    /\ audience = NotCalled
    /\ told = [c \in Client |-> {}] /\ garbled = [c \in Client |-> FALSE]
    /\ door = TRUE /\ dbUp = TRUE /\ refused = {}

-----------------------------------------------------------------------------
(* serverbrowsing's thread.                                                *)

\* Fault: the next event is taken while a request is being answered.
SelectsAnyway == door

\* It gets past select(): without a listening socket select fails for ever.
Selects == serving = NoOne /\ door

\* A new connection.  When the database is away the newcomer is told to try
\* again later, and the listening socket is closed, not the connection.
Accept(c) ==
    /\ Selects
    /\ ~client[c].live
    /\ IF dbUp
       THEN /\ client' = [client EXCEPT ![c] = NewClient]
            /\ told' = [told EXCEPT ![c] = {}]
            /\ garbled' = [garbled EXCEPT ![c] = FALSE]
            /\ refused' = refused \ {c}
            /\ UNCHANGED door
       ELSE /\ door' = FALSE
            /\ refused' = refused \union {c}
            /\ UNCHANGED <<client, told, garbled>>
    /\ UNCHANGED <<vars, serving, todo, found, audience, dbUp>>

Gone(c) == client' = [client EXCEPT ![c].live = FALSE]

Disconnect(c) ==
    /\ Selects
    /\ client[c].live
    /\ Gone(c)
    /\ UNCHANGED <<vars, serving, todo, found, audience, told, garbled, door, dbUp, refused>>

Requested(c, g, o, f) ==
    [client[c] EXCEPT !.game = g, !.filtered = f, !.options = o]

\* handleListRequest up to the answer.  Game and filter are read from the
\* first request only; a later one is parsed askew, and its options may be
\* anything.  Disabled games close the connection.
handleListRequest(c, g, o, f) ==
    /\ Selects
    /\ client[c].live
    /\ client[c].game # NoGame => g = client[c].game /\ f = client[c].filtered
    /\ ~(g = NoGame /\ "push" \in o)
    /\ IF g \in Disabled
       THEN /\ Gone(c)
            /\ UNCHANGED <<serving, todo, found>>
       ELSE /\ client' = [client EXCEPT ![c] = Requested(c, g, o, f)]
            /\ serving' = c
            /\ todo' = IF o \intersect {"groups", "ip"} = {} THEN Addr ELSE {}
            /\ found' = {}
    /\ UNCHANGED <<vars, audience, told, garbled, door, dbUp, refused>>

\* findMatchingServers comes to the entry of a, if there is one.
Look(a) ==
    LET c == serving
        s == server[a]
        matches == s.live /\ s.registered /\ s.game = client[c].game
    IN /\ serving # NoOne
       /\ a \in todo
       /\ todo' = todo \ {a}
       /\ \/ matches /\ found' = found \union {<<a, s.port>>}
          \/ ~matches /\ UNCHANGED found
          \/ client[c].filtered /\ UNCHANGED found
       /\ UNCHANGED <<vars, client, serving, audience, told, garbled, door, dbUp, refused>>

\* sendServers from the walk on, sendGroups or sendIP, and sendKeyList.
\* Without a game or, for groups, a database the client is deleted.
Answered ==
    LET c == serving
        fails == client[c].game = NoGame \/ ("groups" \in client[c].options /\ ~dbUp)
    IN /\ serving # NoOne
       /\ todo = {}
       /\ IF fails
          THEN Gone(c) /\ UNCHANGED told
          ELSE /\ client' = [client EXCEPT ![c].header = TRUE]
               /\ \E L \in SUBSET found :
                    /\ "limit" \in client[c].options \/ L = found
                    /\ told' = [told EXCEPT ![c] = @ \union L]
       /\ serving' = NoOne /\ found' = {}
       /\ UNCHANGED <<vars, todo, audience, garbled, door, dbUp, refused>>

\* The database goes away and comes back.
Database ==
    /\ dbUp' = ~dbUp
    /\ UNCHANGED <<vars, client, serving, todo, found, audience, told, garbled, door, refused>>

-----------------------------------------------------------------------------
(* qr's thread inside pushServer and deleteServer.                         *)

\* Fault: the client that is being answered is left out.
CalledOthers ==
    /\ news # <<>> /\ audience = NotCalled
    /\ audience' = {c \in Client : client[c].live /\ c # serving}
    /\ UNCHANGED <<vars, client, serving, todo, found, told, garbled, door, dbUp, refused>>

\* The copy of client_list.
Called ==
    /\ news # <<>> /\ audience = NotCalled
    /\ audience' = {c \in Client : client[c].live}
    /\ UNCHANGED <<vars, client, serving, todo, found, told, garbled, door, dbUp, refused>>

\* Fault: who has not been sent a list yet is not told.
WantsListed(c, m) ==
    client[c].header /\ "push" \in client[c].options /\ client[c].game = m.game

Wants(c, m) == "push" \in client[c].options /\ client[c].game = m.game

\* What the connection of c has carried when m is on it.
After(c, m) ==
    IF m.kind = "server" THEN told[c] \union {<<m.addr, m.port>>}
                         ELSE told[c] \ {<<m.addr, m.port>>}

\* The copy names a client that is alive: it is told, with the encryption
\* header in front if it has not been sent, where it expects its first list.
PushTo(c) ==
    LET m == Head(news)
    IN /\ news # <<>> /\ audience # NotCalled /\ c \in audience
       /\ client[c].live
       /\ IF Wants(c, m)
          THEN /\ told' = [told EXCEPT ![c] = After(c, m)]
               /\ garbled' = [garbled EXCEPT ![c] = @ \/ ~client[c].header]
               /\ client' = [client EXCEPT ![c].header = TRUE]
          ELSE UNCHANGED <<told, garbled, client>>
       /\ audience' = audience \ {c}
       /\ UNCHANGED <<vars, serving, todo, found, door, dbUp, refused>>

\* Or one that was freed since: nothing comes of it, or its descriptor is
\* another client's by now, who gets the message in the wrong cipher.
PushToFreed(c) ==
    LET m == Head(news)
    IN /\ news # <<>> /\ audience # NotCalled /\ c \in audience
       /\ ~client[c].live
       /\ \/ UNCHANGED garbled
          \/ /\ Wants(c, m)
             /\ \E d \in Client : /\ client[d].live
                                  /\ garbled' = [garbled EXCEPT ![d] = TRUE]
       /\ audience' = audience \ {c}
       /\ UNCHANGED <<vars, client, serving, todo, found, told, door, dbUp, refused>>

\* The call returns when everybody has been told.
Returned ==
    /\ audience = {}
    /\ Delivered
    /\ audience' = NotCalled
    /\ UNCHANGED <<client, serving, todo, found, told, garbled, door, dbUp, refused>>

-----------------------------------------------------------------------------
QrThread == (Loop \/ Tick) /\ UNCHANGED browsingVars

Calls == Called \/ Returned \/ \E c \in Client : PushTo(c) \/ PushToFreed(c)

Requests ==
    \E c \in Client, g \in Game \union {NoGame}, o \in Asked, f \in Filters :
        handleListRequest(c, g, o, f)

Answers == Answered \/ \E a \in Addr : Look(a)

BrowsingNext ==
    \/ QrThread \/ Calls
    \/ \E c \in Client : Accept(c) \/ Disconnect(c)
    \/ Requests \/ Answers
    \/ Database

BrowsingSpec == BrowsingInit /\ [][BrowsingNext]_allVars

\* The threads run, time goes on, and whoever was refused tries again: the
\* loop takes new connections before anything else, and SB_TIMEOUT_TIME ends
\* every wait.
BrowsingFairSpec ==
    /\ BrowsingSpec
    /\ WF_allVars(QrThread) /\ WF_allVars(Calls) /\ WF_allVars(Answers)
    /\ \A c \in Client : WF_allVars(c \in refused /\ dbUp /\ Accept(c))
-----------------------------------------------------------------------------
(* Properties.                                                             *)

\* Types of the variables; nobody is served or told without being there.
BrowsingTypeOK ==
    /\ client \in [Client -> ClientRec]
    /\ serving \in Client \union {NoOne}
    /\ serving # NoOne => client[serving].live
    /\ todo \subseteq Addr /\ found \subseteq Addr \X Port
    /\ audience = NotCalled \/ (audience \subseteq Client /\ news # <<>>)
    /\ told \in [Client -> SUBSET (Addr \X Port)]
    /\ garbled \in [Client -> BOOLEAN]
    /\ door \in BOOLEAN /\ dbUp \in BOOLEAN /\ refused \subseteq Client

\* c has its answer and is to be kept up to date from then on.
Subscribed(c) ==
    /\ client[c].live /\ "push" \in client[c].options
    /\ serving # c /\ ~garbled[c]

\* The i-th of the news has yet to reach c.
StillFor(c, i) == i > 1 \/ audience = NotCalled \/ c \in audience

\* Nor is c told of another game's.
Coming(kind, a, p, c) ==
    \E i \in DOMAIN news : /\ news[i].kind = kind
                           /\ news[i].addr = a /\ news[i].port = p
                           /\ news[i].game = client[c].game
                           /\ StillFor(c, i)

\* Who asked for all servers of a game and their updates knows of each that
\* is registered, or is about to be told: none falls between the list, which
\* one thread copies, and the pushes, which the other sends.  Those of the
\* older protocol are not pushed (handleLegacyHeartbeat).
NoneMissed ==
    \A c \in Client, a \in Addr :
        /\ Subscribed(c) /\ client[c].options = {"push"} /\ ~client[c].filtered
        /\ server[a].registered /\ ~server[a].legacy /\ server[a].game = client[c].game
        => \E p \in Port : <<a, p>> \in told[c] \/ Coming("server", a, p, c)

\* c holds an entry that no server has, and no deletion of it is coming.
Ghost(c, a, p) ==
    /\ Subscribed(c) /\ <<a, p>> \in told[c]
    /\ ~(server[a].registered /\ server[a].game = client[c].game /\ server[a].port = p)
    /\ ~Coming("delete", a, p, c)

\* A subscriber comes to hold an entry that is not there in three ways only:
\* a heartbeat puts other keys, and with them another port, in its place;
\* the list it is sent was copied before the deletion; or a datagram too
\* short to be one deletes the entry and pushes it once more.  Deletions
\* themselves, at a time-out or otherwise, are always told.
GhostsHaveACause ==
    [][\A c \in Client, a \in Addr, p \in Port :
         ~Ghost(c, a, p) /\ Ghost(c, a, p)' =>
            \/ mail = a /\ "keys" \in {at, at'}
            \/ serving = c
            \/ <<a, p>> \notin told[c] /\ ~server[a].live]_allVars

\* "DATABASE ERROR - TRY AGAIN LATER": who does so when the database is back
\* to stay is let in (openspy_mod_run).
TryAgainLater ==
    <>[]dbUp => \A c \in Client : c \in refused ~> client[c].live

=============================================================================
