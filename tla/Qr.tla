--------------------------------- MODULE Qr ---------------------------------
(***************************************************************************)
(* The query and reporting server (src/qr): the registry of game servers.  *)
(* One thread waits for a datagram (at most sixty seconds), deletes the    *)
(* entries that have been silent for two minutes, and then handles what it *)
(* received.  Whatever serverbrowsing must be told, the thread tells it by *)
(* calling into that module, and goes on when the call has returned: news  *)
(* is what it is telling, and stops the thread until it is delivered.      *)
(*                                                                         *)
(* An entry's time of the last datagram is kept as an age in ticks that    *)
(* stops growing one past PingTime, the only value it is compared with.    *)
(***************************************************************************)
EXTENDS Naturals, Sequences

CONSTANTS
    Addr,         \* addresses (ip and port) that datagrams come from
    Game,         \* games of the database
    Disabled,     \* those with servicesdisabled # 0
    NoGame,       \* the NULL game
    Key,          \* instance keys of four bytes
    ZeroKey,      \* one that two bytes and zeros may pass for
    NoKey,        \* hasInstanceKey is false
    Port,         \* ports an entry is listed under
    SourcePort,   \* the port its datagrams come from
    Nobody,       \* no datagram
    PingTime      \* QR_PING_TIME in ticks

ASSUME QrAssumption ==
    /\ Disabled \subseteq Game /\ NoGame \notin Game
    /\ ZeroKey \in Key /\ NoKey \notin Key
    /\ SourcePort \in Port
    /\ Nobody \notin Addr
    /\ PingTime \in Nat

VARIABLES
    server,   \* the Client object of each address, NoServer where none
    at,       \* where the thread is: "recv", "sweep", "handle" or "keys"
    mail,     \* whose datagram it has received
    news      \* what it is telling serverbrowsing, one after the other

vars == <<server, at, mail, news>>

NoServer ==
    [live |-> FALSE, registered |-> FALSE, game |-> NoGame, key |-> NoKey,
     challenged |-> FALSE, legacy |-> FALSE, port |-> SourcePort, age |-> 0]

ServerRec ==
    [live : BOOLEAN, registered : BOOLEAN, game : Game \union {NoGame},
     key : Key \union {NoKey}, challenged : BOOLEAN, legacy : BOOLEAN,
     port : Port, age : 0..(PingTime + 1)]

Push ==
    [kind : {"server", "delete"}, addr : Addr, port : Port, game : Game]

-----------------------------------------------------------------------------
(* What serverbrowsing is told.                                            *)

\* Fault: an entry without a game is told of.
TellAnyway(kind, a, s) == <<[kind |-> kind, addr |-> a, port |-> s.port, game |-> s.game]>>

\* pushServer and pushDelete return without a game.
Tell(kind, a, s) ==
    IF s.game = NoGame THEN <<>>
    ELSE <<[kind |-> kind, addr |-> a, port |-> s.port, game |-> s.game]>>

pushServer(a, s) == Tell("server", a, s)

\* Fault: only an entry that talked until now is told of when it is deleted.
pushDeleteFresh(a, s) == IF s.age > PingTime THEN <<>> ELSE Tell("delete", a, s)

pushDelete(a, s) == Tell("delete", a, s)

\* deleteClient: the destructor tells of the entry as it is then.
deleteClient(a, s) ==
    /\ server' = [server EXCEPT ![a] = NoServer]
    /\ news' = pushDelete(a, s)

-----------------------------------------------------------------------------
(* The loop.                                                               *)

Init ==
    /\ server = [a \in Addr |-> NoServer]
    /\ at = "recv" /\ mail = Nobody /\ news = <<>>

\* The thread is at a place and not inside serverbrowsing.
Runs(place) == at = place /\ news = <<>>

\* recvfrom, or its timeout.
Receive(a) ==
    /\ Runs("recv")
    /\ mail' = a /\ at' = "sweep"
    /\ UNCHANGED <<server, news>>

\* Fault: entries that never registered are forgotten by the sweep.
OverdueRegistered(a) == server[a].registered /\ server[a].age > PingTime

Overdue(a) == server[a].live /\ server[a].age > PingTime

\* checkTimeouts deletes one entry and starts again.
Expire(a) ==
    /\ Runs("sweep")
    /\ Overdue(a)
    /\ deleteClient(a, server[a])
    /\ UNCHANGED <<at, mail>>

Swept ==
    /\ Runs("sweep")
    /\ ~\E a \in Addr : Overdue(a)
    /\ at' = IF mail = Nobody THEN "recv" ELSE "handle"
    /\ UNCHANGED <<server, mail, news>>

Tick ==
    /\ \E a \in Addr : server[a].live /\ server[a].age <= PingTime
    /\ server' = [a \in Addr |-> IF server[a].live /\ server[a].age <= PingTime
                                 THEN [server[a] EXCEPT !.age = @ + 1]
                                 ELSE server[a]]
    /\ UNCHANGED <<at, mail, news>>

\* serverbrowsing returns from the call.
Delivered ==
    /\ news # <<>>
    /\ news' = Tail(news)
    /\ UNCHANGED <<server, at, mail>>

-----------------------------------------------------------------------------
(* Handling the datagram of a.  The handler that ends goes back to recv.   *)

Handled == at' = "recv" /\ mail' = Nobody

Known(a) == IF server[a].live THEN server[a] ELSE [NoServer EXCEPT !.live = TRUE]

\* The object handleClient finds or creates, and handleIncoming has touched.
Heard(a) == [Known(a) EXCEPT !.age = 0]

\* The entry becomes s, and nobody is told.
Keep(a, s) == server' = [server EXCEPT ![a] = s] /\ news' = <<>>

\* The instance key of the datagram is the entry's, or it has none yet.
Passes(s, k) == s.key \in {NoKey, k}

Handling(a) == Runs("handle") /\ mail = a

\* Fewer than three bytes delete the object, and the freed one is used on.
\* What the rest does to it shows only when they are a challenge's: a server
\* that was registered is pushed once more, its keys gone.
Short(a, isChallenge) ==
    LET s == Heard(a)
        zombie == isChallenge /\ s.registered /\ ~s.legacy /\ Passes(s, ZeroKey)
    IN /\ Handling(a)
       /\ server' = [server EXCEPT ![a] = NoServer]
       /\ news' = pushDelete(a, s) \o
                    (IF zombie THEN pushServer(a, [s EXCEPT !.port = SourcePort]) ELSE <<>>)
       /\ Handled

\* A datagram with another instance key, and those that are only answered
\* or unknown (handleAvailable, handleKeepalive).
Answer(a) ==
    /\ Handling(a)
    /\ Keep(a, Heard(a))
    /\ Handled

\* handleHeartbeat settles the key and clears the keys of the one before,
\* which serverbrowsing's thread may read at that moment.
Heartbeat(a, k) ==
    LET s == Heard(a)
    IN /\ Handling(a)
       /\ ~s.legacy /\ Passes(s, k)
       /\ Keep(a, [s EXCEPT !.key = k, !.port = SourcePort])
       /\ at' = "keys" /\ UNCHANGED mail

\* Fault: that a game's services are disabled is not asked.
HeartbeatKeysOfAny(a, g, p, leaving) ==
    LET named == [server[a] EXCEPT !.port = p, !.game = IF @ = NoGame THEN g ELSE @]
    IN /\ Runs("keys") /\ mail = a
       /\ ~named.legacy
       /\ IF named.game = NoGame \/ leaving
          THEN deleteClient(a, named)
          ELSE Keep(a, [named EXCEPT !.challenged = TRUE])
       /\ Handled

\* handleHeartbeat after the keys: the name g, the port, and whether they
\* say that the server is leaving.
HeartbeatKeys(a, g, p, leaving) ==
    LET named == [server[a] EXCEPT !.port = p, !.game = IF @ = NoGame THEN g ELSE @]
    IN /\ Runs("keys") /\ mail = a
       /\ ~named.legacy
       /\ IF named.game = NoGame \/ named.game \in Disabled \/ leaving
          THEN deleteClient(a, named)
          ELSE Keep(a, [named EXCEPT !.challenged = TRUE])
       /\ Handled

\* Fault: an answer is accepted before there was a heartbeat.
ChallengeWithoutGame(a, k, right) ==
    LET s == Heard(a)
        t == IF right THEN [s EXCEPT !.registered = TRUE] ELSE s
    IN /\ Handling(a)
       /\ ~s.legacy /\ Passes(s, k)
       /\ server' = [server EXCEPT ![a] = t]
       /\ news' = IF t.registered THEN pushServer(a, t) ELSE <<>>
       /\ Handled

\* The right answer registers; any answer of a registered server pushes it.
Challenge(a, k, right) ==
    LET s == Heard(a)
        t == IF right /\ s.game # NoGame THEN [s EXCEPT !.registered = TRUE] ELSE s
    IN /\ Handling(a)
       /\ ~s.legacy /\ Passes(s, k)
       /\ server' = [server EXCEPT ![a] = t]
       /\ news' = IF t.registered THEN pushServer(a, t) ELSE <<>>
       /\ Handled

\* A backslash in front: the entry is of the older protocol from now on, and
\* whatever comes from there is read as such.  "validate" and "echo" do no more.
LegacyNote(a) ==
    /\ Handling(a)
    /\ Keep(a, [Heard(a) EXCEPT !.legacy = TRUE])
    /\ Handled

\* handleServerData clears the keys first.
LegacyHeartbeat(a) ==
    /\ Handling(a)
    /\ Keep(a, [Heard(a) EXCEPT !.legacy = TRUE, !.port = SourcePort])
    /\ at' = "keys" /\ UNCHANGED mail

\* handleLegacyHeartbeat after them: a server of the older protocol is
\* registered at once, and serverbrowsing is not told.
LegacyHeartbeatKeys(a, g, p, leaving) ==
    LET named == [server[a] EXCEPT !.port = p, !.game = IF @ = NoGame THEN g ELSE @]
    IN /\ Runs("keys") /\ mail = a
       /\ named.legacy
       /\ IF leaving THEN deleteClient(a, named)
                     ELSE Keep(a, [named EXCEPT !.registered = TRUE])
       /\ Handled

-----------------------------------------------------------------------------
handleIncoming(a) ==
    \/ \E c \in BOOLEAN : Short(a, c)
    \/ Answer(a)
    \/ \E k \in Key : Heartbeat(a, k) \/ \E right \in BOOLEAN : Challenge(a, k, right)
    \/ \E g \in Game \union {NoGame}, p \in Port, leaving \in BOOLEAN :
         HeartbeatKeys(a, g, p, leaving) \/ LegacyHeartbeatKeys(a, g, p, leaving)
    \/ LegacyNote(a)
    \/ LegacyHeartbeat(a)

Loop ==
    \/ \E a \in Addr \union {Nobody} : Receive(a)
    \/ \E a \in Addr : Expire(a) \/ handleIncoming(a)
    \/ Swept

Next == Loop \/ Delivered \/ Tick

Spec == Init /\ [][Next]_vars

\* recvfrom returns after sixty seconds at the latest, serverbrowsing's part
\* sends without waiting (MSG_DONTWAIT) and returns, and time goes on.
FairSpec == Spec /\ WF_vars(Loop) /\ WF_vars(Delivered) /\ WF_vars(Tick)

-----------------------------------------------------------------------------
(* Properties.                                                             *)

\* Types of the variables; serverbrowsing is told of one entry at a time.
TypeOK ==
    /\ server \in [Addr -> ServerRec]
    /\ at \in {"recv", "sweep", "handle", "keys"}
    /\ mail \in Addr \union {Nobody}
    /\ news \in Seq(Push) /\ Len(news) <= 2

\* What a reader of the list may make of an entry.
Entry(s) ==
    [standing |-> IF s.registered THEN "listed"
                  ELSE IF s.challenged THEN "challenged" ELSE "unknown",
     game |-> s.game,
     speaks |-> IF s.legacy THEN "old" ELSE "new"]

Entries == [a \in Addr |-> Entry(server[a])]

Registry == INSTANCE QrRegistry WITH entry <- Entries

\* Nobody is listed who was not challenged, unless by the older protocol; an
\* entry's game is settled once; a disabled game's servers are not listed:
\* whatever order heartbeats, answers, rubbish and time-outs come in
\* (handleIncoming, checkTimeouts).
ImplementsRegistry == Registry!Spec

\* An entry whose server has gone silent is gone in the end: datagrams go on
\* coming from it, or it stays deleted (checkTimeouts).
SilentServersGo ==
    \A a \in Addr : []<>(mail = a) \/ <>[](~server[a].live)

=============================================================================
