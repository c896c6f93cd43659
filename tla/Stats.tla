------------------------------- MODULE Stats -------------------------------
(***************************************************************************)
(* The stats server (src/legacystats): connections, whose they are, and    *)
(* the snapshot of the game each of them reports, which is handed to the   *)
(* processor (Persist) when the game is done or the connection goes.       *)
(*                                                                         *)
(* One thread serves everyone.  A connection deleted by a command still    *)
(* has the rest of its datagram run, on the freed object ("gone").  What   *)
(* clients send is run as it comes: the call that would decode it is the   *)
(* operand of the return before it, and made only when the database is     *)
(* away.  An encoded command is therefore one that does not parse.         *)
(***************************************************************************)
EXTENDS Persist

CONSTANTS
    Slot,       \* memory a Client object may occupy
    NoSlot,     \* no client
    NoGame,     \* the null gameInfo pointer
    SetData,    \* what the setpd command sets
    Uses        \* bound: the commands, games and players that clients keep to

ASSUME StatsAssumption ==
    /\ NoSlot \notin Slot /\ NoGame \notin Game
    /\ SetData \subseteq Data
    /\ \A u \in Uses : u.games \subseteq Game /\ u.players \subseteq Player

VARIABLES
    clients,    \* server.client_list
    session,    \* the members of the Client object in each slot
    gone,       \* deleted, with commands of its datagram left to run
    answer,     \* what the last step told a client of a row
    use         \* what the clients of this behaviour keep to

vars == <<clients, session, gone, answer, use, rows, handed, trouble>>

Client == [authenticated : BOOLEAN, game : Game \union {NoGame},
           profileid : Player \union {NoProfile}, gameInProgress : BOOLEAN,
           gameKeys : Snapshot]

Fresh == [authenticated |-> FALSE, game |-> NoGame, profileid |-> NoProfile,
          gameInProgress |-> FALSE, gameKeys |-> NoKeys]

Answer == [done : {"none"}]
          \union [done : {"set", "got"}, to : Slot, type : Type, player : Player \union {NoProfile},
                  data : Data \union {NoRow}]

NoAnswer == [done |-> "none"]

Init ==
    /\ use \in Uses
    /\ clients = {} /\ gone = NoSlot /\ answer = NoAnswer
    /\ session = [s \in Slot |-> Fresh]
    /\ rows = [t \in Type |-> [p \in Player |-> [g \in Game |-> NoRow]]]
    /\ handed = <<>> /\ trouble = FALSE

-----------------------------------------------------------------------------
(* Connections come and go.                                                *)

Running(s) == IF gone = NoSlot THEN s \in clients ELSE s = gone

\* A connection made while the database is away is forgotten, its socket open.
Accept(s) ==
    /\ gone = NoSlot /\ s \notin clients
    /\ clients' = clients \union {s}
    /\ answer' = NoAnswer
    /\ NoSnapshot
    /\ UNCHANGED <<use, session, gone, rows>>

\* saveGame hands over what the client last said of the game.
saveGame(c) == handleSnapshot(c.game, c.gameKeys)

\* Fault: the keys of the game are cleared before they are saved.
ClearFirst(c) ==
    IF c.gameInProgress THEN handleSnapshot(c.game, NoKeys) ELSE NoSnapshot /\ UNCHANGED rows

\* ~Client
Destroyed(c) == IF c.gameInProgress THEN saveGame(c) ELSE NoSnapshot /\ UNCHANGED rows

\* recv has returned nothing.
Disconnect(s) ==
    /\ gone = NoSlot /\ s \in clients
    /\ clients' = clients \ {s}
    /\ session' = [session EXCEPT ![s] = Fresh]
    /\ answer' = NoAnswer
    /\ Destroyed(session[s])
    /\ UNCHANGED <<use, gone>>

\* What reads of the freed object may give: its first words are the allocator's,
\* and the nodes of the list of keys are freed.
Remains(c) ==
    [authenticated : {c.authenticated}, game : {c.game}, profileid : {c.profileid} \union Player,
     gameInProgress : {c.gameInProgress},
     gameKeys : IF c.gameInProgress THEN {NoKeys} ELSE {c.gameKeys, NoKeys}]

\* deleteClient from within a command that has made c of the object; of one that
\* is off the list, nothing.
deleteClient(s, c) ==
    /\ answer' = NoAnswer
    /\ IF s \in clients
       THEN /\ clients' = clients \ {s}
            /\ \E c1 \in Remains(c) : session' = [session EXCEPT ![s] = c1]
            /\ gone' = s
            /\ Destroyed(c)
       ELSE /\ session' = [session EXCEPT ![s] = c]
            /\ NoSnapshot
            /\ UNCHANGED <<clients, gone, rows>>
    /\ UNCHANGED use

\* The datagram of a deleted client has been read to its end.
EndOfData ==
    /\ gone # NoSlot
    /\ gone' = NoSlot
    /\ session' = [session EXCEPT ![gone] = Fresh]
    /\ answer' = NoAnswer
    /\ NoSnapshot
    /\ UNCHANGED <<use, clients, rows>>

\* A command that does not parse, or comes before the right answer.
Refuse(s) == Running(s) /\ deleteClient(s, session[s])

-----------------------------------------------------------------------------
(* Who the client is.                                                      *)

\* The game is settled by the first name that is known, also if the answer to the
\* challenge, which is another one for each game, is then wrong.
handleAuth(s) ==
    /\ Running(s)
    /\ \E g \in use.games, right \in BOOLEAN :
         LET c == [session[s] EXCEPT !.authenticated = @ \/ right, !.game = g]
         IN  /\ session[s].game \in {NoGame, g}
             /\ IF right
                THEN /\ session' = [session EXCEPT ![s] = c]
                     /\ answer' = NoAnswer
                     /\ NoSnapshot
                     /\ UNCHANGED <<use, clients, gone, rows>>
                ELSE deleteClient(s, c)

\* Fault: whoever is there is served.
RunsUnasked(s, command) == Running(s) /\ command \in use.commands

\* Everything else is for those who have given the right answer.
Runs(s, command) == Running(s) /\ session[s].authenticated /\ command \in use.commands

\* By password, or by cd key: a key that is not known leaves the profile id that
\* the search returns uninitialised, and the client is whoever it says.
handleAuthP(s) ==
    /\ Runs(s, "authp")
    /\ \E p \in use.players : session' = [session EXCEPT ![s].profileid = p]
    /\ answer' = NoAnswer
    /\ NoSnapshot
    /\ UNCHANGED <<use, clients, gone, rows>>

-----------------------------------------------------------------------------
(* The game that is played.                                                *)

newgame(s) ==
    /\ Runs(s, "newgame")
    /\ session' = [session EXCEPT ![s].gameInProgress = TRUE]
    /\ answer' = NoAnswer
    /\ NoSnapshot
    /\ UNCHANGED <<use, clients, gone, rows>>

\* Each update replaces the one before; the last one is saved, whether or not
\* a new game was announced.
handleUpdateGame(s) ==
    /\ Runs(s, "updgame")
    /\ \E keys \in [player : use.players, score : Value], done \in BOOLEAN :
         LET c == [session[s] EXCEPT !.gameKeys = keys]
         IN  IF done
             THEN /\ saveGame(c)
                  /\ session' = [session EXCEPT ![s] =
                                     [c EXCEPT !.gameInProgress = FALSE, !.gameKeys = NoKeys]]
             ELSE NoSnapshot /\ UNCHANGED rows /\ session' = [session EXCEPT ![s] = c]
    /\ answer' = NoAnswer
    /\ UNCHANGED <<use, clients, gone>>

-----------------------------------------------------------------------------
(* The player's own data.                                                  *)

\* Fault: data that is read-only is refused only if it is private.
PrivateOnly(t) == t # "private_ro"

Writable(t) == t \notin ReadOnly

\* legacystats' own mergeKeys: each key that is there keeps its value, also if
\* it is being set, and none is added; but the row may be another game's.
MergedData(t, p) == RowsOf(rows, t, p)

\* The client is told that its data is set, also if the query failed.
handleSetPD(s) ==
    /\ Runs(s, "setpd") /\ session[s].profileid # NoProfile
    /\ \E t \in Type, data \in SetData, kv, fails \in BOOLEAN :
         LET p == session[s].profileid
             g == session[s].game
         IN  /\ Writable(t)
             /\ answer' = [done |-> "set", to |-> s, type |-> t, player |-> p, data |-> data]
             /\ IF fails THEN UNCHANGED rows
                ELSE \E d \in IF kv /\ rows[t][p][g] # NoRow THEN MergedData(t, p) ELSE {data} :
                       rows' = [rows EXCEPT ![t][p][g] = d]
             /\ trouble' = fails
    /\ handed' = <<>>
    /\ UNCHANGED <<use, clients, session, gone>>

MayRead(t, p, own) == t \in {"private_ro", "private_rw"} => p = own

handleGetPD(s) ==
    /\ Runs(s, "getpd")
    /\ \E t \in Type, p \in use.players :
         /\ MayRead(t, p, session[s].profileid)
         /\ answer' = [done |-> "got", to |-> s, type |-> t, player |-> p,
                       data |-> rows[t][p][session[s].game]]
    /\ NoSnapshot
    /\ UNCHANGED <<use, clients, session, gone, rows>>

-----------------------------------------------------------------------------
Next ==
    \/ \E s \in Slot :
         \/ Accept(s) \/ Disconnect(s) \/ Refuse(s) \/ handleAuth(s)
         \/ handleAuthP(s) \/ newgame(s) \/ handleUpdateGame(s) \/ handleSetPD(s) \/ handleGetPD(s)
    \/ EndOfData

Spec == Init /\ [][Next]_vars

-----------------------------------------------------------------------------
TypeOK ==
    /\ clients \subseteq Slot /\ gone \in Slot \union {NoSlot}
    /\ session \in [Slot -> Client] /\ answer \in Answer /\ use \in Uses
    /\ rows \in Rows /\ handed \in Handed /\ trouble \in BOOLEAN

\* When a connection goes with a game in progress, what it last said of the game
\* is handed to the processor, and when a game is done, something is; in any order
\* of announcing, updating, losing the connection and being thrown out.
AnnouncedGamesAreSaved ==
    [][\A s \in clients :
         session[s].gameInProgress =>
             /\ s \notin clients' => handed' = <<session[s].game, session[s].gameKeys>>
             /\ ~session'[s].gameInProgress => handed' # <<>>]_vars

\* structs.h: read-only data "can only be set on the server", the other by "the
\* authenticated client it belongs to".  A row changes only for the processor's
\* scripts, or for a client that is, on the list or just deleted, that profile.
SetByWhomItBelongsTo ==
    [][\A t \in Type, p \in Player :
         rows'[t][p] # rows[t][p] =>
             IF t \in ReadOnly THEN handed' # <<>>
             ELSE answer'.done = "set" /\ session[answer'.to].profileid = p]_vars

\* structs.h: private data is "readable only by the authenticated client it belongs
\* to".
PrivateIsPrivate ==
    answer.done = "got" /\ answer.type \in {"private_ro", "private_rw"}
        => session[answer.to].profileid = answer.player

\* A high score never falls, but for a query that fails, or for the row another
\* game has for the same player: it may be the one that is read instead.
HighScoresStand ==
    [][\A p \in Player, g \in Game :
         LET row == rows["public_ro"][p]
         IN  row[g] # NoRow =>
                \/ rows'["public_ro"][p][g][ScoreKey[g]] >= row[g][ScoreKey[g]]
                \/ trouble'
                \/ \E g1 \in Game \ {g} : row[g1] # NoRow]_vars
=============================================================================
