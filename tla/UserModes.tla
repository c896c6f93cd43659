------------------------------ MODULE UserModes -----------------------------
(***************************************************************************)
(* The chat server (src/peerchat) as the holder of a copy of two tables of *)
(* the database (Matrix): the user modes in force and the opers.  Clients  *)
(* register, log in, and with rights set and delete user modes and kill;   *)
(* a login and every change of a table come back as datagrams.             *)
(*                                                                         *)
(* Only user modes of the channel mask x are here, which gag or ban on the *)
(* whole service; what those of channels do is in Peerchat.                *)
(***************************************************************************)
EXTENDS Matrix, SequencesExt

CONSTANTS
    NoSlot,      \* no client
    MaxLocal,    \* bound on the user modes that are not global
    MaxPerIp,    \* numUsersByIP's limit (5 in the code)
    MaxLines     \* lines executed for one buffer

ASSUME UserModesAssumption ==
    /\ NoSlot \notin Slot /\ Host # {} /\ Sd # {}
    /\ MaxLocal \in Nat /\ MaxPerIp \in Nat /\ MaxLines \in Nat \ {0}

VARIABLES
    usermodes_list,
    oper_list,
    client,      \* the Client in each slot
    todo,        \* clients processClients has yet to visit
    turn,        \* the client whose lines are executed, or NoSlot
    lines,       \* lines of its buffer that may still come
    expiring,    \* checkExpiry is to follow the pass over the clients
    strays       \* history: profiles of logins whose chat server ended before the answer

serverVars == <<usermodes_list, oper_list, client, todo, turn, lines, expiring, strays>>
vars == <<matrixVars, serverVars>>
loop == <<todo, turn, lines, expiring>>

\* Global modes have the ids of their rows.  The id of a local one is negative
\* and made with rand(): it stands here for one that nothing else has.
LocalId == {0 - n : n \in 1 .. MaxLocal}
Entry == [id : Id, um : UserMode, isGlobal : {TRUE}]
             \union [id : LocalId, um : UserMode, isGlobal : {FALSE}]

\* "asked" and "spared" are history: the profiles whose password the client has
\* given, and whether it was exempt when a ban was looked for.
NewClient(h, d) == [live |-> TRUE, host |-> h, sd |-> d, profile |-> NoProfile, rights |-> {},
                    gagged |-> FALSE, toquit |-> FALSE, registered |-> FALSE,
                    welcomed |-> FALSE, asked |-> {}, spared |-> FALSE]

ClientRec == [live : BOOLEAN, host : Host, sd : Sd, profile : Profile \union {NoProfile},
              rights : Mask, gagged : BOOLEAN, toquit : BOOLEAN, registered : BOOLEAN,
              welcomed : BOOLEAN, asked : SUBSET Profile, spared : BOOLEAN]

\* Freed memory is not read again.
Freed == LET h == CHOOSE h \in Host : TRUE
             d == CHOOSE d \in Sd : TRUE
         IN [NewClient(h, d) EXCEPT !.live = FALSE]

Listed == {c \in Slot : client[c].live}

UserModesInit ==
    /\ MatrixInit
    /\ usermodes_list = <<>> /\ oper_list = [p \in Profile |-> NoOper]
    /\ client = [c \in Slot |-> Freed]
    /\ todo = {} /\ turn = NoSlot /\ lines = 0 /\ expiring = FALSE /\ strays = {}

-----------------------------------------------------------------------------
(* Whom user modes are for and what they do.                               *)

usermodeMatches(c, um) ==
    /\ um.host \in {NoHost, c.host}
    /\ um.profile \in {NoProfile, c.profile}

InForce(list) == {list[i].um : i \in DOMAIN list}

\* Only the lower-case x is seen here: tolower is given the comparison.
isGlobalExcempt(list, c) ==
    \E um \in InForce(list) : um.chanmask = "x" /\ "E" \in um.flags /\ usermodeMatches(c, um)

isGlobalBanned(list, c) ==
    \E um \in InForce(list) : "b" \in um.flags /\ usermodeMatches(c, um)

quitUser(c) == [c EXCEPT !.toquit = TRUE]

\* Fault: bans are left to sendWelcome.
AppliedGagsOnly(list, um, c) ==
    [c EXCEPT !.spared = @ \/ isGlobalExcempt(list, c), !.gagged = @ \/ "g" \in um.flags]

\* A client as a new user mode of the list leaves it.  One that is gagged
\* already is left alone, also by a mode that bans as well.
Applied(list, um, c) ==
    LET seen == [c EXCEPT !.spared = @ \/ isGlobalExcempt(list, c)]
    IN  IF isGlobalExcempt(list, c) \/ ~usermodeMatches(c, um) \/ ("g" \in um.flags /\ c.gagged)
        THEN seen
        ELSE [seen EXCEPT !.gagged = @ \/ "g" \in um.flags, !.toquit = @ \/ "b" \in um.flags]

applyUserMode(list, um) ==
    client' = [c \in Slot |-> IF client[c].live THEN Applied(list, um, client[c]) ELSE client[c]]

numUsersByIP(h) == Cardinality({c \in Listed : client[c].host = h})

\* sendWelcome, for a client that may be refused; then all user modes apply.
Welcomed(c) ==
    LET exempt == isGlobalExcempt(usermodes_list, c)
        seen   == [c EXCEPT !.spared = @ \/ exempt, !.registered = TRUE]
        gags   == \E um \in InForce(usermodes_list) : "g" \in um.flags /\ usermodeMatches(c, um)
    IN  IF c.welcomed THEN [c EXCEPT !.registered = TRUE]
        ELSE IF ~exempt /\ (isGlobalBanned(usermodes_list, c) \/ numUsersByIP(c.host) > MaxPerIp)
             THEN [seen EXCEPT !.toquit = TRUE]
             ELSE [seen EXCEPT !.welcomed = TRUE, !.gagged = @ \/ (~exempt /\ gags)]

\* A user mode goes off the list.  A gag is taken back from the first client of
\* client_list, if it matches, and from nobody else; without clients the code
\* follows the end of the list and, if it survives, changes nobody.
Drop(e) ==
    /\ \E i \in DOMAIN usermodes_list :
          usermodes_list[i] = e /\ usermodes_list' = RemoveAt(usermodes_list, i)
    /\ IF Listed = {} THEN UNCHANGED client
       ELSE \E c \in Listed :
              client' = [client EXCEPT ![c].gagged =
                            @ /\ ~("g" \in e.um.flags /\ usermodeMatches(client[c], e.um))]

-----------------------------------------------------------------------------
(* The loop: a connection, a datagram, or a pass over the clients.         *)

\* The thread waits for the end of the procedures it calls.
Running == stage = "up" /\ Idle("server")
Between == Running /\ todo = {} /\ turn = NoSlot /\ ~expiring

Free == Sd \ {client[b].sd : b \in Listed}

\* The system gives the lowest free descriptor.
accept(c) ==
    /\ Between
    /\ c \in use.clients \ Listed
    /\ \E h \in Host, d \in Free :
          /\ \A other \in Free : d <= other
          /\ client' = [client EXCEPT ![c] = NewClient(h, d)]
    /\ UNCHANGED <<matrixVars, usermodes_list, oper_list, loop, strays>>

resetByProfileID(p) ==
    client' = [c \in Slot |-> IF client[c].live /\ client[c].profile = p
                              THEN quitUser(client[c]) ELSE client[c]]

\* Fault: the rights change and those who have the old ones stay.
addOperOnly(msg) ==
    /\ msg.id = "AddOper"
    /\ oper_list' = [oper_list EXCEPT ![msg.key] = msg.rights]
    /\ UNCHANGED <<client, usermodes_list>>

\* Fault: an oper that is on the list already is left as it is.
addOperNew(msg) ==
    /\ msg.id = "AddOper"
    /\ oper_list' = [oper_list EXCEPT ![msg.key] = IF @ = NoOper THEN msg.rights ELSE @]
    /\ UNCHANGED <<client, usermodes_list>>

addOper(msg) ==
    /\ msg.id = "AddOper"
    /\ oper_list' = [oper_list EXCEPT ![msg.key] = msg.rights]
    /\ IF oper_list[msg.key] = NoOper THEN UNCHANGED client ELSE resetByProfileID(msg.key)
    /\ UNCHANGED usermodes_list

delOper(msg) ==
    /\ msg.id = "DelOper"
    /\ oper_list' = [oper_list EXCEPT ![msg.key] = NoOper]
    /\ IF oper_list[msg.key] = NoOper THEN UNCHANGED client ELSE resetByProfileID(msg.key)
    /\ UNCHANGED usermodes_list

WithId(n) == {e \in ToSet(usermodes_list) : e.id = n}

\* Fault: the mode is put on the list whether it is there or not.
setUserModeAgain(msg) ==
    /\ msg.id = "SetUserMode"
    /\ usermodes_list' = Append(usermodes_list, [id |-> msg.key, um |-> msg.um, isGlobal |-> TRUE])
    /\ applyUserMode(usermodes_list', msg.um)
    /\ UNCHANGED oper_list

setUserMode(msg) ==
    /\ msg.id = "SetUserMode"
    /\ IF WithId(msg.key) # {} THEN UNCHANGED <<usermodes_list, client>>
       ELSE /\ usermodes_list' = Append(usermodes_list,
                                    [id |-> msg.key, um |-> msg.um, isGlobal |-> TRUE])
            /\ applyUserMode(usermodes_list', msg.um)
    /\ UNCHANGED oper_list

delUserMode(msg) ==
    /\ msg.id = "DelUserMode"
    /\ IF WithId(msg.key) = {} THEN UNCHANGED <<usermodes_list, client>>
       ELSE \E e \in WithId(msg.key) : Drop(e)
    /\ UNCHANGED oper_list

\* Fault: that the profile is on the oper list is not tested.
authClientOper(msg) ==
    /\ msg.id = "AuthClient"
    /\ client' = [c \in Slot |->
         IF ~client[c].live \/ client[c].sd # msg.sd \/ msg.key = NoProfile THEN client[c]
         ELSE [client[c] EXCEPT !.profile = msg.key, !.rights = oper_list[msg.key]]]
    /\ UNCHANGED <<usermodes_list, oper_list>>

\* logUserIn, on whoever has the descriptor now.
authClient(msg) ==
    /\ msg.id = "AuthClient"
    /\ client' = [c \in Slot |->
         IF ~client[c].live \/ client[c].sd # msg.sd \/ msg.key = NoProfile THEN client[c]
         ELSE [client[c] EXCEPT
                 !.profile = msg.key,
                 !.rights = IF oper_list[msg.key] = NoOper THEN {} ELSE oper_list[msg.key]]]
    /\ UNCHANGED <<usermodes_list, oper_list>>

processQueue ==
    /\ Between
    /\ wire # <<>>
    /\ wire' = Tail(wire)
    /\ LET msg == Head(wire)
       IN addOper(msg) \/ delOper(msg) \/ setUserMode(msg) \/ delUserMode(msg) \/ authClient(msg)
    /\ UNCHANGED <<use, tables, pending, stage, astray, loop, strays>>

\* Fault: the clients are served whatever else there is to read.
startPassAnyway ==
    /\ Between
    /\ todo' = Listed /\ expiring' = TRUE
    /\ UNCHANGED <<matrixVars, usermodes_list, oper_list, client, turn, lines, strays>>

\* select finds no datagram: it is the clients' turn.
startPass ==
    /\ Between
    /\ wire = <<>>
    /\ todo' = Listed /\ expiring' = TRUE
    /\ UNCHANGED <<matrixVars, usermodes_list, oper_list, client, turn, lines, strays>>

Visited(c) == Running /\ turn = NoSlot /\ c \in todo /\ todo' = todo \ {c}

\* It has quit, or does not answer pings; its descriptor is closed.
deleteClient(c) ==
    /\ Visited(c)
    /\ client' = [client EXCEPT ![c] = Freed]
    /\ UNCHANGED <<matrixVars, usermodes_list, oper_list, turn, lines, expiring, strays>>

startLines(c) ==
    /\ Visited(c)
    /\ ~client[c].toquit
    /\ turn' = c /\ lines' = MaxLines
    /\ UNCHANGED <<matrixVars, usermodes_list, oper_list, client, expiring, strays>>

endLines ==
    /\ Running /\ turn # NoSlot
    /\ turn' = NoSlot /\ lines' = 0
    /\ UNCHANGED <<matrixVars, usermodes_list, oper_list, client, todo, expiring, strays>>

-----------------------------------------------------------------------------
(* One line of a client.                                                   *)

Line(c, word) ==
    /\ Running /\ turn = c /\ lines > 0 /\ word \in use.lines
    /\ lines' = lines - 1
    /\ UNCHANGED <<turn, todo, expiring, strays>>

HasRight(c, right) == client[c].registered /\ right \in client[c].rights

\* USER and NICK; a second NICK may bring the welcome that the first did not.
cmd_user(c) ==
    /\ Line(c, "USER")
    /\ client' = [client EXCEPT ![c] = Welcomed(@)]
    /\ UNCHANGED <<matrixVars, usermodes_list, oper_list>>

cmd_quit(c) ==
    /\ Line(c, "QUIT")
    /\ client' = [client EXCEPT ![c] = quitUser(@)]
    /\ UNCHANGED <<matrixVars, usermodes_list, oper_list>>

\* LOGIN before registration and OPER after it are one call to the database.
cmd_login(c) == \E p \in Profile \union {NoProfile} :
    /\ Line(c, "LOGIN")
    /\ AuthClientCall("server", client[c].sd, p)
    /\ client' = [client EXCEPT ![c].asked = @ \union ({p} \ {NoProfile})]
    /\ UNCHANGED <<use, wire, stage, usermodes_list, oper_list>>

\* A global user mode goes to the database and comes back by the queue; one that
\* is not is put on the list at once.
addUserMode(um, isGlobal) ==
    IF isGlobal
    THEN SetUserMode("server", um) /\ UNCHANGED usermodes_list
    ELSE /\ \E n \in {n \in LocalId : WithId(n) = {}} :
              usermodes_list' = Append(usermodes_list, [id |-> n, um |-> um, isGlobal |-> FALSE])
         /\ UNCHANGED <<tables, pending, astray>>

cmd_setusermode(c) == \E um \in use.forms, isGlobal \in BOOLEAN :
    /\ Line(c, "SETUSERMODE")
    /\ HasRight(c, "GLOBALOWNER")
    /\ addUserMode(um, isGlobal)
    /\ IF isGlobal THEN UNCHANGED client ELSE applyUserMode(usermodes_list', um)
    /\ UNCHANGED <<use, wire, stage, oper_list>>

\* Fault: the global ones are taken off the list and not out of the database.
removeUsermodeHere(e) == Drop(e) /\ UNCHANGED <<tables, pending, astray>>

\* What removeUsermode does of a mode by a command or when it has run out: of a
\* global one the row goes, and the mode with the datagram about it.
Lapsed(e) == [e EXCEPT !.um.expires = FALSE]

removeUsermode(e) ==
    IF e.isGlobal
    THEN /\ DelUserMode("server", e.id)
         /\ usermodes_list' = [i \in DOMAIN usermodes_list |->
                IF usermodes_list[i] = e THEN Lapsed(e) ELSE usermodes_list[i]]
         /\ UNCHANGED client
    ELSE Drop(e) /\ UNCHANGED <<tables, pending, astray>>

cmd_delusermode(c) == \E e \in ToSet(usermodes_list) :
    /\ Line(c, "DELUSERMODE")
    /\ HasRight(c, "GLOBALOWNER")
    /\ removeUsermode(e)
    /\ UNCHANGED <<use, wire, stage, oper_list>>

\* KILL makes the target quit and then bans its host, KLINE bans a host.  The
\* ban is for those with GLOBALOWNER: others are told that there is no channel X.
killed(h) == [host |-> h, profile |-> NoProfile, flags |-> {"b"}, chanmask |-> "X", expires |-> TRUE]

Banned(c, h) == IF HasRight(c, "GLOBALOWNER") THEN addUserMode(killed(h), TRUE)
                ELSE UNCHANGED <<tables, pending, astray, usermodes_list>>

cmd_kill(c) == \E t \in Listed :
    /\ Line(c, "KILL")
    /\ HasRight(c, "KILL")
    /\ client' = [client EXCEPT ![t] = quitUser(@)]
    /\ Banned(c, client[t].host)
    /\ UNCHANGED <<use, wire, stage, oper_list>>

cmd_kline(c) == \E h \in Host :
    /\ Line(c, "KLINE")
    /\ HasRight(c, "KILL")
    /\ Banned(c, h)
    /\ UNCHANGED <<use, wire, stage, client, oper_list>>

-----------------------------------------------------------------------------
(* What runs out.                                                          *)

Expiring == Running /\ turn = NoSlot /\ todo = {} /\ expiring

checkExpiry == \E e \in ToSet(usermodes_list) :
    /\ Expiring
    /\ e.um.expires
    /\ removeUsermode(e)
    /\ UNCHANGED <<use, wire, stage, oper_list, loop, strays>>

\* The end of the walk, which comes early when a local mode was freed under the
\* iterator (the process may also end then: crash).
endExpiry ==
    /\ Expiring
    /\ expiring' = FALSE
    /\ UNCHANGED <<matrixVars, usermodes_list, oper_list, client, todo, turn, lines, strays>>

-----------------------------------------------------------------------------
(* Start and end of the chat server.                                       *)

start ==
    /\ stage = "down" /\ stage' = "started"
    /\ UNCHANGED <<use, tables, pending, wire, astray, serverVars>>

\* The rows come in any order.  What has gone astray of a table no longer matters
\* once it is read again, unless there are datagrams about it still to be sent.
loadUserModes ==
    /\ stage = "started" /\ stage' = "modes"
    /\ \E ids \in SetToSeqs(DOMAIN chanusermodes) :
          usermodes_list' = [i \in DOMAIN ids |->
              [id |-> ids[i], um |-> chanusermodes[ids[i]], isGlobal |-> TRUE]]
    /\ astray' = astray \ (Id \ Unsent)
    /\ UNCHANGED <<use, tables, pending, wire, oper_list, client, loop, strays>>

loadOpers ==
    /\ stage = "modes" /\ stage' = "opers"
    /\ oper_list' = globalopers
    /\ astray' = astray \ (Profile \ Unsent)
    /\ UNCHANGED <<use, tables, pending, wire, usermodes_list, client, loop, strays>>

setupQueueListener ==
    /\ stage = "opers" /\ stage' = "up"
    /\ UNCHANGED <<use, tables, pending, wire, astray, serverVars>>

\* The process ends at any time: by a fault of its own, or when a query fails.
\* The procedure that it called is carried through by the database.
crash ==
    /\ use.crashes
    /\ stage # "down" /\ stage' = "down"
    /\ Idle("old")
    /\ pending' = [pending EXCEPT !["old"] = pending["server"], !["server"] = NoCall]
    /\ strays' = IF Idle("server") \/ pending["server"].id # "AuthClient" THEN strays
                 ELSE strays \union ({pending["server"].key} \ {NoProfile})
    /\ wire' = <<>>
    /\ usermodes_list' = <<>> /\ oper_list' = [p \in Profile |-> NoOper]
    /\ client' = [c \in Slot |-> Freed]
    /\ todo' = {} /\ turn' = NoSlot /\ lines' = 0 /\ expiring' = FALSE
    /\ UNCHANGED <<use, tables, astray>>

-----------------------------------------------------------------------------
mainLoop(c) ==
    \/ deleteClient(c) \/ startLines(c)
    \/ cmd_user(c) \/ cmd_quit(c) \/ cmd_login(c)
    \/ cmd_setusermode(c) \/ cmd_delusermode(c) \/ cmd_kill(c) \/ cmd_kline(c)

UserModesNext ==
    \/ start \/ loadUserModes \/ loadOpers \/ setupQueueListener \/ crash
    \/ processQueue \/ startPass \/ endLines \/ checkExpiry \/ endExpiry
    \/ \E c \in Slot : accept(c) \/ mainLoop(c)
    \/ \E s \in Session : matrixqueue(s) /\ UNCHANGED serverVars
    \/ \E s \in Panel : panel(s) /\ UNCHANGED serverVars

UserModesSpec == UserModesInit /\ [][UserModesNext]_vars

-----------------------------------------------------------------------------
(* Properties.                                                             *)

\* Every variable stays in its type.
UserModesTypeOK ==
    /\ MatrixTypeOK
    /\ usermodes_list \in Seq(Entry)
    /\ oper_list \in [Profile -> Mask \union {NoOper}]
    /\ client \in [Slot -> ClientRec]
    /\ todo \subseteq Slot /\ turn \in Slot \union {NoSlot}
    /\ lines \in 0 .. MaxLines /\ expiring \in BOOLEAN
    /\ strays \subseteq Profile

Unread == {wire[i] : i \in DOMAIN wire} \union {pending[s] : s \in Session}

\* The list of global user modes is the table but for the datagrams on their way:
\* a mode has a row exactly when it is on the list or will be, and will not be
\* taken off, unless one of its datagrams was lost or crossed another
\* (addUserMode, removeUsermode, loadUserModes, processQueue and the procedures).
ModesInStep == stage = "up" =>
    \A n \in Id \ astray :
        n \in DOMAIN chanusermodes <=>
            /\ \/ WithId(n) # {}
               \/ \E msg \in Unread : msg # NoCall /\ msg.id = "SetUserMode" /\ msg.key = n
            /\ ~\E msg \in Unread : msg # NoCall /\ msg.id = "DelUserMode" /\ msg.key = n

\* No mode is on the list twice, although its row may be read by the start and
\* its datagram come behind (loadUserModes, getUserMode in processQueue).
NoTwins == \A i, j \in DOMAIN usermodes_list :
    usermodes_list[i].id = usermodes_list[j].id => i = j

\* What a message makes of the rights of its profile.
Verdict(msg) == IF msg.id = "AddOper" THEN msg.rights ELSE NoOper

About(p) == {i \in DOMAIN wire : p \in Told(wire[i])}

\* The last word on a profile, sent or about to be sent, is the table's; without
\* one the oper list has it (SetGlobalOper, DelGlobalOper, addOper, delOper).
OpersInStep == stage = "up" =>
    \A p \in Profile \ astray :
        \/ \E s \in Session : p \in Told(pending[s]) /\ globalopers[p] = Verdict(pending[s])
        \/ /\ p \notin Unsent
           /\ globalopers[p] = IF About(p) = {} THEN oper_list[p]
                               ELSE Verdict(wire[CHOOSE i \in About(p) : \A j \in About(p) : j <= i])

\* Rights that a client got by logging in are those that the oper list gives to
\* its profile now, or it has been made to quit (logUserIn, addOper, delOper).
RightsAreCurrent == \A c \in Listed :
    LET k == client[c]
    IN  ~k.toquit /\ k.rights # {} => k.profile # NoProfile /\ oper_list[k.profile] = k.rights

\* A login is given to the client that asked for it, though it is found by its
\* descriptor, which others have had: the queue is read before clients are
\* deleted.  Only a login whose chat server ended may go astray.
ProfileIsItsOwn == \A c \in Listed :
    client[c].profile \in client[c].asked \union strays \union {NoProfile}

\* A registered client whose host is banned by a mode in force is about to go, or
\* was exempt when the ban was looked for (sendWelcome, applyUserMode).
BannedAreGone == \A c \in Listed :
    client[c].registered /\ ~client[c].toquit /\ ~client[c].spared
        => ~\E um \in InForce(usermodes_list) :
               um.flags = {"b"} /\ um.host = client[c].host /\ um.profile = NoProfile
=============================================================================
