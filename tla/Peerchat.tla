------------------------------ MODULE Peerchat ------------------------------
(***************************************************************************)
(* The chat server (src/peerchat): clients, channels, invitations and the  *)
(* user modes and channel properties that act on them.  One thread loops:  *)
(* it accepts a connection, or takes one message from the queue, or goes   *)
(* once over a copy of client_list; each client with something to read has *)
(* all the lines of one buffer executed, and a client that has quit is     *)
(* deleted when its turn comes.                                            *)
(*                                                                         *)
(* Objects are named by the memory they occupy, as the code's pointers do: *)
(* a new Client or Channel may be allocated where another one was freed.   *)
(* What freed memory is read as is not an error here: the run goes on with *)
(* the pointer as it is.                                                   *)
(***************************************************************************)
EXTENDS PeerchatChannel

CONSTANTS
    NoSlot,       \* no client
    Block,        \* memory a Channel object may occupy
    NoBlock,      \* no channel
    Entry,        \* memory an inviteInfo may occupy, bounding invite_list
    Host,         \* hosts that clients connect from
    Game,         \* ids of games, which clients that use CRYPT have
    Mask,         \* rights that a login or SETRIGHTS may give
    DbMode,       \* user modes loaded from the database (the global ones)
    PropSet,      \* channel properties that staff sets
    Letter,       \* mode letters that are used
    Extra,        \* texts behind the names of a JOIN that are used
    MaxChans,     \* MAX_CHANS_PER_USER
    MaxLines      \* names and lines executed for one buffer

GameId == {-1, 0} \union Game

Granted == {"v", "h", "o", "O", "b", "I", "E"}

UserMode == [host : Host, chan : Name, flag : Granted]

ASSUME PeerchatAssumption ==
    /\ NoSlot \notin Slot /\ NoBlock \notin Block
    /\ Game \subseteq Nat \ {0}
    /\ Mask \subseteq SUBSET Right
    /\ DbMode \subseteq UserMode
    /\ PropSet \subseteq PropRec
    /\ Extra \subseteq {"none", "key", "i", "n"} /\ "none" \in Extra
    /\ MaxChans \in Nat /\ MaxLines \in Nat \ {0}
    /\ IsFiniteSet(Slot) /\ IsFiniteSet(Block)

VARIABLES
    client,       \* the Client in each slot
    channel,      \* the Channel in each block
    invite,       \* the inviteInfo in each entry
    older,        \* the order of invite_list: pairs <<older, younger>>
    localmode,    \* user modes that are not global (isGlobal == 0)
    chanprops,    \* chanprops_list: the entry for each name, if any
    gameclient,   \* chanclient_list: <<name, gameid>>
    todo,         \* clients processClients has yet to visit
    turn,         \* the client whose lines are executed, or NoSlot
    lines,        \* lines of its buffer that may still come
    joining,      \* the JOIN whose list of names is being gone through
    leaving,      \* clients that quitUser is taking off their channels
    revived       \* history: slots whose client was on a channel when it had quit

vars == <<client, channel, invite, older, localmode, chanprops, gameclient,
          todo, turn, lines, joining, leaving, revived>>

objects == <<client, channel, invite, older, localmode, chanprops, gameclient, revived>>
staff   == <<localmode, chanprops, gameclient>>
loop    == <<todo, turn, lines, joining, leaving>>

\* A Client as constructed, and what is left of one: only a freed client that
\* is still on a channel is read again, and then only for its host.
NewClient(h) == [live |-> TRUE, registered |-> FALSE, toquit |-> FALSE, auth |-> FALSE,
                 rights |-> {}, gameid |-> 0, host |-> h]

Freed(h) == [NewClient(h) EXCEPT !.live = FALSE]

ClientRec == [live : BOOLEAN, registered : BOOLEAN, toquit : BOOLEAN, auth : BOOLEAN,
              rights : SUBSET Right, gameid : {0} \union Game, host : Host]

Listed == {c \in Slot : client[c].live}

\* userInfo, and the text after the names of a JOIN: nothing, the right key
\* (no other text differs from none), or the extras "x i" and "x n".
Info  == [voice : BOOLEAN, halfop : BOOLEAN, op : BOOLEAN, owner : BOOLEAN,
          invisible : BOOLEAN, invited : BOOLEAN]
NoInfo == [voice |-> FALSE, halfop |-> FALSE, op |-> FALSE, owner |-> FALSE,
           invisible |-> FALSE, invited |-> FALSE]

JoinRec == [on : BOOLEAN, extra : Extra, info : Info]
NoJoin  == [on |-> FALSE, extra |-> "none", info |-> NoInfo]

InviteRec == [client : Slot, chan : Block]
NoInvite  == [client |-> NoSlot, chan |-> NoBlock]

-----------------------------------------------------------------------------
(* invite_list.                                                            *)

Held == {e \in Entry : invite[e] # NoInvite}

Oldest(S) == {e \in S : \A f \in S \ {e} : <<e, f>> \in older}

\* Fault: the search stops behind the first entry.
SparedButFirst(gone) == Held \ (gone \intersect Oldest(Held))

\* What removeChannelInvite leaves of the list when it is to remove "gone":
\* after an erasure it goes on behind the first entry, so that the entry that
\* follows an erased first one is not looked at.
Spared(gone) ==
    (Held \ gone) \union
        (IF Oldest(Held) \intersect gone = {} THEN {} ELSE Oldest(Held \ Oldest(Held)))

removeChannelInvite(gone) ==
    LET kept == Spared(gone)
    IN /\ invite' = [e \in Entry |-> IF e \in kept THEN invite[e] ELSE NoInvite]
       /\ older' = older \intersect (kept \X kept)

addChannelInvite(c, b) == \E e \in Entry \ Held :
    /\ invite' = [invite EXCEPT ![e] = [client |-> c, chan |-> b]]
    /\ older' = older \union (Held \X {e})

InvitesTo(b)       == {e \in Held : invite[e].chan = b}
InvitesOf(c)       == {e \in Held : invite[e].client = c}
isUserInvited(c, b) == InvitesOf(c) \intersect InvitesTo(b) # {}

-----------------------------------------------------------------------------
(* Channels: finding, opening and closing them.                            *)

\* Fault: only the spelling it was created with finds a channel.
FindExactly(n) == {b \in Block : channel[b].name = n}

find_chan(n) == {b \in Block : SameName(channel[b].name, n)}

\* Fault: the user modes of a closed channel are kept.
ForgettingNothing(modes, n) == modes

\* clearnonGlobalModes compares the names with strcmp.
clearnonGlobalModes(modes, n) == {u \in modes : u.chan # n}

deleteChannel(b) ==
    /\ channel' = [channel EXCEPT ![b] = NoChannel]
    /\ localmode' = clearnonGlobalModes(localmode, channel[b].name)
    /\ removeChannelInvite(InvitesTo(b))

removeUser(c, b) ==
    LET ch == Without(channel[b], c)
    IN IF Emptied(ch)
       THEN deleteChannel(b)
       ELSE /\ channel' = [channel EXCEPT ![b] = ch]
            /\ UNCHANGED <<localmode, invite, older>>

\* A new Channel object under the properties of its name, if it has any.
Opened(n) ==
    LET new == [NoChannel EXCEPT !.name = n]
        own == {p \in chanprops : SameName(p.mask, n)}
    IN IF own = {} THEN {new} ELSE {applyChanProps(new, p.props) : p \in own}

-----------------------------------------------------------------------------
(* joinChan.                                                               *)

getUserChannelModes(c, n) ==
    {u.flag : u \in {v \in DbMode \union localmode :
                        v.host = client[c].host /\ SameName(v.chan, n)}}

isClientAllowed(c, n) ==
    LET games == {g \in GameId : \E m \in Name : <<m, g>> \in gameclient /\ SameName(m, n)}
    IN \/ games = {}
       \/ client[c].gameid \in games
       \/ client[c].gameid # 0 /\ -1 \in games

\* The ranks that user modes and rights add to userInfo.
Entitled(c, n, info) ==
    LET modes == getUserChannelModes(c, n)
        rights == client[c].rights
    IN [info EXCEPT !.voice  = @ \/ "v" \in modes \/ "GETVOICE" \in rights,
                    !.halfop = @ \/ "h" \in modes,
                    !.op     = @ \/ "o" \in modes \/ "GETOPS" \in rights,
                    !.owner  = @ \/ "O" \in modes \/ "GLOBALOWNER" \in rights]

Barred(c, n, info) ==
    /\ "b" \in getUserChannelModes(c, n) \/ ~isClientAllowed(c, n)
    /\ "BANEXCEMPT" \notin client[c].rights
    /\ ~info.op /\ ~info.owner
    /\ "E" \notin getUserChannelModes(c, n)

\* The mode I and the extras.
Asked(c, n, x, info) ==
    LET in == [info EXCEPT !.invited = @ \/ "I" \in getUserChannelModes(c, n)]
    IN CASE x = "i" -> [in EXCEPT !.invisible = "INVISIBLE" \in client[c].rights]
         [] x = "n" -> [in EXCEPT !.voice = FALSE, !.halfop = FALSE,
                                  !.op = FALSE, !.owner = FALSE]
         [] OTHER   -> in

\* What the channel itself adds: it makes its first user, or everybody, owner.
Welcomed(c, b, ch, in) ==
    LET all == ("r" \in ch.flags /\ ~Live(channel[b])) \/ "a" \in ch.flags
    IN [in EXCEPT !.owner = @ \/ all, !.halfop = @ \/ all, !.op = @ \/ all,
                  !.invited = @ \/ isUserInvited(c, b)]

\* The local user modes added on the way, under the name as it was spelled.
Noted(c, b, n, ch) ==
    localmode
        \union {[host |-> client[c].host, chan |-> n, flag |-> "O"] :
                    f \in {"r"} \intersect (IF Live(channel[b]) THEN {} ELSE ch.flags)}
        \union {[host |-> client[c].host, chan |-> n, flag |-> "o"] :
                    f \in {"a"} \intersect ch.flags}

\* applyUserMode of the mode o: every user with that host is made op.
Applied(ch, h) ==
    IF "a" \notin ch.flags THEN ch
    ELSE [ch EXCEPT !.users = [c \in Slot |->
            IF ch.users[c].on /\ client[c].host = h THEN [ch.users[c] EXCEPT !.op = TRUE]
                                                    ELSE ch.users[c]]]

numChans(c) == Cardinality({b \in Block : channel[b].users[c].on})

Privileged(in) == in.invited \/ in.op \/ in.owner

\* Fault: the number of channels is not tested.
AdmitsAnyNumber(c, x, ch, in) ==
    /\ "i" \in ch.flags => Privileged(in)
    /\ ch.limit # 0 /\ getNumUsers(ch) >= ch.limit => Privileged(in) /\ "e" \notin ch.flags
    /\ "k" \in ch.flags => x = "key" \/ Privileged(in)

\* Fault: an operator's invitation is asked of nobody.
AdmitsUninvited(c, x, ch, in) ==
    /\ ch.limit # 0 /\ getNumUsers(ch) >= ch.limit => Privileged(in) /\ "e" \notin ch.flags
    /\ "k" \in ch.flags => x = "key" \/ Privileged(in)
    /\ numChans(c) > MaxChans => "OPEROVERRIDE" \in client[c].rights

Admits(c, x, ch, in) ==
    /\ "i" \in ch.flags => Privileged(in)
    /\ ch.limit # 0 /\ getNumUsers(ch) >= ch.limit => Privileged(in) /\ "e" \notin ch.flags
    /\ "k" \in ch.flags => x = "key" \/ Privileged(in)
    /\ numChans(c) > MaxChans => "OPEROVERRIDE" \in client[c].rights

AsMember(in) == [on |-> TRUE, voice |-> in.voice, halfop |-> in.halfop, op |-> in.op,
                 owner |-> in.owner, invisible |-> in.invisible]

\* Fault: a refused client leaves the channel it has just created.
RefuseKeeping(c, b, n, ch) ==
    /\ channel' = [channel EXCEPT ![b] = Applied(ch, client[c].host)]
    /\ localmode' = Noted(c, b, n, ch)
    /\ UNCHANGED <<invite, older, revived>>

\* A refused client deletes the channel it has just created.
Refuse(c, b, n, ch) ==
    /\ IF Live(channel[b])
       THEN /\ channel' = [channel EXCEPT ![b] = Applied(ch, client[c].host)]
            /\ localmode' = Noted(c, b, n, ch)
            /\ UNCHANGED <<invite, older>>
       ELSE /\ localmode' = clearnonGlobalModes(Noted(c, b, n, ch), n)
            /\ removeChannelInvite(InvitesTo(b))
            /\ UNCHANGED channel
    /\ UNCHANGED revived

Admit(c, b, n, ch, in) ==
    LET now == Applied(ch, client[c].host)
    IN /\ localmode' = Noted(c, b, n, ch)
       /\ IF ch.users[c].on
          THEN /\ channel' = [channel EXCEPT ![b] = now]
               /\ UNCHANGED <<invite, older, revived>>
          ELSE /\ channel' = [channel EXCEPT ![b] = addUser(now, c, AsMember(in))]
               /\ removeChannelInvite(InvitesOf(c) \intersect InvitesTo(b))
               /\ revived' = IF client[c].toquit THEN revived \union {c} ELSE revived

\* Where a JOIN of n leads: its channel, or memory for a new one.
Room(n) == IF find_chan(n) # {} THEN find_chan(n) ELSE {b \in Block : ~Live(channel[b])}

\* A JOIN keeps userInfo for the names that may follow.
Keep(listed, x, info) ==
    joining' = IF listed THEN [on |-> TRUE, extra |-> x, info |-> info] ELSE NoJoin

joinChan(c, n, x, info, listed) ==
    LET own == Entitled(c, n, info)
    IN IF Barred(c, n, own)
       THEN Keep(listed, x, own) /\ UNCHANGED <<channel, localmode, invite, older, revived>>
       ELSE \E b \in Room(n) :
            \E ch \in IF Live(channel[b]) THEN {channel[b]} ELSE Opened(n) :
              LET in == Welcomed(c, b, ch, Asked(c, n, x, own))
              IN /\ Keep(listed, x, in)
                 /\ IF Admits(c, x, ch, in) THEN Admit(c, b, n, ch, in)
                                            ELSE Refuse(c, b, n, ch)

-----------------------------------------------------------------------------
(* One line of the buffer of the client whose turn it is.                  *)

Line(c) ==
    /\ turn = c /\ leaving = {} /\ lines > 0
    /\ lines' = lines - 1
    /\ UNCHANGED <<todo, turn>>

\* A command of a registered client; another command than JOIN.
Command(c)  == Line(c) /\ client[c].registered
Ordinary(c) == Command(c) /\ joining' = NoJoin

\* Nothing but the channels, their invitations and local user modes changes.
OnChannels == UNCHANGED <<client, chanprops, gameclient, leaving, revived>>

\* USER and NICK: registered as soon as there is a nick and a user name;
\* sendWelcome may refuse (banned, or too many clients from one address), and
\* then leaves the client on channels that it may have been FJOINed to.
Named(c) ==
    IF client[c].registered THEN {client[c]}
    ELSE {client[c]} \union {[client[c] EXCEPT !.registered = TRUE, !.toquit = q] :
                                q \in {client[c].toquit, TRUE}}

\* NICK * takes the login's unique nick from whoever has it, itself included.
cmd_nick(c) ==
    /\ Line(c) /\ joining' = NoJoin
    /\ \E new \in Named(c) :
        /\ client' = [client EXCEPT ![c] = new]
        /\ revived' = IF new.toquit /\ ~client[c].toquit /\ numChans(c) # 0
                      THEN revived \union {c} ELSE revived
    /\ \/ leaving' = {}
       \/ client[c].auth /\ \E d \in Listed : leaving' = {d}
    /\ UNCHANGED <<channel, staff, invite, older>>

cmd_crypt(c) ==
    /\ Line(c) /\ joining' = NoJoin /\ ~client[c].registered
    /\ \E g \in Game : client' = [client EXCEPT ![c].gameid = g]
    /\ UNCHANGED <<channel, staff, invite, older, leaving, revived>>

\* QUIT, or a line that exceeds the flood weight; the lines behind it count.
cmd_quit(c) ==
    /\ Line(c) /\ joining' = NoJoin
    /\ leaving' = {c}
    /\ UNCHANGED objects

\* The first name of a JOIN, with userInfo cleared.
cmd_join(c) == \E n \in Name, x \in Extra :
    /\ Command(c)
    /\ joinChan(c, n, x, NoInfo, TRUE)
    /\ UNCHANGED <<client, chanprops, gameclient, leaving>>

\* Any further name: userInfo is what the names before it made of it.
cmd_join_next(c) == \E n \in Name :
    /\ Command(c) /\ joining.on
    /\ joinChan(c, n, joining.extra, joining.info, TRUE)
    /\ UNCHANGED <<client, chanprops, gameclient, leaving>>

cmd_fjoin(c) == \E t \in Listed, n \in Name :
    /\ Command(c) /\ "MANIPULATE" \in client[c].rights
    /\ joinChan(t, n, "none", NoInfo, FALSE)
    /\ UNCHANGED <<client, chanprops, gameclient, leaving>>

cmd_part(c) == \E n \in Name : \E b \in find_chan(n) :
    /\ Ordinary(c) /\ channel[b].users[c].on
    /\ removeUser(c, b)
    /\ OnChannels

cmd_kick(c) == \E n \in Name, t \in Listed : \E b \in find_chan(n) :
    /\ Ordinary(c)
    /\ MayKick(channel[b], c, client[c].rights, t)
    /\ removeUser(t, b)
    /\ OnChannels

\* One letter of setModes; whatever becomes of it, the setter's own rank has
\* been corrected.  (A letter that lacks its parameter is left out: it ends
\* the command, or the process where the setter is not on the channel.)
ModeSet(c, ch) ==
    LET rights == client[c].rights
    IN {ch}
       \union {SetFlag(ch, c, rights, f, set) :
                  f \in Letter \intersect {"e", "m", "n", "i", "t", "k", "p", "s"}, set \in BOOLEAN}
       \union {SetLimit(ch, c, rights, v) :
                  v \in IF "l" \in Letter THEN LimitValue \union {0} ELSE {}}
       \union {SetUser(ch, c, rights, f, t, set) :
                  f \in Letter \intersect {"o", "v", "h", "O"}, t \in Listed, set \in BOOLEAN}

cmd_mode(c) == \E n \in Name : \E b \in find_chan(n) :
    /\ Ordinary(c)
    /\ \E ch \in ModeSet(c, Started(channel[b], c)) : channel' = [channel EXCEPT ![b] = ch]
    /\ OnChannels /\ UNCHANGED <<localmode, invite, older>>

\* An invitation to a channel that is not +i is only a message.
cmd_invite(c) == \E n \in Name, t \in Listed : \E b \in find_chan(n) :
    /\ Ordinary(c)
    /\ "i" \in channel[b].flags /\ channel[b].users[c].on /\ Ranked(channel[b].users[c])
    /\ addChannelInvite(t, b)
    /\ OnChannels /\ UNCHANGED <<channel, localmode>>

cmd_kill(c) == \E t \in Listed :
    /\ Ordinary(c) /\ "KILL" \in client[c].rights
    /\ leaving' = {t}
    /\ UNCHANGED objects

cmd_setrights(c) == \E t \in Listed, m \in Mask :
    /\ Ordinary(c) /\ "SERVMANAGE" \in client[c].rights
    /\ client' = [client EXCEPT ![t].rights = m]
    /\ UNCHANGED <<channel, staff, invite, older, leaving, revived>>

parseIncoming(c) ==
    \/ cmd_nick(c) \/ cmd_crypt(c) \/ cmd_quit(c)
    \/ cmd_join(c) \/ cmd_join_next(c) \/ cmd_fjoin(c) \/ cmd_part(c)
    \/ cmd_kick(c) \/ cmd_mode(c) \/ cmd_invite(c)
    \/ cmd_kill(c) \/ cmd_setrights(c)

-----------------------------------------------------------------------------
(* quitUser: off every channel, one by one, and then marked to be deleted. *)

quitOne(c) == \E b \in Block :
    /\ c \in leaving /\ channel[b].users[c].on
    /\ removeUser(c, b)
    /\ UNCHANGED <<client, chanprops, gameclient, todo, turn, lines, joining, leaving, revived>>

\* Fault: a client is freed as soon as it has quit.
QuitAtOnce(c) ==
    /\ c \in leaving /\ \A b \in Block : ~channel[b].users[c].on
    /\ client' = [client EXCEPT ![c] = Freed(client[c].host)]
    /\ leaving' = leaving \ {c}
    /\ UNCHANGED <<channel, staff, invite, older, todo, turn, lines, joining, revived>>

\* Fault: a client counts as gone once it is off one channel.
QuitAfterOne(c) ==
    /\ c \in leaving
    /\ client' = [client EXCEPT ![c].toquit = TRUE]
    /\ leaving' = leaving \ {c}
    /\ UNCHANGED <<channel, staff, invite, older, todo, turn, lines, joining, revived>>

quitDone(c) ==
    /\ c \in leaving /\ \A b \in Block : ~channel[b].users[c].on
    /\ client' = [client EXCEPT ![c].toquit = TRUE]
    /\ leaving' = leaving \ {c}
    /\ UNCHANGED <<channel, staff, invite, older, todo, turn, lines, joining, revived>>

-----------------------------------------------------------------------------
(* processClients: a copy of client_list, each client visited once.  The   *)
(* order of the list is not kept.                                          *)

Between == turn = NoSlot /\ leaving = {}
Waiting == Between /\ todo = {}

startPass ==
    /\ Waiting /\ Listed # {}
    /\ todo' = Listed
    /\ UNCHANGED <<objects, turn, lines, joining, leaving>>

\* checkPing; the visit goes on with mainLoop, which deletes the client.
pingTimeout(c) ==
    /\ Between /\ c \in todo
    /\ leaving' = {c} /\ turn' = c /\ lines' = 0
    /\ UNCHANGED <<objects, todo, joining>>

\* mainLoop of a client that has quit: deleteClient, and the destructor.
deleteClient(c) ==
    /\ c \in todo /\ client[c].toquit /\ leaving = {}
    /\ turn \in {NoSlot, c}
    /\ client' = [client EXCEPT ![c] = Freed(client[c].host)]
    /\ removeChannelInvite(InvitesOf(c))
    /\ todo' = todo \ {c} /\ turn' = NoSlot /\ lines' = 0
    /\ UNCHANGED <<channel, staff, joining, leaving, revived>>

\* Nothing to read, a failed recv, or no database: no line is executed.
notReadable(c) ==
    /\ Between /\ c \in todo /\ ~client[c].toquit
    /\ todo' = todo \ {c}
    /\ UNCHANGED <<objects, turn, lines, joining, leaving>>

\* recv() returned nothing: the peer has closed.
hungUp(c) ==
    /\ Between /\ c \in todo /\ ~client[c].toquit
    /\ todo' = todo \ {c} /\ leaving' = {c}
    /\ UNCHANGED <<objects, turn, lines, joining>>

startLines(c) ==
    /\ Between /\ c \in todo /\ ~client[c].toquit
    /\ todo' = todo \ {c} /\ turn' = c /\ lines' = MaxLines
    /\ UNCHANGED <<objects, joining, leaving>>

endLines(c) ==
    /\ turn = c /\ leaving = {} /\ c \notin todo
    /\ turn' = NoSlot /\ lines' = 0 /\ joining' = NoJoin
    /\ UNCHANGED <<objects, todo, leaving>>

\* The memory of a former client may come back, with what still points to it.
accept(c) == \E h \in Host :
    /\ Waiting /\ ~client[c].live
    /\ client' = [client EXCEPT ![c] = NewClient(h)]
    /\ revived' = IF numChans(c) = 0 THEN revived \ {c} ELSE revived
    /\ UNCHANGED <<channel, staff, invite, older, loop>>

-----------------------------------------------------------------------------
(* processQueue: what the database's triggers send.  Staff is free to set  *)
(* any properties and any rights.                                          *)

Replaced(n, new) == {p \in chanprops : ~SameName(p.mask, n)} \union new

SetChanProps(n, props, kickexisting) ==
    /\ Waiting
    /\ chanprops' = Replaced(n, {[mask |-> n, props |-> props]})
    /\ IF "z" \in props.flags /\ find_chan(n) = {}
       THEN \E b \in Block : /\ ~Live(channel[b])
                             /\ channel' = [channel EXCEPT ![b] =
                                   applyChanProps([NoChannel EXCEPT !.name = n], props)]
       ELSE channel' = [b \in Block |->
               IF b \notin find_chan(n) THEN channel[b]
               ELSE IF kickexisting THEN Cleared(channel[b])
               ELSE applyChanProps(channel[b], props)]
    /\ UNCHANGED <<client, gameclient, localmode, invite, older, revived, loop>>

\* The case has no break: an entry for the game id 0 is added to the games
\* that may join, for that is what the datagram reads as there.
DelChanProps(n, resetchan) ==
    /\ Waiting
    /\ chanprops' = Replaced(n, {})
    /\ gameclient' = gameclient \union {<<n, 0>>}
    /\ IF chanprops' = chanprops \/ find_chan(n) = {}
       THEN UNCHANGED <<channel, localmode, invite, older>>
       ELSE IF resetchan
       THEN \E b \in find_chan(n) : deleteChannel(b)
       ELSE /\ channel' = [b \in Block |-> IF b \in find_chan(n) THEN clearProps(channel[b])
                                                                 ELSE channel[b]]
            /\ UNCHANGED <<localmode, invite, older>>
    /\ UNCHANGED <<client, revived, loop>>

\* One entry is removed, and another one like it may be left on the list.
ChanClient(n, g) ==
    /\ Waiting
    /\ gameclient' \in {gameclient \union {<<n, g>>},
                        {e \in gameclient : ~(SameName(e[1], n) /\ e[2] = g)}}
    /\ UNCHANGED <<client, channel, chanprops, localmode, invite, older, revived, loop>>

\* The login of a connection, found by its socket, whoever has that now.
AuthClient(c, m) ==
    /\ Waiting /\ c \in Listed
    /\ client' = [client EXCEPT ![c] = [@ EXCEPT !.auth = TRUE, !.rights = m]]
    /\ UNCHANGED <<channel, staff, invite, older, revived, loop>>

\* addOper of a known operator and delOper: its sessions are ended.
resetByProfileID(S) ==
    /\ Waiting /\ S # {} /\ \A c \in S : client[c].live /\ client[c].auth
    /\ leaving' = S
    /\ UNCHANGED <<objects, todo, turn, lines, joining>>

-----------------------------------------------------------------------------
\* What is loaded from the database at the start is as if it came by messages
\* before the first client, but for DbMode.
Init ==
    /\ client \in [Slot -> {Freed(h) : h \in Host}]
    /\ channel = [b \in Block |-> NoChannel]
    /\ invite = [e \in Entry |-> NoInvite] /\ older = {}
    /\ localmode = {} /\ chanprops = {} /\ gameclient = {}
    /\ todo = {} /\ turn = NoSlot /\ lines = 0
    /\ joining = NoJoin /\ leaving = {} /\ revived = {}

processQueue ==
    \/ \E n \in Name, p \in PropSet, kick \in BOOLEAN : SetChanProps(n, p, kick)
    \/ PropSet # {} /\ \E n \in Name, reset \in BOOLEAN : DelChanProps(n, reset)
    \/ Game # {} /\ \E n \in Name, g \in GameId : ChanClient(n, g)
    \/ \E c \in Slot, m \in Mask : AuthClient(c, m)
    \/ \E S \in SUBSET Slot : resetByProfileID(S)

mainLoop(c) ==
    \/ pingTimeout(c) \/ deleteClient(c) \/ notReadable(c) \/ hungUp(c)
    \/ startLines(c) \/ parseIncoming(c) \/ endLines(c)
    \/ quitOne(c) \/ quitDone(c)

Next ==
    \/ startPass \/ processQueue
    \/ \E c \in Slot : accept(c) \/ mainLoop(c)

Spec == Init /\ [][Next]_vars

-----------------------------------------------------------------------------
(* Properties.                                                             *)

\* Every variable keeps its shape; a pass only ever visits clients that are
\* listed, whatever the clients visited before did to each other.
TypeOK ==
    /\ client \in [Slot -> ClientRec]
    /\ channel \in [Block -> ChannelRec]
    /\ invite \in [Entry -> InviteRec \union {NoInvite}]
    /\ older \subseteq Held \X Held
    /\ localmode \subseteq UserMode
    /\ chanprops \subseteq [mask : Name, props : PropRec]
    /\ gameclient \subseteq Name \X GameId
    /\ todo \subseteq Listed
    /\ turn \in Listed \union {NoSlot}
    /\ lines \in 0..MaxLines
    /\ joining \in JoinRec
    /\ leaving \subseteq Listed
    /\ revived \subseteq Slot

\* deleteClient takes nobody off the channels: a pointer to a freed client,
\* or to a later client in its place, is on a channel only if the client was
\* put there after it had quit, by a line behind its QUIT or by FJOIN, or was
\* FJOINed before its welcome, which was then refused.
OnlyTheRevivedLinger ==
    \A b \in Block, c \in Slot :
        channel[b].users[c].on => c \in revived \/ (client[c].live /\ ~client[c].toquit)

\* removeChannelInvite may leave one entry that it should have removed.  A
\* dangling entry (a client or channel that is gone) is the first of the list.
Dangling(e) == ~client[invite[e].client].live \/ ~Live(channel[invite[e].chan])

OnlyTheFirstDangles ==
    \A e \in Held : Dangling(e) => e \in Oldest(Held)

\* An empty channel that is not +z is left behind by staff only: neither a
\* client that leaves, is kicked or killed, nor one that is refused, keeps a
\* channel alive without users.
Deserted(ch) == Live(ch) /\ Emptied(ch)

ClientsDesertNothing ==
    [][~Waiting => \A b \in Block : Deserted(channel[b])' => Deserted(channel[b])]_vars

\* An owner is brought down, or off the channel, only by itself, by another
\* owner, by an operator with OPEROVERRIDE, by staff or by its own quitting;
\* ops and halfops cannot, by any series of MODE and KICK.
Owner(b, c) == channel[b].users[c].on /\ channel[b].users[c].owner

Overriding(c) == "OPEROVERRIDE" \in client[c].rights

OwnersStand ==
    [][\A b \in Block, c \in Slot :
          Owner(b, c) /\ ~Owner(b, c)' =>
             \/ Waiting \/ c \in leaving \/ c = turn
             \/ turn \in Slot /\ (Owner(b, turn) \/ Overriding(turn))]_vars

\* A user on a channel gains rank only by its own higher rank, by the hand of
\* somebody who has the rank to give it, by OPEROVERRIDE (where onlyowner does
\* not forbid it) or on a channel that makes everybody op.
MayRaise(ch, c, gainedOp, gainedHalfop) ==
    \/ ch.users[c].owner
    \/ ch.users[c].op /\ ~gainedOp
    \/ ch.users[c].halfop /\ ~gainedOp /\ ~gainedHalfop
    \/ Overriding(c) /\ ("onlyowner" \in ch.flags => ch.users[c].owner)
    \/ "a" \in ch.flags

RanksAreGiven ==
    [][\A b \in Block, c \in Slot :
          LET was == channel[b].users[c] is == channel'[b].users[c]
              gainedOp == (is.op /\ ~was.op) \/ (is.owner /\ ~was.owner)
              gainedHalfop == is.halfop /\ ~was.halfop
          IN was.on /\ is.on /\ (gainedOp \/ gainedHalfop \/ (is.voice /\ ~was.voice)) =>
                /\ turn \in Slot
                /\ \/ MayRaise(channel[b], turn, gainedOp, gainedHalfop)
                   \/ c = turn /\ was.op /\ ~gainedOp]_vars

\* Nobody gets on an existing +i channel without an invitation to it, a rank
\* or a mode I that user modes or rights give it there, or a channel that makes
\* everybody op -- but for what an earlier name of the same JOIN left behind.
DoorsAreKept ==
    [][\A b \in Block, c \in Slot :
          /\ Live(channel[b]) /\ "i" \in channel[b].flags
          /\ ~channel[b].users[c].on /\ channel'[b].users[c].on
          => \/ isUserInvited(c, b) \/ "a" \in channel[b].flags
             \/ getUserChannelModes(c, channel[b].name) \intersect {"I", "o", "O"} # {}
             \/ client[c].rights \intersect {"GETOPS", "GLOBALOWNER"} # {}
             \/ joining.on /\ Privileged(joining.info)]_vars

\* A client is on one channel more than MAX_CHANS_PER_USER at most, unless it
\* overrides: the test counts the channels before the one to be joined.
Overcrowds(c) == numChans(c) > MaxChans + 1

OneTooManyAtMost ==
    [][\A c \in Slot : Overcrowds(c)' => Overcrowds(c) \/ Overriding(c)]_vars

\* A channel is never private and secret at once.
PrivateOrSecret ==
    \A b \in Block : ~({"p", "s"} \subseteq channel[b].flags)

\* Two channels never answer to one name.
OneChannelPerName ==
    \A a, b \in Block : SameName(channel[a].name, channel[b].name) => a = b

\* structs.h:76: a user mode that is not global is temporary.  Where all names
\* are spelled alike, none outlives the channel it was made for.
LocalModesHaveChannels ==
    \A u \in localmode : find_chan(u.chan) # {}
=============================================================================
