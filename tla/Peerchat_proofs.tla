--------------------------- MODULE Peerchat_proofs ---------------------------
(***************************************************************************)
(* Proofs about the chat server, for any clients, channels, invitations,   *)
(* user modes, channel properties and bounds.                              *)
(*                                                                         *)
(* Invariants: the types, whom deleteClient may leave on a channel, that   *)
(* private and secret exclude each other, that a name finds one channel,   *)
(* what may dangle on invite_list, that local user modes end with their    *)
(* channel.  Steps: who can unseat an owner, raise a rank, get on a closed *)
(* channel or on too many, and who can leave a channel deserted.           *)
(*                                                                         *)
(* The properties of steps rest on one more invariant, Seated, and on      *)
(* three lemmas that say what a step does to the channels: ChannelSteps    *)
(* when clients act, StaffSteps when staff does, and StoreSteps for the    *)
(* lists beside the channels.                                              *)
(***************************************************************************)
EXTENDS Peerchat, FiniteSetTheorems, TLAPS

-----------------------------------------------------------------------------
(* Channel records.                                                        *)

\* The change of one user's entry.
LEMMA EntryType ==
    ASSUME NEW ch \in ChannelRec, NEW c \in Slot, NEW m \in Member
    PROVE  /\ [ch EXCEPT !.users = [@ EXCEPT ![c] = m]] \in ChannelRec
           /\ [ch EXCEPT !.users = [@ EXCEPT ![c] = m]].flags = ch.flags
           /\ [ch EXCEPT !.users = [@ EXCEPT ![c] = m]].name = ch.name
BY DEF ChannelRec

\* An entry read.
LEMMA EntryRead ==
    ASSUME NEW ch \in ChannelRec, NEW c \in Slot
    PROVE  ch.users[c] \in Member
BY DEF ChannelRec

LEMMA OffIsMember == Off \in Member /\ Empty \in [Slot -> Member] /\ NoChannel \in ChannelRec
BY DEF Off, Member, Empty, NoChannel, ChannelRec

\* removeUser and addUser on the user list: addUser is the channel's own.
LEMMA ListTypes ==
    ASSUME NEW ch \in ChannelRec, NEW c \in Slot, NEW m \in Member
    PROVE  /\ Without(ch, c) \in ChannelRec
           /\ Cleared(ch) \in ChannelRec
           /\ addUser(ch, c, m) \in ChannelRec
<1>1. Without(ch, c) \in ChannelRec
  BY EntryType, OffIsMember DEF Without
<1>2. Cleared(ch) \in ChannelRec
  BY OffIsMember DEF Cleared, ChannelRec
<1>3. [m EXCEPT !.on = TRUE] \in Member
  BY DEF Member
<1>4. addUser(ch, c, m) \in ChannelRec
  BY <1>3, EntryType DEF addUser
<1>5. QED
  BY <1>1, <1>2, <1>4

\* Channel properties.
LEMMA PropTypes ==
    ASSUME NEW ch \in ChannelRec, NEW props \in PropRec
    PROVE  applyChanProps(ch, props) \in ChannelRec /\ clearProps(ch) \in ChannelRec
BY DEF applyChanProps, clearProps, Settled, ChannelRec, PropRec

LEMMA StartedType ==
    ASSUME NEW ch \in ChannelRec, NEW c \in Slot
    PROVE  Started(ch, c) \in ChannelRec
<1>1. Corrected(ch.users[c]) \in Member
  BY EntryRead DEF Corrected, Member
<1>2. QED
  BY <1>1, EntryType DEF Started, SetRank

\* The letters of MODE.
LEMMA FlagTypes ==
    ASSUME NEW ch \in ChannelRec, NEW c \in Slot, NEW rights, NEW set \in BOOLEAN,
           NEW letter \in {"e", "m", "n", "i", "t", "k", "p", "s"}
    PROVE  SetFlag(ch, c, rights, letter, set) \in ChannelRec
<1>1. letter \in Flag
  BY DEF Flag
<1>2. Put(IF set THEN ch.flags \ Opposed(letter) ELSE ch.flags, letter, set) \in SUBSET Flag
  BY <1>1 DEF Put, ChannelRec
<1>3. QED
  BY <1>2 DEF SetFlag, ChannelRec

LEMMA LimitTypes ==
    ASSUME NEW ch \in ChannelRec, NEW c \in Slot, NEW rights, NEW v \in LimitValue \union {0}
    PROVE  SetLimit(ch, c, rights, v) \in ChannelRec
BY DEF SetLimit, ChannelRec

LEMMA RankTypes ==
    ASSUME NEW ch \in ChannelRec, NEW c \in Slot, NEW rights, NEW t \in Slot, NEW set \in BOOLEAN,
           NEW letter \in {"o", "v", "h", "O"}
    PROVE  SetUser(ch, c, rights, letter, t, set) \in ChannelRec
<1> DEFINE m == ch.users[t]
<1>0. m \in Member
  BY EntryRead
<1>1. SetOp(ch, c, rights, t, set) \in ChannelRec
  <2>1. [m EXCEPT !.owner = @ /\ set, !.op = set, !.halfop = set] \in Member
    BY <1>0 DEF Member
  <2>2. QED
    BY <2>1, EntryType DEF SetOp, SetRank
<1>2. SetVoice(ch, c, rights, t, set) \in ChannelRec
  <2>1. [m EXCEPT !.voice = set] \in Member
    BY <1>0 DEF Member
  <2>2. QED
    BY <2>1, EntryType DEF SetVoice, SetRank
<1>3. SetHalfop(ch, c, rights, t, set) \in ChannelRec
  <2>1. [m EXCEPT !.halfop = set] \in Member
    BY <1>0 DEF Member
  <2>2. QED
    BY <2>1, EntryType DEF SetHalfop, SetRank
<1>4. SetOwner(ch, c, rights, t, set) \in ChannelRec
  <2>1. [m EXCEPT !.owner = set, !.op = set, !.halfop = set] \in Member
    BY <1>0 DEF Member
  <2>2. QED
    BY <2>1, EntryType DEF SetOwner, SetRank
<1>5. QED
  BY <1>1, <1>2, <1>3, <1>4 DEF SetUser

\* Whatever a line of MODE does.
LEMMA ModeTypes ==
    ASSUME NEW ch \in ChannelRec, NEW c \in Slot
    PROVE  ModeSet(c, ch) \subseteq ChannelRec
BY FlagTypes, LimitTypes, RankTypes DEF ModeSet, Listed

-----------------------------------------------------------------------------
(* The parts of joinChan.                                                  *)

\* userInfo on its way through joinChan.
LEMMA InfoTypes ==
    ASSUME NEW info \in Info, NEW c, NEW n, NEW x, NEW b, NEW ch
    PROVE  /\ Entitled(c, n, info) \in Info
           /\ Asked(c, n, x, info) \in Info
           /\ Welcomed(c, b, ch, info) \in Info
           /\ AsMember(info) \in Member
           /\ NoInfo \in Info
<1>1. Entitled(c, n, info) \in Info
  BY DEF Entitled, Info
<1>2. Asked(c, n, x, info) \in Info
  <2> DEFINE in == [info EXCEPT !.invited = @ \/ "I" \in getUserChannelModes(c, n)]
  <2>1. in \in Info
    BY DEF Info
  <2>2. [in EXCEPT !.invisible = "INVISIBLE" \in client[c].rights] \in Info
    <3> HIDE DEF in
    <3>1. \A v \in BOOLEAN : [in EXCEPT !.invisible = v] \in Info
      BY <2>1 DEF Info
    <3>2. ("INVISIBLE" \in client[c].rights) \in BOOLEAN
      OBVIOUS
    <3>3. QED
      BY <3>1, <3>2, Zenon
  <2>3. [in EXCEPT !.voice = FALSE, !.halfop = FALSE, !.op = FALSE, !.owner = FALSE] \in Info
    BY <2>1 DEF Info
  <2>4. QED
    BY <2>1, <2>2, <2>3 DEF Asked
<1>3. Welcomed(c, b, ch, info) \in Info
  BY DEF Welcomed, Info
<1>4. AsMember(info) \in Member /\ NoInfo \in Info
  BY DEF AsMember, Member, Info, NoInfo
<1>5. QED
  BY <1>1, <1>2, <1>3, <1>4

\* A new channel, under its properties or none.
LEMMA OpenedTypes ==
    ASSUME TypeOK, NEW n \in Name, NEW ch \in Opened(n)
    PROVE  ch \in ChannelRec /\ ch.name = n /\ On(ch) = {}
<1> DEFINE new == [NoChannel EXCEPT !.name = n]
<1>1. new \in ChannelRec /\ new.name = n /\ new.users = Empty
  BY OffIsMember DEF NoChannel, ChannelRec
<1>2. ASSUME NEW p \in chanprops
      PROVE  /\ applyChanProps(new, p.props) \in ChannelRec
             /\ applyChanProps(new, p.props).name = n
             /\ applyChanProps(new, p.props).users = Empty
  <2>1. p.props \in PropRec
    BY DEF TypeOK
  <2>2. QED
    BY <1>1, <2>1, PropTypes DEF applyChanProps, ChannelRec
<1>3. ch \in ChannelRec /\ ch.name = n /\ ch.users = Empty
  BY <1>1, <1>2 DEF Opened
<1>4. QED
  BY <1>3 DEF On, Empty, Off

\* applyUserMode gives the op's rank; nobody gets on or off by it.
LEMMA AppliedTypes ==
    ASSUME NEW ch \in ChannelRec, NEW h
    PROVE  /\ Applied(ch, h) \in ChannelRec
           /\ Applied(ch, h).name = ch.name /\ Applied(ch, h).flags = ch.flags
           /\ \A c \in Slot : Applied(ch, h).users[c].on <=> ch.users[c].on
<1>1. CASE "a" \notin ch.flags
  BY <1>1 DEF Applied
<1>2. CASE "a" \in ch.flags
  <2> DEFINE users == [c \in Slot |->
                 IF ch.users[c].on /\ client[c].host = h THEN [ch.users[c] EXCEPT !.op = TRUE]
                                                         ELSE ch.users[c]]
  <2>1. Applied(ch, h) = [ch EXCEPT !.users = users]
    BY <1>2 DEF Applied
  <2>2. ASSUME NEW c \in Slot
        PROVE  users[c] \in Member /\ (users[c].on <=> ch.users[c].on)
    <3>1. ch.users[c] \in Member
      BY EntryRead
    <3>2. [ch.users[c] EXCEPT !.op = TRUE] \in Member
          /\ [ch.users[c] EXCEPT !.op = TRUE].on = ch.users[c].on
      BY <3>1 DEF Member
    <3>3. QED
      BY <3>1, <3>2
  <2>3. users \in [Slot -> Member]
    BY <2>2
  <2> HIDE DEF users
  <2>4. QED
    BY <2>1, <2>2, <2>3 DEF ChannelRec
<1>3. QED
  BY <1>1, <1>2

LEMMA NotedTypes ==
    ASSUME TypeOK, NEW c \in Slot, NEW b, NEW n \in Name, NEW ch
    PROVE  Noted(c, b, n, ch) \subseteq UserMode
<1>1. client[c].host \in Host
  BY DEF TypeOK, ClientRec
<1>2. [host |-> client[c].host, chan |-> n, flag |-> "O"] \in UserMode
      /\ [host |-> client[c].host, chan |-> n, flag |-> "o"] \in UserMode
  BY <1>1 DEF UserMode, Granted
<1>3. QED
  BY <1>2 DEF Noted, TypeOK

-----------------------------------------------------------------------------
(* The steps that actions share.  Store is the part of the type invariant  *)
(* that removeUser, deleteChannel and joinChan are about.                  *)

Store ==
    /\ channel \in [Block -> ChannelRec]
    /\ invite \in [Entry -> InviteRec \union {NoInvite}]
    /\ older \subseteq Held \X Held
    /\ localmode \subseteq UserMode

LEMMA InviteKept ==
    ASSUME TypeOK, NEW gone, removeChannelInvite(gone)
    PROVE  /\ invite' \in [Entry -> InviteRec \union {NoInvite}]
           /\ older' \subseteq Held' \X Held'
<1>1. Spared(gone) \subseteq Held
  BY DEF Spared, Oldest
<1>2. invite' \in [Entry -> InviteRec \union {NoInvite}]
  BY <1>1 DEF removeChannelInvite, TypeOK
<1>3. ASSUME NEW e \in Spared(gone)
      PROVE  e \in Held'
  BY <1>1, <1>3 DEF removeChannelInvite, Held
<1>4. QED
  BY <1>2, <1>3 DEF removeChannelInvite

LEMMA DeleteKept ==
    ASSUME TypeOK, NEW b \in Block, deleteChannel(b)
    PROVE  Store'
<1>1. channel' \in [Block -> ChannelRec]
  BY OffIsMember DEF deleteChannel, TypeOK
<1>2. localmode' \subseteq UserMode
  BY DEF deleteChannel, clearnonGlobalModes, TypeOK
<1>3. QED
  BY <1>1, <1>2, InviteKept DEF deleteChannel, Store

LEMMA RemoveKept ==
    ASSUME TypeOK, NEW b \in Block, NEW c \in Slot, removeUser(c, b)
    PROVE  Store'
<1>1. CASE deleteChannel(b)
  BY <1>1, DeleteKept
<1>2. CASE /\ channel' = [channel EXCEPT ![b] = Without(channel[b], c)]
           /\ UNCHANGED <<localmode, invite, older>>
  <2>1. Without(channel[b], c) \in ChannelRec
    BY ListTypes, OffIsMember DEF TypeOK
  <2>2. QED
    BY <1>2, <2>1 DEF Store, TypeOK, Held
<1>3. QED
  BY <1>1, <1>2 DEF removeUser

LEMMA JoinKept ==
    ASSUME TypeOK, NEW c \in Slot, NEW n \in Name, NEW x \in Extra, NEW info \in Info,
           NEW listed \in BOOLEAN, joinChan(c, n, x, info, listed)
    PROVE  Store' /\ joining' \in JoinRec /\ revived' \subseteq Slot
<1> DEFINE own == Entitled(c, n, info)
<1>1. own \in Info
  BY InfoTypes
<1>2. NoJoin \in JoinRec
  BY InfoTypes, PeerchatAssumption DEF NoJoin, JoinRec
<1> HIDE DEF own
<1>3. CASE Barred(c, n, own)
  <2>1. Keep(listed, x, own) /\ UNCHANGED <<channel, localmode, invite, older, revived>>
    BY <1>3 DEF joinChan, own
  <2>2. QED
    BY <1>1, <1>2, <2>1 DEF Keep, JoinRec, Store, TypeOK, Held
<1>4. ASSUME NEW b \in Room(n),
             NEW ch \in (IF Live(channel[b]) THEN {channel[b]} ELSE Opened(n)),
             NEW in, in = Welcomed(c, b, ch, Asked(c, n, x, own)),
             Keep(listed, x, in),
             IF Admits(c, x, ch, in) THEN Admit(c, b, n, ch, in) ELSE Refuse(c, b, n, ch)
      PROVE  Store' /\ joining' \in JoinRec /\ revived' \subseteq Slot
  <2>1. b \in Block
    BY DEF Room, find_chan
  <2>2. ch \in ChannelRec
    BY <2>1, OpenedTypes DEF TypeOK
  <2>3. in \in Info
    BY <1>1, <1>4, InfoTypes
  <2>4. joining' \in JoinRec
    BY <1>2, <1>4, <2>3 DEF Keep, JoinRec
  <2> DEFINE now == Applied(ch, client[c].host)
  <2>5. now \in ChannelRec
    BY <2>2, AppliedTypes
  <2>6. Noted(c, b, n, ch) \subseteq UserMode
    BY NotedTypes
  <2> HIDE DEF now
  <2>7. CASE Refuse(c, b, n, ch)
    <3>1. revived' \subseteq Slot
      BY <2>7 DEF Refuse, TypeOK
    <3>2. CASE Live(channel[b])
      BY <2>1, <2>4, <2>5, <2>6, <2>7, <3>1, <3>2 DEF Refuse, Store, TypeOK, Held, now
    <3>3. CASE ~Live(channel[b])
      <4>1. localmode' \subseteq UserMode
        BY <2>6, <2>7, <3>3 DEF Refuse, clearnonGlobalModes
      <4>2. removeChannelInvite(InvitesTo(b)) /\ UNCHANGED channel
        BY <2>7, <3>3 DEF Refuse
      <4>3. QED
        BY <2>4, <3>1, <4>1, <4>2, InviteKept DEF Store, TypeOK
    <3>4. QED
      BY <3>2, <3>3
  <2>8. CASE Admit(c, b, n, ch, in)
    <3>1. revived' \subseteq Slot /\ localmode' \subseteq UserMode
      BY <2>6, <2>8 DEF Admit, TypeOK
    <3>2. CASE ch.users[c].on
      BY <2>1, <2>4, <2>5, <2>8, <3>1, <3>2 DEF Admit, Store, TypeOK, Held, now
    <3>3. CASE ~ch.users[c].on
      <4>1. AsMember(in) \in Member
        BY <2>3, InfoTypes
      <4>2. addUser(now, c, AsMember(in)) \in ChannelRec
        BY <2>5, <4>1, ListTypes
      <4>3. /\ channel' = [channel EXCEPT ![b] = addUser(now, c, AsMember(in))]
            /\ removeChannelInvite(InvitesOf(c) \intersect InvitesTo(b))
        BY <2>8, <3>3 DEF Admit, now
      <4>4. channel' \in [Block -> ChannelRec]
        BY <2>1, <4>2, <4>3 DEF TypeOK
      <4>5. QED
        BY <2>4, <3>1, <4>3, <4>4, InviteKept DEF Store
    <3>4. QED
      BY <3>2, <3>3
  <2>9. QED
    BY <1>4, <2>7, <2>8
<1>5. QED
  BY <1>3, <1>4 DEF joinChan, own

-----------------------------------------------------------------------------
(* The type invariant: one lemma per group of actions.                     *)

Rest ==
    /\ client \in [Slot -> ClientRec]
    /\ chanprops \subseteq [mask : Name, props : PropRec]
    /\ gameclient \subseteq Name \X GameId
    /\ todo \subseteq Listed
    /\ turn \in Listed \union {NoSlot}
    /\ lines \in 0..MaxLines
    /\ joining \in JoinRec
    /\ leaving \subseteq Listed
    /\ revived \subseteq Slot

LEMMA Parts ==
    /\ TypeOK <=> Store /\ Rest
    /\ TypeOK' <=> Store' /\ Rest'
BY DEF TypeOK, Store, Rest

LEMMA NoJoinType == NoJoin \in JoinRec
BY InfoTypes, PeerchatAssumption DEF NoJoin, JoinRec, NoInfo, Info

LEMMA StoreStays ==
    ASSUME Store, UNCHANGED <<channel, invite, older, localmode>>
    PROVE  Store'
BY DEF Store, Held

\* A change of one client that leaves it listed.
LEMMA ClientChanged ==
    ASSUME TypeOK, NEW c \in Slot, NEW new \in ClientRec, new.live = client[c].live,
           client' = [client EXCEPT ![c] = new]
    PROVE  client' \in [Slot -> ClientRec] /\ Listed' = Listed
BY DEF TypeOK, Listed

\* One line less, for the client whose turn it is.
LEMMA LineKept ==
    ASSUME TypeOK, NEW c \in Slot, Line(c)
    PROVE  lines' \in 0..MaxLines /\ todo' = todo /\ turn' = turn /\ c \in Listed
<1>1. lines \in 0..MaxLines /\ lines > 0 /\ lines' = lines - 1 /\ MaxLines \in Nat
  BY PeerchatAssumption DEF Line, TypeOK
<1>2. lines' \in 0..MaxLines
  BY <1>1
<1>3. c = turn
  BY DEF Line
<1>4. QED
  BY <1>2, <1>3, PeerchatAssumption DEF Line, TypeOK

LEMMA SessionTypes ==
    ASSUME TypeOK, NEW c \in Slot,
           cmd_nick(c) \/ cmd_crypt(c) \/ cmd_quit(c) \/ cmd_kill(c) \/ cmd_setrights(c)
    PROVE  TypeOK'
<1>0. c \in Listed /\ lines' \in 0..MaxLines /\ todo' = todo /\ turn' = turn /\ joining' = NoJoin
  BY LineKept DEF cmd_nick, cmd_crypt, cmd_quit, cmd_kill, cmd_setrights, Ordinary, Command
<1>1. Store' /\ UNCHANGED <<chanprops, gameclient>>
  <2>1. UNCHANGED <<channel, invite, older, localmode, chanprops, gameclient>>
    BY DEF cmd_nick, cmd_crypt, cmd_quit, cmd_kill, cmd_setrights, staff, objects
  <2>2. QED
    BY <2>1, Parts, StoreStays
<1>2. client[c] \in ClientRec
  BY DEF TypeOK
<1>3. client' \in [Slot -> ClientRec] /\ Listed' = Listed /\ leaving' \subseteq Listed
      /\ revived' \subseteq Slot
  <2>1. CASE cmd_nick(c)
    <3>1. PICK new \in Named(c) :
                /\ client' = [client EXCEPT ![c] = new]
                /\ revived' = IF new.toquit /\ ~client[c].toquit /\ numChans(c) # 0
                              THEN revived \union {c} ELSE revived
      BY <2>1 DEF cmd_nick
    <3>2. new \in ClientRec /\ new.live = client[c].live
      BY <1>2 DEF Named, ClientRec
    <3>3. leaving' \subseteq Listed
      BY <2>1 DEF cmd_nick
    <3>4. QED
      BY <3>1, <3>2, <3>3, ClientChanged DEF TypeOK
  <2>2. CASE cmd_crypt(c)
    <3>1. PICK g \in Game : client' = [client EXCEPT ![c].gameid = g]
      BY <2>2 DEF cmd_crypt
    <3>2. [client[c] EXCEPT !.gameid = g] \in ClientRec
          /\ [client[c] EXCEPT !.gameid = g].live = client[c].live
      BY <1>2 DEF ClientRec
    <3>3. client' = [client EXCEPT ![c] = [client[c] EXCEPT !.gameid = g]]
      BY <3>1 DEF TypeOK
    <3>4. QED
      BY <2>2, <3>2, <3>3, ClientChanged DEF TypeOK, cmd_crypt
  <2>3. CASE cmd_quit(c)
    BY <1>0, <2>3 DEF cmd_quit, objects, TypeOK, Listed
  <2>4. CASE cmd_kill(c)
    BY <2>4 DEF cmd_kill, objects, TypeOK, Listed
  <2>5. CASE cmd_setrights(c)
    <3>1. PICK t \in Listed, m \in Mask : client' = [client EXCEPT ![t].rights = m]
      BY <2>5 DEF cmd_setrights
    <3>2. t \in Slot /\ client[t] \in ClientRec /\ m \in SUBSET Right
      BY PeerchatAssumption DEF Listed, TypeOK
    <3>3. [client[t] EXCEPT !.rights = m] \in ClientRec
          /\ [client[t] EXCEPT !.rights = m].live = client[t].live
      BY <3>2 DEF ClientRec
    <3>4. client' = [client EXCEPT ![t] = [client[t] EXCEPT !.rights = m]]
      BY <3>1 DEF TypeOK
    <3>5. QED
      BY <2>5, <3>2, <3>3, <3>4, ClientChanged DEF TypeOK, cmd_setrights
  <2>6. QED
    BY <2>1, <2>2, <2>3, <2>4, <2>5
<1>4. QED
  BY <1>0, <1>1, <1>3, NoJoinType, Parts DEF Rest

\* What the commands on channels leave alone.
LEMMA OnChannelsTypes ==
    ASSUME TypeOK, NEW c \in Slot, Ordinary(c), OnChannels, Store'
    PROVE  TypeOK'
<1>1. lines' \in 0..MaxLines /\ todo' = todo /\ turn' = turn /\ joining' = NoJoin
  BY LineKept DEF Ordinary, Command
<1>2. Listed' = Listed /\ UNCHANGED <<client, chanprops, gameclient, leaving, revived>>
  BY DEF OnChannels, Listed
<1>3. QED
  BY <1>1, <1>2, NoJoinType, Parts DEF Rest

LEMMA JoinTypes ==
    ASSUME TypeOK, NEW c \in Slot, cmd_join(c) \/ cmd_join_next(c) \/ cmd_fjoin(c)
    PROVE  TypeOK'
<1>1. PICK t \in Slot, n \in Name, x \in Extra, info \in Info, listed \in BOOLEAN :
          joinChan(t, n, x, info, listed)
  <2>0. NoInfo \in Info /\ "none" \in Extra
    BY PeerchatAssumption DEF NoInfo, Info
  <2>1. CASE cmd_join(c)
    BY <2>0, <2>1 DEF cmd_join
  <2>2. CASE cmd_join_next(c)
    <3>1. joining.extra \in Extra /\ joining.info \in Info
      BY DEF TypeOK, JoinRec
    <3>2. QED
      BY <2>2, <3>1 DEF cmd_join_next
  <2>3. CASE cmd_fjoin(c)
    <3>1. PICK t \in Listed, n \in Name : joinChan(t, n, "none", NoInfo, FALSE)
      BY <2>3 DEF cmd_fjoin
    <3>2. QED
      BY <2>0, <3>1 DEF Listed
  <2>4. QED
    BY <2>1, <2>2, <2>3
<1>2. Store' /\ joining' \in JoinRec /\ revived' \subseteq Slot
  BY <1>1, JoinKept
<1>3. lines' \in 0..MaxLines /\ todo' = todo /\ turn' = turn
  BY LineKept DEF cmd_join, cmd_join_next, cmd_fjoin, Command
<1>4. UNCHANGED <<client, chanprops, gameclient, leaving>> /\ Listed' = Listed
  BY DEF cmd_join, cmd_join_next, cmd_fjoin, Listed
<1>5. QED
  BY <1>2, <1>3, <1>4, Parts DEF Rest

LEMMA ChannelTypes ==
    ASSUME TypeOK, NEW c \in Slot,
           cmd_part(c) \/ cmd_kick(c) \/ cmd_mode(c) \/ cmd_invite(c)
    PROVE  TypeOK'
<1>1. Ordinary(c) /\ OnChannels
  BY DEF cmd_part, cmd_kick, cmd_mode, cmd_invite
<1>2. Store'
  <2>1. CASE cmd_part(c)
    BY <2>1, RemoveKept DEF cmd_part, find_chan
  <2>2. CASE cmd_kick(c)
    BY <2>2, RemoveKept DEF cmd_kick, find_chan, Listed
  <2>3. CASE cmd_mode(c)
    <3>1. PICK b \in Block : \E ch \in ModeSet(c, Started(channel[b], c)) :
              channel' = [channel EXCEPT ![b] = ch]
      BY <2>3 DEF cmd_mode, find_chan
    <3>2. ModeSet(c, Started(channel[b], c)) \subseteq ChannelRec
      BY StartedType, ModeTypes DEF TypeOK
    <3>3. channel' \in [Block -> ChannelRec]
      BY <3>1, <3>2 DEF TypeOK
    <3>4. QED
      BY <2>3, <3>3 DEF cmd_mode, Store, TypeOK, Held
  <2>4. CASE cmd_invite(c)
    <3>1. PICK t \in Slot, b \in Block : addChannelInvite(t, b)
      BY <2>4 DEF cmd_invite, find_chan, Listed
    <3>2. PICK e \in Entry \ Held :
              /\ invite' = [invite EXCEPT ![e] = [client |-> t, chan |-> b]]
              /\ older' = older \union (Held \X {e})
      BY <3>1 DEF addChannelInvite
    <3>3. [client |-> t, chan |-> b] \in InviteRec
      BY DEF InviteRec
    <3>4. [client |-> t, chan |-> b] # NoInvite
      BY PeerchatAssumption DEF NoInvite
    <3>5. invite' \in [Entry -> InviteRec \union {NoInvite}]
      BY <3>2, <3>3 DEF TypeOK
    <3>6. Held' = Held \union {e}
      BY <3>2, <3>4 DEF Held, TypeOK
    <3>7. older' \subseteq Held' \X Held'
      BY <3>2, <3>6 DEF TypeOK
    <3>8. QED
      BY <2>4, <3>5, <3>7 DEF cmd_invite, Store, TypeOK
  <2>5. QED
    BY <2>1, <2>2, <2>3, <2>4
<1>3. QED
  BY <1>1, <1>2, OnChannelsTypes

LEMMA QuitTypes ==
    ASSUME TypeOK, NEW c \in Slot, quitOne(c) \/ quitDone(c)
    PROVE  TypeOK'
<1>1. CASE quitOne(c)
  <2>1. PICK b \in Block : removeUser(c, b)
    BY <1>1 DEF quitOne
  <2>2. Store'
    BY <2>1, RemoveKept
  <2>3. UNCHANGED <<client, chanprops, gameclient, todo, turn, lines, joining, leaving, revived>>
    BY <1>1 DEF quitOne
  <2>4. Listed' = Listed
    BY <2>3 DEF Listed
  <2>5. QED
    BY <2>2, <2>3, <2>4, Parts DEF Rest
<1>2. CASE quitDone(c)
  <2>1. [client[c] EXCEPT !.toquit = TRUE] \in ClientRec
        /\ [client[c] EXCEPT !.toquit = TRUE].live = client[c].live
    BY DEF TypeOK, ClientRec
  <2>2. client' = [client EXCEPT ![c] = [client[c] EXCEPT !.toquit = TRUE]]
    BY <1>2 DEF quitDone, TypeOK
  <2>3. client' \in [Slot -> ClientRec] /\ Listed' = Listed
    BY <2>1, <2>2, ClientChanged
  <2>4. Store'
    BY <1>2, Parts, StoreStays DEF quitDone, staff
  <2>5. leaving' = leaving \ {c}
        /\ UNCHANGED <<chanprops, gameclient, todo, turn, lines, joining, revived>>
    BY <1>2 DEF quitDone, staff
  <2>6. QED
    BY <2>3, <2>4, <2>5, Parts DEF Rest
<1>3. QED
  BY <1>1, <1>2

\* The pass over client_list, but for what deletes a client or runs its lines.
LEMMA PassTypes ==
    ASSUME TypeOK,
           \/ startPass
           \/ \E c \in Slot : pingTimeout(c) \/ notReadable(c) \/ hungUp(c)
                                \/ startLines(c) \/ endLines(c)
           \/ \E S \in SUBSET Slot : resetByProfileID(S)
    PROVE  TypeOK'
<1>1. UNCHANGED objects
  BY DEF startPass, pingTimeout, notReadable, hungUp, startLines, endLines, resetByProfileID
<1>2. Store' /\ Listed' = Listed
  BY <1>1, Parts, StoreStays DEF objects, Listed
<1>3. todo' \subseteq Listed /\ leaving' \subseteq Listed
  BY DEF startPass, pingTimeout, notReadable, hungUp, startLines, endLines, resetByProfileID,
         TypeOK, Listed
<1>4. turn' \in Listed \union {NoSlot}
  BY DEF startPass, pingTimeout, notReadable, hungUp, startLines, endLines, resetByProfileID, TypeOK
<1>5. lines' \in 0..MaxLines
  BY PeerchatAssumption
     DEF startPass, pingTimeout, notReadable, hungUp, startLines, endLines, resetByProfileID, TypeOK
<1>6. joining' \in JoinRec
  BY NoJoinType
     DEF startPass, pingTimeout, notReadable, hungUp, startLines, endLines, resetByProfileID, TypeOK
<1>7. QED
  BY <1>1, <1>2, <1>3, <1>4, <1>5, <1>6, Parts DEF Rest, objects

LEMMA ConstructedTypes ==
    ASSUME NEW h \in Host
    PROVE  /\ NewClient(h) \in ClientRec /\ NewClient(h).live
           /\ Freed(h) \in ClientRec /\ ~Freed(h).live
BY DEF NewClient, Freed, ClientRec

LEMMA DeletionTypes ==
    ASSUME TypeOK, NEW c \in Slot, deleteClient(c)
    PROVE  TypeOK'
<1>1. Freed(client[c].host) \in ClientRec /\ ~Freed(client[c].host).live
  BY ConstructedTypes DEF TypeOK, ClientRec
<1>2. client' = [client EXCEPT ![c] = Freed(client[c].host)]
  BY DEF deleteClient
<1>3. client' \in [Slot -> ClientRec] /\ Listed' = Listed \ {c}
  BY <1>1, <1>2 DEF TypeOK, Listed
<1>4. Store'
  BY InviteKept DEF deleteClient, staff, Store, TypeOK
<1>5. /\ todo' = todo \ {c} /\ turn' = NoSlot /\ lines' = 0 /\ leaving' = {}
      /\ UNCHANGED <<chanprops, gameclient, joining, revived>>
  BY DEF deleteClient, staff
<1>6. 0 \in 0..MaxLines
  BY PeerchatAssumption
<1>7. QED
  BY <1>3, <1>4, <1>5, <1>6, Parts DEF Rest

LEMMA AcceptTypes ==
    ASSUME TypeOK, NEW c \in Slot, accept(c)
    PROVE  TypeOK'
<1>1. PICK h \in Host : client' = [client EXCEPT ![c] = NewClient(h)]
  BY DEF accept
<1>2. client' \in [Slot -> ClientRec] /\ Listed' = Listed \union {c}
  BY <1>1, ConstructedTypes DEF TypeOK, Listed
<1>3. Store'
  BY Parts, StoreStays DEF accept, staff
<1>4. UNCHANGED <<chanprops, gameclient, todo, turn, lines, joining, leaving>>
      /\ revived' \subseteq Slot
  BY DEF accept, staff, loop, TypeOK
<1>5. QED
  BY <1>2, <1>3, <1>4, Parts DEF Rest

\* What messages leave alone of the loop.
LEMMA MessageTypes ==
    ASSUME TypeOK, Store', client' \in [Slot -> ClientRec], Listed' = Listed,
           chanprops' \subseteq [mask : Name, props : PropRec],
           gameclient' \subseteq Name \X GameId,
           UNCHANGED <<revived, loop>>
    PROVE  TypeOK'
BY Parts DEF Rest, loop

LEMMA SetPropsTypes ==
    ASSUME TypeOK, NEW n \in Name, NEW p \in PropSet, NEW kick \in BOOLEAN,
           SetChanProps(n, p, kick)
    PROVE  TypeOK'
<1>1. p \in PropRec
  BY PeerchatAssumption
<1>2. chanprops' \subseteq [mask : Name, props : PropRec]
  BY <1>1 DEF SetChanProps, Replaced, TypeOK
<1>3. [NoChannel EXCEPT !.name = n] \in ChannelRec
  BY OffIsMember DEF NoChannel, ChannelRec
<1>4. channel' \in [Block -> ChannelRec]
  <2>1. CASE "z" \in p.flags /\ find_chan(n) = {}
    <3>1. applyChanProps([NoChannel EXCEPT !.name = n], p) \in ChannelRec
      BY <1>1, <1>3, PropTypes
    <3>2. QED
      BY <2>1, <3>1 DEF SetChanProps, TypeOK
  <2>2. CASE ~("z" \in p.flags /\ find_chan(n) = {})
    <3>1. channel' = [b \in Block |->
               IF b \notin find_chan(n) THEN channel[b]
               ELSE IF kick THEN Cleared(channel[b])
               ELSE applyChanProps(channel[b], p)]
      BY <2>2 DEF SetChanProps
    <3>2. ASSUME NEW b \in Block
          PROVE  channel'[b] \in ChannelRec
      <4>1. channel[b] \in ChannelRec
        BY DEF TypeOK
      <4>2. Cleared(channel[b]) \in ChannelRec
        BY <4>1, OffIsMember DEF Cleared, ChannelRec
      <4>3. applyChanProps(channel[b], p) \in ChannelRec
        BY <1>1, <4>1, PropTypes
      <4>4. QED
        BY <3>1, <4>1, <4>2, <4>3
    <3>3. QED
      BY <3>1, <3>2
  <2>3. QED
    BY <2>1, <2>2
<1>5. Store'
  BY <1>4 DEF SetChanProps, Store, TypeOK, Held
<1>6. QED
  BY <1>2, <1>5, MessageTypes DEF SetChanProps, TypeOK, Listed

LEMMA DelPropsTypes ==
    ASSUME TypeOK, NEW n \in Name, NEW reset \in BOOLEAN, DelChanProps(n, reset)
    PROVE  TypeOK'
<1>1. chanprops' \subseteq [mask : Name, props : PropRec]
  BY DEF DelChanProps, Replaced, TypeOK
<1>2. gameclient' \subseteq Name \X GameId
  BY DEF DelChanProps, TypeOK, GameId
<1>3. Store'
  <2>1. CASE UNCHANGED <<channel, localmode, invite, older>>
    BY <2>1, Parts, StoreStays
  <2>2. CASE \E b \in find_chan(n) : deleteChannel(b)
    BY <2>2, DeleteKept DEF find_chan
  <2>3. CASE /\ channel' = [b \in Block |-> IF b \in find_chan(n) THEN clearProps(channel[b])
                                                                 ELSE channel[b]]
             /\ UNCHANGED <<localmode, invite, older>>
    <3>1. ASSUME NEW b \in Block
          PROVE  clearProps(channel[b]) \in ChannelRec /\ channel[b] \in ChannelRec
      BY DEF clearProps, TypeOK, ChannelRec
    <3>2. channel' \in [Block -> ChannelRec]
      BY <2>3, <3>1
    <3>3. QED
      BY <2>3, <3>2 DEF Store, TypeOK, Held
  <2>4. QED
    BY <2>1, <2>2, <2>3 DEF DelChanProps
<1>4. QED
  BY <1>1, <1>2, <1>3, MessageTypes DEF DelChanProps, TypeOK, Listed

LEMMA AuthTypes ==
    ASSUME TypeOK, NEW c \in Slot, NEW m \in Mask, AuthClient(c, m)
    PROVE  TypeOK'
<1>0. client[c] \in ClientRec /\ m \in SUBSET Right
  BY PeerchatAssumption DEF TypeOK
<1>1. [client[c] EXCEPT !.auth = TRUE, !.rights = m] \in ClientRec
      /\ [client[c] EXCEPT !.auth = TRUE, !.rights = m].live = client[c].live
  BY <1>0 DEF ClientRec
<1>2. client' = [client EXCEPT ![c] = [client[c] EXCEPT !.auth = TRUE, !.rights = m]]
  BY DEF AuthClient, TypeOK
<1>3. client' \in [Slot -> ClientRec] /\ Listed' = Listed
  BY <1>1, <1>2, ClientChanged
<1>4. Store'
  BY Parts, StoreStays DEF AuthClient, staff
<1>5. QED
  BY <1>3, <1>4, MessageTypes DEF AuthClient, staff, TypeOK

LEMMA GamesTypes ==
    ASSUME TypeOK, NEW n \in Name, NEW g \in GameId, ChanClient(n, g)
    PROVE  TypeOK'
<1>1. gameclient' \subseteq Name \X GameId
  BY DEF ChanClient, TypeOK
<1>2. Store'
  BY Parts, StoreStays DEF ChanClient
<1>3. QED
  BY <1>1, <1>2, MessageTypes DEF ChanClient, TypeOK, Listed

LEMMA TypeInit == Init => TypeOK
<1> SUFFICES ASSUME Init PROVE TypeOK
  OBVIOUS
<1>1. client \in [Slot -> ClientRec]
  BY ConstructedTypes DEF Init
<1>2. channel \in [Block -> ChannelRec] /\ invite \in [Entry -> InviteRec \union {NoInvite}]
  BY OffIsMember DEF Init
<1>3. QED
  BY <1>1, <1>2, NoJoinType, PeerchatAssumption DEF Init, TypeOK

LEMMA TypeStep == TypeOK /\ [Next]_vars => TypeOK'
<1> SUFFICES ASSUME TypeOK, [Next]_vars PROVE TypeOK'
  OBVIOUS
<1>1. CASE startPass
  BY <1>1, PassTypes
<1>2. CASE processQueue
  BY <1>2, PassTypes, SetPropsTypes, DelPropsTypes, AuthTypes, GamesTypes DEF processQueue
<1>3. ASSUME NEW c \in Slot, mainLoop(c)
      PROVE  TypeOK'
  <2>1. CASE parseIncoming(c)
    BY <2>1, SessionTypes, JoinTypes, ChannelTypes DEF parseIncoming
  <2>2. CASE deleteClient(c)
    BY <2>2, DeletionTypes
  <2>3. CASE quitOne(c) \/ quitDone(c)
    BY <2>3, QuitTypes
  <2>4. CASE pingTimeout(c) \/ notReadable(c) \/ hungUp(c) \/ startLines(c) \/ endLines(c)
    BY <2>4, PassTypes
  <2>5. QED
    BY <1>3, <2>1, <2>2, <2>3, <2>4 DEF mainLoop
<1>4. ASSUME NEW c \in Slot, accept(c)
      PROVE  TypeOK'
  BY <1>4, AcceptTypes
<1>5. CASE UNCHANGED vars
  BY <1>5 DEF vars, TypeOK, Held, Listed
<1>6. QED
  BY <1>1, <1>2, <1>3, <1>4, <1>5 DEF Next

\* Every variable keeps its shape, a pass and quitUser only deal with clients
\* that are listed, and invite_list is ordered by entries that are on it.
THEOREM TypeCorrect == Spec => []TypeOK
BY TypeInit, TypeStep, PTL DEF Spec

-----------------------------------------------------------------------------
(* What becomes of a channel: its name, its private and secret, and who is *)
(* on it.                                                                  *)

Exclusive(ch) == ~({"p", "s"} \subseteq ch.flags)

Tame(ch, ch2) ==
    /\ ch2.name = ch.name
    /\ Exclusive(ch) => Exclusive(ch2)
    /\ \A d \in Slot : ch2.users[d].on => ch.users[d].on

LEMMA TameSelf == \A ch : Tame(ch, ch)
BY DEF Tame

LEMMA TameTransitive ==
    ASSUME NEW ch, NEW ch1, NEW ch2, Tame(ch, ch1), Tame(ch1, ch2)
    PROVE  Tame(ch, ch2)
BY DEF Tame

LEMMA EntryTame ==
    ASSUME NEW ch \in ChannelRec, NEW t \in Slot, NEW m \in Member, m.on => ch.users[t].on
    PROVE  Tame(ch, SetRank(ch, t, m))
BY DEF SetRank, Tame, Exclusive, ChannelRec

LEMMA LeavingTame ==
    ASSUME NEW ch \in ChannelRec, NEW c \in Slot
    PROVE  Tame(ch, Without(ch, c))
BY OffIsMember, EntryTame DEF Without, SetRank, Off

LEMMA ClearedTame ==
    ASSUME NEW ch \in ChannelRec
    PROVE  Tame(ch, Cleared(ch)) /\ Tame(ch, clearProps(ch))
<1>1. Tame(ch, Cleared(ch))
  BY DEF Cleared, Empty, Off, Tame, Exclusive, ChannelRec
<1>2. Tame(ch, clearProps(ch))
  BY DEF clearProps, Exclusive, Tame, ChannelRec
<1>3. QED
  BY <1>1, <1>2

\* applyChanProps leaves +s and +p exclusive whatever the properties say.
LEMMA PropsTame ==
    ASSUME NEW ch \in ChannelRec, NEW props \in PropRec
    PROVE  Tame(ch, applyChanProps(ch, props)) /\ Exclusive(applyChanProps(ch, props))
<1>1. Exclusive(applyChanProps(ch, props))
  BY DEF applyChanProps, Settled, Exclusive, ChannelRec
<1>2. Tame(ch, applyChanProps(ch, props))
  BY <1>1 DEF applyChanProps, Tame, ChannelRec
<1>3. QED
  BY <1>1, <1>2

LEMMA FlagTame ==
    ASSUME NEW ch \in ChannelRec, NEW c \in Slot, NEW rights, NEW set \in BOOLEAN,
           NEW letter \in {"e", "m", "n", "i", "t", "k", "p", "s"}
    PROVE  Tame(ch, SetFlag(ch, c, rights, letter, set))
<1> DEFINE flags == Put(IF set THEN ch.flags \ Opposed(letter) ELSE ch.flags, letter, set)
<1>1. ~({"p", "s"} \subseteq ch.flags) => ~({"p", "s"} \subseteq flags)
  <2>1. CASE letter = "p" \/ letter = "s"
    BY <2>1 DEF Put, Opposed
  <2>2. CASE letter # "p" /\ letter # "s"
    BY <2>2 DEF Put, Opposed
  <2>3. QED
    BY <2>1, <2>2
<1>2. SetFlag(ch, c, rights, letter, set) \in {ch, [ch EXCEPT !.flags = flags]}
  BY DEF SetFlag, ChannelRec
<1> HIDE DEF flags
<1>3. Tame(ch, [ch EXCEPT !.flags = flags]) /\ Tame(ch, ch)
  BY <1>1 DEF Tame, Exclusive, ChannelRec
<1>4. QED
  BY <1>2, <1>3

LEMMA LimitTame ==
    ASSUME NEW ch \in ChannelRec, NEW c, NEW rights, NEW v
    PROVE  Tame(ch, SetLimit(ch, c, rights, v))
BY DEF SetLimit, Tame, Exclusive, ChannelRec

LEMMA RankTame ==
    ASSUME NEW ch \in ChannelRec, NEW c \in Slot, NEW rights, NEW t \in Slot, NEW set \in BOOLEAN,
           NEW letter \in {"o", "v", "h", "O"}
    PROVE  Tame(ch, SetUser(ch, c, rights, letter, t, set))
<1> DEFINE m == ch.users[t]
<1>0. m \in Member /\ Tame(ch, ch)
  BY EntryRead DEF Tame
<1>1. Tame(ch, SetOp(ch, c, rights, t, set))
  <2> DEFINE m2 == [m EXCEPT !.owner = @ /\ set, !.op = set, !.halfop = set]
  <2>1. m2 \in Member /\ m2.on = m.on
    BY <1>0 DEF Member
  <2>2. SetOp(ch, c, rights, t, set) \in {ch, SetRank(ch, t, m2)}
    BY DEF SetOp
  <2> HIDE DEF m2
  <2>3. QED
    BY <1>0, <2>1, <2>2, EntryTame
<1>2. Tame(ch, SetVoice(ch, c, rights, t, set))
  <2> DEFINE m2 == [m EXCEPT !.voice = set]
  <2>1. m2 \in Member /\ m2.on = m.on
    BY <1>0 DEF Member
  <2>2. SetVoice(ch, c, rights, t, set) \in {ch, SetRank(ch, t, m2)}
    BY DEF SetVoice
  <2> HIDE DEF m2
  <2>3. QED
    BY <1>0, <2>1, <2>2, EntryTame
<1>3. Tame(ch, SetHalfop(ch, c, rights, t, set))
  <2> DEFINE m2 == [m EXCEPT !.halfop = set]
  <2>1. m2 \in Member /\ m2.on = m.on
    BY <1>0 DEF Member
  <2>2. SetHalfop(ch, c, rights, t, set) \in {ch, SetRank(ch, t, m2)}
    BY DEF SetHalfop
  <2> HIDE DEF m2
  <2>3. QED
    BY <1>0, <2>1, <2>2, EntryTame
<1>4. Tame(ch, SetOwner(ch, c, rights, t, set))
  <2> DEFINE m2 == [m EXCEPT !.owner = set, !.op = set, !.halfop = set]
  <2>1. m2 \in Member /\ m2.on = m.on
    BY <1>0 DEF Member
  <2>2. SetOwner(ch, c, rights, t, set) \in {ch, SetRank(ch, t, m2)}
    BY DEF SetOwner
  <2> HIDE DEF m2
  <2>3. QED
    BY <1>0, <2>1, <2>2, EntryTame
<1>5. QED
  BY <1>1, <1>2, <1>3, <1>4 DEF SetUser

LEMMA StartedTame ==
    ASSUME NEW ch \in ChannelRec, NEW c \in Slot
    PROVE  Tame(ch, Started(ch, c))
<1>1. Corrected(ch.users[c]) \in Member /\ Corrected(ch.users[c]).on = ch.users[c].on
  BY EntryRead DEF Corrected, Member
<1>2. Tame(ch, ch)
  BY DEF Tame
<1>3. QED
  BY <1>1, <1>2, EntryTame DEF Started

LEMMA ModeTame ==
    ASSUME NEW ch \in ChannelRec, NEW c \in Slot, NEW ch2 \in ModeSet(c, ch)
    PROVE  Tame(ch, ch2)
<1>1. Tame(ch, ch)
  BY DEF Tame
<1>2. QED
  BY <1>1, FlagTame, LimitTame, RankTame DEF ModeSet, Listed

-----------------------------------------------------------------------------
(* A step as seen from the channels: nobody gets on but c, and no channel  *)
(* gets a name but b0, one that no channel answered to.                    *)

Moved(b0, c) ==
    \A b \in Block :
        /\ \/ channel'[b].name \in {channel[b].name, NoName}
           \/ b = b0 /\ find_chan(channel'[b].name) = {}
        /\ Exclusive(channel[b]) => Exclusive(channel'[b])
        /\ \A d \in Slot : channel'[b].users[d].on => channel[b].users[d].on \/ d = c

Still == Moved(NoBlock, NoSlot)

LEMMA ClosedTame ==
    /\ NoChannel.name = NoName /\ Exclusive(NoChannel)
    /\ \A d \in Slot : ~NoChannel.users[d].on
BY DEF NoChannel, Exclusive, Empty, Off

\* Channels that only change tamely, or are closed.
LEMMA TameStill ==
    ASSUME \A b \in Block : Tame(channel[b], channel'[b]) \/ channel'[b] = NoChannel
    PROVE  Still
BY ClosedTame DEF Still, Moved, Tame

LEMMA UnchangedStill ==
    ASSUME UNCHANGED channel
    PROVE  Still
BY DEF Still, Moved

LEMMA DeleteStill ==
    ASSUME TypeOK, NEW b \in Block, deleteChannel(b)
    PROVE  Still
<1>1. channel' = [channel EXCEPT ![b] = NoChannel]
  BY DEF deleteChannel
<1>2. \A a \in Block : Tame(channel[a], channel'[a]) \/ channel'[a] = NoChannel
  BY <1>1 DEF Tame, TypeOK
<1>3. QED
  BY <1>2, TameStill

LEMMA RemoveStill ==
    ASSUME TypeOK, NEW b \in Block, NEW c \in Slot, removeUser(c, b)
    PROVE  Still
<1>1. CASE deleteChannel(b)
  BY <1>1, DeleteStill
<1>2. CASE channel' = [channel EXCEPT ![b] = Without(channel[b], c)]
  <2>1. Tame(channel[b], Without(channel[b], c))
    BY LeavingTame DEF TypeOK
  <2>2. \A a \in Block : Tame(channel[a], channel'[a])
    BY <1>2, <2>1 DEF Tame, TypeOK
  <2>3. QED
    BY <2>2, TameStill
<1>3. QED
  BY <1>1, <1>2 DEF removeUser

\* The channel that joinChan deals with is one, and if it is to be opened no
\* other one answers to the name.
LEMMA RoomFound ==
    ASSUME TypeOK, NEW n \in Name, NEW b \in Room(n)
    PROVE  b \in Block /\ (Live(channel[b]) \/ find_chan(n) = {})
<1>1. CASE find_chan(n) # {}
  BY <1>1, ChannelAssumption DEF Room, find_chan, SameName, Live
<1>2. CASE find_chan(n) = {}
  BY <1>2 DEF Room
<1>3. QED
  BY <1>1, <1>2

LEMMA OpenedExclusive ==
    ASSUME TypeOK, NEW n \in Name, NEW ch \in Opened(n)
    PROVE  Exclusive(ch)
<1> DEFINE new == [NoChannel EXCEPT !.name = n]
<1>1. new \in ChannelRec /\ Exclusive(new)
  BY OffIsMember DEF NoChannel, ChannelRec, Exclusive
<1>2. \A p \in chanprops : p.props \in PropRec
  BY DEF TypeOK
<1>3. QED
  BY <1>1, <1>2, PropsTame DEF Opened

\* joinChan moves nobody but its client, which is marked if it had quit.
LEMMA JoinMoves ==
    ASSUME TypeOK, NEW c \in Slot, NEW n \in Name, NEW x \in Extra, NEW info \in Info,
           NEW listed \in BOOLEAN, joinChan(c, n, x, info, listed)
    PROVE  \/ Still /\ revived' = revived
           \/ /\ \E b \in Block : Moved(b, c)
              /\ revived' = IF client[c].toquit THEN revived \union {c} ELSE revived
<1> DEFINE own == Entitled(c, n, info)
           Goal == \/ Still /\ revived' = revived
                   \/ /\ \E b \in Block : Moved(b, c)
                      /\ revived' = IF client[c].toquit THEN revived \union {c} ELSE revived
<1>0. own \in Info
  BY InfoTypes
<1> HIDE DEF own, Goal
<1>1. CASE Barred(c, n, own)
  BY <1>1, UnchangedStill DEF joinChan, own, Goal
<1>2. ASSUME NEW b \in Room(n),
             NEW ch \in (IF Live(channel[b]) THEN {channel[b]} ELSE Opened(n)),
             NEW in, in = Welcomed(c, b, ch, Asked(c, n, x, own)),
             IF Admits(c, x, ch, in) THEN Admit(c, b, n, ch, in) ELSE Refuse(c, b, n, ch)
      PROVE  Goal
  <2>0. in \in Info
    BY <1>0, <1>2, InfoTypes
  <2> DEFINE now == Applied(ch, client[c].host)
  <2>1. b \in Block /\ (Live(channel[b]) \/ find_chan(n) = {})
    BY RoomFound
  <2>2. ch \in ChannelRec
    BY <2>1, OpenedTypes DEF TypeOK
  <2>3. /\ now \in ChannelRec /\ now.name = ch.name /\ now.flags = ch.flags
        /\ \A d \in Slot : now.users[d].on <=> ch.users[d].on
    BY <2>2, AppliedTypes
  <2>4. Tame(ch, now)
    BY <2>3 DEF Tame, Exclusive
  <2> HIDE DEF now
  <2>5. CASE Refuse(c, b, n, ch)
    <3>1. revived' = revived
      BY <2>5 DEF Refuse
    <3>2. CASE Live(channel[b])
      <4>1. channel' = [channel EXCEPT ![b] = now] /\ ch = channel[b]
        BY <2>5, <3>2 DEF Refuse, now
      <4>2. \A a \in Block : Tame(channel[a], channel'[a])
        BY <2>1, <2>4, <4>1 DEF Tame, TypeOK
      <4>3. QED
        BY <3>1, <4>2, TameStill DEF Goal
    <3>3. CASE ~Live(channel[b])
      BY <2>5, <3>1, <3>3, UnchangedStill DEF Refuse, Goal
    <3>4. QED
      BY <3>2, <3>3
  <2>6. CASE Admit(c, b, n, ch, in)
    <3>1. CASE ~Live(channel[b])
      <4>1. ch.name = n /\ On(ch) = {} /\ Exclusive(ch) /\ find_chan(n) = {}
        BY <2>1, <3>1, OpenedTypes, OpenedExclusive
      <4>2. \A d \in Slot : ~ch.users[d].on
        BY <4>1 DEF On
      <4>3. AsMember(in) \in Member
        BY <2>0, InfoTypes
      <4>4. channel' = [channel EXCEPT ![b] = addUser(now, c, AsMember(in))]
            /\ revived' = IF client[c].toquit THEN revived \union {c} ELSE revived
        BY <2>6, <4>2 DEF Admit, now
      <4> DEFINE new == addUser(now, c, AsMember(in))
      <4>5. /\ new.name = n /\ Exclusive(new)
            /\ \A d \in Slot : new.users[d].on => d = c
        BY <2>3, <4>1, <4>2, <4>3 DEF addUser, Exclusive, ChannelRec
      <4> HIDE DEF new
      <4>6. Moved(b, c)
        BY <2>1, <4>1, <4>4, <4>5 DEF Moved, TypeOK, new
      <4>7. QED
        BY <2>1, <4>4, <4>6 DEF Goal
    <3>2. CASE Live(channel[b]) /\ ch.users[c].on
      <4>1. channel' = [channel EXCEPT ![b] = now] /\ ch = channel[b] /\ revived' = revived
        BY <2>6, <3>2 DEF Admit, now
      <4>2. \A a \in Block : Tame(channel[a], channel'[a])
        BY <2>1, <2>4, <4>1 DEF Tame, TypeOK
      <4>3. QED
        BY <4>1, <4>2, TameStill DEF Goal
    <3>3. CASE Live(channel[b]) /\ ~ch.users[c].on
      <4>1. AsMember(in) \in Member
        BY <2>0, InfoTypes
      <4> DEFINE new == addUser(now, c, AsMember(in))
      <4>2. /\ channel' = [channel EXCEPT ![b] = new] /\ ch = channel[b]
            /\ revived' = IF client[c].toquit THEN revived \union {c} ELSE revived
        BY <2>6, <3>3 DEF Admit, now
      <4>3. /\ new.name = now.name /\ new.flags = now.flags
            /\ \A d \in Slot : new.users[d].on => now.users[d].on \/ d = c
        BY <2>3, <4>1 DEF addUser, ChannelRec
      <4> HIDE DEF new
      <4>4. Moved(b, c)
        BY <2>1, <2>3, <4>2, <4>3 DEF Moved, Exclusive, TypeOK
      <4>5. QED
        BY <2>1, <4>2, <4>4 DEF Goal
    <3>4. QED
      BY <3>1, <3>2, <3>3
  <2>7. QED
    BY <1>2, <2>5, <2>6
<1>3. QED
  BY <1>1, <1>2 DEF joinChan, own, Goal

LEMMA PropsMoves ==
    ASSUME TypeOK, NEW n \in Name, NEW props \in PropRec, NEW kick \in BOOLEAN,
           SetChanProps(n, props, kick)
    PROVE  \E b \in Block \union {NoBlock} : Moved(b, NoSlot)
<1>1. CASE "z" \in props.flags /\ find_chan(n) = {}
  <2> DEFINE empty == [NoChannel EXCEPT !.name = n]
             new   == applyChanProps(empty, props)
  <2>1. PICK b \in Block : channel' = [channel EXCEPT ![b] = new]
    BY <1>1 DEF SetChanProps
  <2>2. empty \in ChannelRec /\ empty.name = n /\ \A d \in Slot : ~empty.users[d].on
    BY OffIsMember DEF NoChannel, ChannelRec, Empty, Off
  <2>3. Tame(empty, new) /\ Exclusive(new)
    BY <2>2, PropsTame
  <2>4. new.name = n /\ Exclusive(new) /\ \A d \in Slot : ~new.users[d].on
    BY <2>2, <2>3 DEF Tame
  <2> HIDE DEF new
  <2>5. Moved(b, NoSlot)
    BY <1>1, <2>1, <2>4 DEF Moved, TypeOK
  <2>6. QED
    BY <2>5
<1>2. CASE ~("z" \in props.flags /\ find_chan(n) = {})
  <2>1. channel' = [b \in Block |->
               IF b \notin find_chan(n) THEN channel[b]
               ELSE IF kick THEN Cleared(channel[b])
               ELSE applyChanProps(channel[b], props)]
    BY <1>2 DEF SetChanProps
  <2>2. ASSUME NEW b \in Block
        PROVE  Tame(channel[b], channel'[b])
    <3>1. channel[b] \in ChannelRec
      BY DEF TypeOK
    <3>2. Tame(channel[b], channel[b]) /\ Tame(channel[b], applyChanProps(channel[b], props))
          /\ Tame(channel[b], Cleared(channel[b]))
      BY <3>1, TameSelf, PropsTame, ClearedTame
    <3>3. QED
      BY <2>1, <3>2
  <2>3. QED
    BY <2>2, TameStill DEF Still
<1>3. QED
  BY <1>1, <1>2

LEMMA DelPropsStill ==
    ASSUME TypeOK, NEW n \in Name, NEW reset \in BOOLEAN, DelChanProps(n, reset)
    PROVE  Still
<1>1. CASE UNCHANGED channel
  BY <1>1, UnchangedStill
<1>2. CASE \E b \in find_chan(n) : deleteChannel(b)
  BY <1>2, DeleteStill DEF find_chan
<1>3. CASE channel' = [b \in Block |-> IF b \in find_chan(n) THEN clearProps(channel[b])
                                                            ELSE channel[b]]
  <2>1. ASSUME NEW b \in Block
        PROVE  Tame(channel[b], channel'[b])
    <3>1. channel[b] \in ChannelRec
      BY DEF TypeOK
    <3>2. Tame(channel[b], channel[b]) /\ Tame(channel[b], clearProps(channel[b]))
      BY <3>1, ClearedTame, TameSelf
    <3>3. QED
      BY <1>3, <3>2
  <2>2. QED
    BY <2>1, TameStill
<1>4. QED
  BY <1>1, <1>2, <1>3 DEF DelChanProps

LEMMA ChannelsStill ==
    ASSUME TypeOK, NEW c \in Slot,
           cmd_part(c) \/ cmd_kick(c) \/ cmd_mode(c) \/ cmd_invite(c)
    PROVE  Still
<1>1. CASE cmd_part(c)
  BY <1>1, RemoveStill DEF cmd_part, find_chan
<1>2. CASE cmd_kick(c)
  BY <1>2, RemoveStill DEF cmd_kick, find_chan, Listed
<1>3. CASE cmd_mode(c)
  <2>1. PICK b \in Block : \E ch \in ModeSet(c, Started(channel[b], c)) :
            channel' = [channel EXCEPT ![b] = ch]
    BY <1>3 DEF cmd_mode, find_chan
  <2>2. PICK ch \in ModeSet(c, Started(channel[b], c)) : channel' = [channel EXCEPT ![b] = ch]
    BY <2>1
  <2>3. channel[b] \in ChannelRec
    BY DEF TypeOK
  <2>4. Started(channel[b], c) \in ChannelRec
    BY <2>3, StartedType
  <2>5. Tame(channel[b], Started(channel[b], c)) /\ Tame(Started(channel[b], c), ch)
    BY <2>2, <2>3, <2>4, StartedTame, ModeTame
  <2>6. Tame(channel[b], ch)
    BY <2>5, TameTransitive
  <2>7. \A a \in Block : Tame(channel[a], channel'[a])
    BY <2>2, <2>6 DEF TypeOK, Tame
  <2>8. QED
    BY <2>7, TameStill
<1>4. CASE cmd_invite(c)
  BY <1>4, UnchangedStill DEF cmd_invite
<1>5. QED
  BY <1>1, <1>2, <1>3, <1>4

\* The three ways into joinChan, all of a client that is listed.
LEMMA JoinsMove ==
    ASSUME TypeOK, NEW c \in Slot, cmd_join(c) \/ cmd_join_next(c) \/ cmd_fjoin(c)
    PROVE  /\ UNCHANGED client
           /\ \/ Still /\ revived' = revived
              \/ \E t \in Listed :
                    /\ \E b \in Block : Moved(b, t)
                    /\ revived' = IF client[t].toquit THEN revived \union {t} ELSE revived
<1>1. UNCHANGED client
  BY DEF cmd_join, cmd_join_next, cmd_fjoin
<1>2. PICK t \in Listed, n \in Name, x \in Extra, info \in Info, listed \in BOOLEAN :
          joinChan(t, n, x, info, listed)
  <2>1. NoInfo \in Info /\ "none" \in Extra
    BY PeerchatAssumption DEF NoInfo, Info
  <2>2. CASE cmd_fjoin(c)
    BY <2>1, <2>2 DEF cmd_fjoin
  <2>3. turn = c => c \in Listed
    BY PeerchatAssumption DEF TypeOK
  <2>4. CASE cmd_join(c)
    BY <2>1, <2>3, <2>4 DEF cmd_join, Command, Line
  <2>5. CASE cmd_join_next(c)
    <3>1. joining.extra \in Extra /\ joining.info \in Info
      BY DEF TypeOK, JoinRec
    <3>2. QED
      BY <2>3, <2>5, <3>1 DEF cmd_join_next, Command, Line
  <2>6. QED
    BY <2>2, <2>4, <2>5
<1>3. t \in Slot
  BY DEF Listed
<1>4. QED
  BY <1>1, <1>2, <1>3, JoinMoves
-----------------------------------------------------------------------------
(* Names and modes.                                                        *)

LEMMA StepMoves ==
    ASSUME TypeOK, [Next]_vars
    PROVE  \E b \in Block \union {NoBlock}, c \in Slot \union {NoSlot} : Moved(b, c)
<1> DEFINE Goal == \E b \in Block \union {NoBlock}, c \in Slot \union {NoSlot} : Moved(b, c)
<1>1. Still => Goal
  BY DEF Still
<1>2. (UNCHANGED channel) => Goal
  BY <1>1, UnchangedStill
<1> HIDE DEF Goal
<1>3. ASSUME processQueue PROVE Goal
  <2>1. ASSUME NEW n \in Name, NEW p \in PropSet, NEW kick \in BOOLEAN, SetChanProps(n, p, kick)
        PROVE  Goal
    <3>1. p \in PropRec
      BY PeerchatAssumption
    <3>2. QED
      BY <2>1, <3>1, PropsMoves DEF Goal
  <2>2. ASSUME NEW n \in Name, NEW reset \in BOOLEAN, DelChanProps(n, reset)
        PROVE  Goal
    BY <1>1, <2>2, DelPropsStill
  <2>3. QED
    BY <1>2, <1>3, <2>1, <2>2
       DEF processQueue, ChanClient, AuthClient, resetByProfileID, objects
<1>4. ASSUME NEW c \in Slot, mainLoop(c)
      PROVE  Goal
  <2>1. CASE cmd_part(c) \/ cmd_kick(c) \/ cmd_mode(c) \/ cmd_invite(c)
    BY <1>1, <2>1, ChannelsStill
  <2>2. CASE cmd_join(c) \/ cmd_join_next(c) \/ cmd_fjoin(c)
    BY <1>1, <2>2, JoinsMove DEF Goal, Listed
  <2>3. CASE quitOne(c)
    BY <1>1, <2>3, RemoveStill DEF quitOne
  <2>4. QED
    BY <1>2, <1>4, <2>1, <2>2, <2>3
       DEF mainLoop, parseIncoming, cmd_nick, cmd_crypt, cmd_quit, cmd_kill, cmd_setrights,
           pingTimeout, deleteClient, notReadable, hungUp, startLines, endLines, quitDone, objects
<1>5. ASSUME startPass \/ UNCHANGED vars \/ \E c \in Slot : accept(c)
      PROVE  Goal
  BY <1>2, <1>5 DEF startPass, objects, vars, accept
<1>6. QED
  BY <1>3, <1>4, <1>5 DEF Next, Goal

\* A channel is never private and secret at once, whatever MODE, the channel
\* properties and their removal make of it.
THEOREM PrivateXorSecret == Spec => []PrivateOrSecret
<1>1. Init => PrivateOrSecret
  BY DEF Init, PrivateOrSecret, NoChannel
<1>2. TypeOK /\ PrivateOrSecret /\ [Next]_vars => PrivateOrSecret'
  <2> SUFFICES ASSUME TypeOK, PrivateOrSecret, [Next]_vars
               PROVE  PrivateOrSecret'
    OBVIOUS
  <2>1. PICK b \in Block \union {NoBlock}, c \in Slot \union {NoSlot} : Moved(b, c)
    BY StepMoves
  <2>2. QED
    BY <2>1 DEF Moved, Exclusive, PrivateOrSecret
<1>3. QED
  BY <1>1, <1>2, TypeCorrect, PTL DEF Spec

\* JOIN and the channel properties open a channel only under a name that no
\* channel answers to, however it is spelled.
THEOREM OneName == Spec => []OneChannelPerName
<1>1. Init => OneChannelPerName
  BY ChannelAssumption DEF Init, OneChannelPerName, NoChannel, SameName
<1>2. TypeOK /\ OneChannelPerName /\ [Next]_vars => OneChannelPerName'
  <2> SUFFICES ASSUME TypeOK, OneChannelPerName, [Next]_vars,
                      NEW a \in Block, NEW b \in Block,
                      SameName(channel'[a].name, channel'[b].name)
               PROVE  a = b
    BY DEF OneChannelPerName
  <2>1. PICK b0 \in Block \union {NoBlock}, c \in Slot \union {NoSlot} : Moved(b0, c)
    BY StepMoves
  <2>2. channel'[a].name \in Name /\ channel'[b].name \in Name
    BY DEF SameName
  <2>3. CASE channel'[a].name = channel[a].name /\ channel'[b].name = channel[b].name
    BY <2>3 DEF OneChannelPerName
  <2>4. CASE channel'[a].name = channel[a].name /\ channel'[b].name # channel[b].name
    <3>1. find_chan(channel'[b].name) = {}
      BY <2>1, <2>2, <2>4, ChannelAssumption DEF Moved
    <3>2. SameName(channel[a].name, channel'[b].name)
      BY <2>4
    <3>3. QED
      BY <3>1, <3>2 DEF find_chan
  <2>5. CASE channel'[a].name # channel[a].name /\ channel'[b].name = channel[b].name
    <3>1. find_chan(channel'[a].name) = {}
      BY <2>1, <2>2, <2>5, ChannelAssumption DEF Moved
    <3>2. SameName(channel[b].name, channel'[a].name)
      BY <2>5 DEF SameName
    <3>3. QED
      BY <3>1, <3>2 DEF find_chan
  <2>6. CASE channel'[a].name # channel[a].name /\ channel'[b].name # channel[b].name
    BY <2>1, <2>2, <2>6, ChannelAssumption DEF Moved
  <2>7. QED
    BY <2>3, <2>4, <2>5, <2>6
<1>3. QED
  BY <1>1, <1>2, TypeCorrect, PTL DEF Spec

-----------------------------------------------------------------------------
(* Pointers to freed clients.                                              *)

Sound(c) == client[c].live /\ ~client[c].toquit

\* Nobody gets on a channel, and who was sound still is, or is marked.
LEMMA LingerKept ==
    ASSUME OnlyTheRevivedLinger, Still,
           \A c \in Slot : \A b \in Block :
               channel[b].users[c].on => (c \in revived \/ Sound(c) => c \in revived' \/ Sound(c)')
    PROVE  OnlyTheRevivedLinger'
<1>1. \A b \in Block, c \in Slot : channel'[b].users[c].on => channel[b].users[c].on
  BY PeerchatAssumption DEF Still, Moved
<1>2. QED
  BY <1>1 DEF OnlyTheRevivedLinger, Sound

LEMMA JoinLingers ==
    ASSUME OnlyTheRevivedLinger, UNCHANGED client, NEW b \in Block, NEW t \in Listed, Moved(b, t),
           revived' = IF client[t].toquit THEN revived \union {t} ELSE revived
    PROVE  OnlyTheRevivedLinger'
<1>1. \A a \in Block, c \in Slot :
          channel'[a].users[c].on => channel[a].users[c].on \/ c = t
  BY DEF Moved
<1>2. t \in revived' \/ (client'[t].live /\ ~client'[t].toquit)
  BY DEF Listed
<1>3. QED
  BY <1>1, <1>2 DEF OnlyTheRevivedLinger

LEMMA OnSomeChannel ==
    ASSUME TypeOK, NEW c \in Slot, NEW b \in Block, channel[b].users[c].on
    PROVE  numChans(c) # 0
<1> DEFINE S == {a \in Block : channel[a].users[c].on}
<1>1. IsFiniteSet(S)
  BY PeerchatAssumption, FS_Subset
<1>2. S # {}
  OBVIOUS
<1>3. QED
  BY <1>1, <1>2, FS_EmptySet DEF numChans

\* The steps of a client's life and its end.
LEMMA LifeLingers ==
    ASSUME TypeOK, OnlyTheRevivedLinger, NEW c \in Slot,
           cmd_nick(c) \/ deleteClient(c) \/ quitDone(c) \/ accept(c)
    PROVE  OnlyTheRevivedLinger'
<1>1. Still
  BY UnchangedStill DEF cmd_nick, deleteClient, quitDone, accept
<1>2. \A d \in Slot : client[d] \in ClientRec
  BY DEF TypeOK
<1>3. \A d \in Slot \ {c} : client'[d] = client[d] /\ (d \in revived => d \in revived')
  BY DEF cmd_nick, deleteClient, quitDone, accept, TypeOK
<1>4. ASSUME NEW b \in Block, channel[b].users[c].on, c \in revived \/ Sound(c)
      PROVE  c \in revived' \/ Sound(c)'
  <2>1. CASE cmd_nick(c)
    <3>1. PICK new \in Named(c) :
            /\ client' = [client EXCEPT ![c] = new]
            /\ revived' = IF new.toquit /\ ~client[c].toquit /\ numChans(c) # 0
                          THEN revived \union {c} ELSE revived
      BY <2>1 DEF cmd_nick
    <3>2. new.live = client[c].live
      BY <1>2 DEF Named, ClientRec
    <3>3. client'[c] = new /\ numChans(c) # 0
      BY <1>4, <3>1, OnSomeChannel DEF TypeOK
    <3>4. QED
      BY <1>4, <3>1, <3>2, <3>3 DEF Sound
  <2>2. CASE deleteClient(c)
    BY <1>4, <2>2 DEF deleteClient, Sound
  <2>3. CASE quitDone(c)
    BY <1>4, <2>3 DEF quitDone
  <2>4. CASE accept(c)
    BY <2>4 DEF accept, NewClient, Sound, TypeOK
  <2>5. QED
    BY <2>1, <2>2, <2>3, <2>4
<1>5. QED
  BY <1>1, <1>3, <1>4, LingerKept DEF Sound

\* Nobody's soundness changes.
LEMMA OthersLinger ==
    ASSUME OnlyTheRevivedLinger, Still, UNCHANGED revived,
           \A c \in Slot : Sound(c) => Sound(c)'
    PROVE  OnlyTheRevivedLinger'
BY LingerKept

LEMMA LingerStep == TypeOK /\ OnlyTheRevivedLinger /\ [Next]_vars => OnlyTheRevivedLinger'
<1> SUFFICES ASSUME TypeOK, OnlyTheRevivedLinger, [Next]_vars
             PROVE  OnlyTheRevivedLinger'
  OBVIOUS
<1>1. UNCHANGED <<client, channel, revived>> => OnlyTheRevivedLinger'
  BY DEF OnlyTheRevivedLinger
<1>2. ASSUME processQueue
      PROVE  OnlyTheRevivedLinger'
  <2>1. ASSUME NEW n \in Name, NEW p \in PropSet, NEW kick \in BOOLEAN, SetChanProps(n, p, kick)
        PROVE  OnlyTheRevivedLinger'
    <3>1. p \in PropRec
      BY PeerchatAssumption
    <3>2. PICK b \in Block \union {NoBlock} : Moved(b, NoSlot)
      BY <2>1, <3>1, PropsMoves
    <3>3. \A a \in Block, c \in Slot : channel'[a].users[c].on => channel[a].users[c].on
      BY <3>2, PeerchatAssumption DEF Moved
    <3>4. QED
      BY <2>1, <3>3 DEF SetChanProps, OnlyTheRevivedLinger
  <2>2. ASSUME NEW n \in Name, NEW reset \in BOOLEAN, DelChanProps(n, reset)
        PROVE  OnlyTheRevivedLinger'
    <3>1. Still
      BY <2>2, DelPropsStill
    <3>2. QED
      BY <2>2, <3>1, OthersLinger DEF DelChanProps, Sound
  <2>3. ASSUME NEW c \in Slot, NEW m \in Mask, AuthClient(c, m)
        PROVE  OnlyTheRevivedLinger'
    <3>1. Still /\ revived' = revived
      BY <2>3, UnchangedStill DEF AuthClient
    <3>2. client[c] \in ClientRec /\ client' = [client EXCEPT ![c] =
              [client[c] EXCEPT !.auth = TRUE, !.rights = m]]
      BY <2>3 DEF AuthClient, TypeOK
    <3>3. \A d \in Slot : Sound(d) => Sound(d)'
      BY <3>2 DEF Sound, TypeOK, ClientRec
    <3>4. QED
      BY <3>1, <3>3, OthersLinger
  <2>4. QED
    BY <1>1, <1>2, <2>1, <2>2, <2>3 DEF processQueue, ChanClient, resetByProfileID, objects
<1>3. ASSUME NEW c \in Slot, mainLoop(c)
      PROVE  OnlyTheRevivedLinger'
  <2>1. CASE cmd_nick(c) \/ deleteClient(c) \/ quitDone(c)
    BY <2>1, LifeLingers
  <2>2. CASE cmd_join(c) \/ cmd_join_next(c) \/ cmd_fjoin(c)
    <3>1. CASE Still /\ revived' = revived
      BY <2>2, <3>1, JoinsMove, OthersLinger DEF Sound
    <3>2. CASE ~(Still /\ revived' = revived)
      BY <2>2, <3>2, JoinsMove, JoinLingers
    <3>3. QED
      BY <3>1, <3>2
  <2>3. CASE cmd_part(c) \/ cmd_kick(c) \/ cmd_mode(c) \/ cmd_invite(c)
    <3>1. UNCHANGED <<client, revived>>
      BY <2>3 DEF cmd_part, cmd_kick, cmd_mode, cmd_invite, OnChannels
    <3>2. QED
      BY <2>3, <3>1, ChannelsStill, OthersLinger DEF Sound
  <2>4. CASE quitOne(c)
    <3>1. Still
      BY <2>4, RemoveStill DEF quitOne
    <3>2. QED
      BY <2>4, <3>1, OthersLinger DEF quitOne, Sound
  <2>5. CASE cmd_crypt(c) \/ cmd_setrights(c)
    <3>1. Still /\ revived' = revived
      BY <2>5, UnchangedStill DEF cmd_crypt, cmd_setrights
    <3>2. \A d \in Slot : client'[d].live = client[d].live /\ client'[d].toquit = client[d].toquit
      <4>1. CASE cmd_crypt(c)
        BY <4>1 DEF cmd_crypt, TypeOK, ClientRec
      <4>2. CASE cmd_setrights(c)
        BY <4>2 DEF cmd_setrights, TypeOK, ClientRec
      <4>3. QED
        BY <2>5, <4>1, <4>2
    <3>3. QED
      BY <3>1, <3>2, OthersLinger DEF Sound
  <2>6. QED
    BY <1>1, <1>3, <2>1, <2>2, <2>3, <2>4, <2>5
       DEF mainLoop, parseIncoming, cmd_quit, cmd_kill,
           pingTimeout, notReadable, hungUp, startLines, endLines, objects
<1>4. ASSUME startPass \/ UNCHANGED vars \/ \E c \in Slot : accept(c)
      PROVE  OnlyTheRevivedLinger'
  BY <1>1, <1>4, LifeLingers DEF startPass, objects, vars
<1>5. QED
  BY <1>2, <1>3, <1>4 DEF Next

\* A pointer to a freed client, or to one that has quit, is on a channel only
\* if that client was put there after its QUIT or before a refused welcome.
THEOREM Lingering == Spec => []OnlyTheRevivedLinger
<1>1. Init => OnlyTheRevivedLinger
  BY DEF Init, OnlyTheRevivedLinger, NoChannel, Empty, Off
<1>2. QED
  BY <1>1, LingerStep, TypeCorrect, PTL DEF Spec

-----------------------------------------------------------------------------
(* What MODE does to the users of a channel, in the setter's rights.       *)

SameSeats(ch, ch2) ==
    /\ ch2.name = ch.name /\ ("z" \in ch2.flags <=> "z" \in ch.flags)
    /\ \A d \in Slot : /\ ch2.users[d].on <=> ch.users[d].on
                       /\ ~ch.users[d].on => ch2.users[d] = ch.users[d]

\* A user's entry changes as one of c's rank and rights may change it.
Given(ch, c, rights, m, m2) ==
    /\ m.owner # m2.owner => MayOwner(ch, c, rights)
    /\ m2.op /\ ~m.op => MayOwner(ch, c, rights)
    /\ m2.halfop /\ ~m.halfop => MayOwner(ch, c, rights) \/ MayOp(ch, c, rights)
    /\ m2.voice /\ ~m.voice => Ranked(ch.users[c]) \/ Overrides(ch, c, rights)

InRank(ch, ch2, c, rights) ==
    SameSeats(ch, ch2) /\ \A d \in Slot : Given(ch, c, rights, ch.users[d], ch2.users[d])

LEMMA EntryInRank ==
    ASSUME NEW ch \in ChannelRec, NEW c \in Slot, NEW rights, NEW t \in Slot, NEW m2 \in Member,
           ch.users[t].on /\ m2.on, Given(ch, c, rights, ch.users[t], m2)
    PROVE  InRank(ch, SetRank(ch, t, m2), c, rights)
<1> DEFINE ch2 == SetRank(ch, t, m2)
<1>1. ch2.name = ch.name /\ ch2.flags = ch.flags /\ ch2.users = [ch.users EXCEPT ![t] = m2]
  BY DEF SetRank, ChannelRec
<1>2. ch.users \in [Slot -> Member]
  BY DEF ChannelRec
<1> HIDE DEF ch2
<1>3. ch2.users[t] = m2 /\ \A d \in Slot \ {t} : ch2.users[d] = ch.users[d]
  BY <1>1, <1>2
<1>4. SameSeats(ch, ch2)
  BY <1>1, <1>3 DEF SameSeats
<1>5. \A m \in Member : Given(ch, c, rights, m, m)
  BY DEF Given
<1>6. \A d \in Slot : Given(ch, c, rights, ch.users[d], ch2.users[d])
  BY <1>2, <1>3, <1>5
<1>7. QED
  BY <1>4, <1>6 DEF InRank, ch2

LEMMA NobodyInRank ==
    ASSUME NEW ch \in ChannelRec, NEW ch2 \in ChannelRec, NEW c \in Slot, NEW rights,
           ch2.name = ch.name, ch2.users = ch.users, "z" \in ch2.flags <=> "z" \in ch.flags
    PROVE  InRank(ch, ch2, c, rights)
BY DEF InRank, SameSeats, Given

LEMMA RankInRank ==
    ASSUME NEW ch \in ChannelRec, NEW c \in Slot, NEW rights, NEW t \in Slot, NEW set \in BOOLEAN,
           NEW letter \in {"o", "v", "h", "O"}
    PROVE  InRank(ch, SetUser(ch, c, rights, letter, t, set), c, rights)
<1> DEFINE m == ch.users[t]
<1>0. m \in Member /\ InRank(ch, ch, c, rights)
  BY EntryRead, NobodyInRank
<1>1. InRank(ch, SetOp(ch, c, rights, t, set), c, rights)
  <2> DEFINE m2 == [m EXCEPT !.owner = @ /\ set, !.op = set, !.halfop = set]
  <2>1. m2 \in Member /\ m2.on = m.on /\ m2.voice = m.voice
    BY <1>0 DEF Member
  <2>2. CASE MayOwner(ch, c, rights) /\ m.on /\ m.op # set
    <3>1. Given(ch, c, rights, m, m2)
      BY <2>1, <2>2 DEF Given
    <3>2. SetOp(ch, c, rights, t, set) = SetRank(ch, t, m2)
      BY <2>2 DEF SetOp
    <3> HIDE DEF m2
    <3>3. QED
      BY <2>1, <2>2, <3>1, <3>2, EntryInRank
  <2>3. CASE ~(MayOwner(ch, c, rights) /\ m.on /\ m.op # set)
    BY <1>0, <2>3 DEF SetOp
  <2>4. QED
    BY <2>2, <2>3
<1>2. InRank(ch, SetVoice(ch, c, rights, t, set), c, rights)
  <2> DEFINE m2 == [m EXCEPT !.voice = set]
             may == m.on /\ ((Ranked(ch.users[c]) \/ Overrides(ch, c, rights)) \/ (t = c /\ ~set))
  <2>1. /\ m2 \in Member /\ m2.on = m.on /\ m2.owner = m.owner /\ m2.op = m.op
        /\ m2.halfop = m.halfop /\ m2.voice = set
    BY <1>0 DEF Member
  <2>2. CASE may
    <3>1. Given(ch, c, rights, m, m2)
      BY <1>0, <2>1, <2>2 DEF Given
    <3>2. SetVoice(ch, c, rights, t, set) = SetRank(ch, t, m2)
      BY <2>2 DEF SetVoice
    <3> HIDE DEF m2
    <3>3. QED
      BY <2>1, <2>2, <3>1, <3>2, EntryInRank
  <2>3. CASE ~may
    BY <1>0, <2>3 DEF SetVoice
  <2>4. QED
    BY <2>2, <2>3
<1>3. InRank(ch, SetHalfop(ch, c, rights, t, set), c, rights)
  <2> DEFINE m2 == [m EXCEPT !.halfop = set]
             may == /\ MayOp(ch, c, rights) /\ m.on /\ m.halfop # set
                    /\ ~m.op /\ (m.owner => ch.users[c].owner)
  <2>1. /\ m2 \in Member /\ m2.on = m.on /\ m2.owner = m.owner /\ m2.op = m.op
        /\ m2.voice = m.voice
    BY <1>0 DEF Member
  <2>2. CASE may
    <3>1. Given(ch, c, rights, m, m2)
      BY <1>0, <2>1, <2>2 DEF Given
    <3>2. SetHalfop(ch, c, rights, t, set) = SetRank(ch, t, m2)
      BY <2>2 DEF SetHalfop
    <3> HIDE DEF m2
    <3>3. QED
      BY <2>1, <2>2, <3>1, <3>2, EntryInRank
  <2>3. CASE ~may
    BY <1>0, <2>3 DEF SetHalfop
  <2>4. QED
    BY <2>2, <2>3
<1>4. InRank(ch, SetOwner(ch, c, rights, t, set), c, rights)
  <2> DEFINE m2 == [m EXCEPT !.owner = set, !.op = set, !.halfop = set]
             may == MayOwner(ch, c, rights) /\ m.on /\ m.owner # set
  <2>1. m2 \in Member /\ m2.on = m.on /\ m2.voice = m.voice
    BY <1>0 DEF Member
  <2>2. CASE may
    <3>1. Given(ch, c, rights, m, m2)
      BY <2>1, <2>2 DEF Given
    <3>2. SetOwner(ch, c, rights, t, set) = SetRank(ch, t, m2)
      BY <2>2 DEF SetOwner
    <3> HIDE DEF m2
    <3>3. QED
      BY <2>1, <2>2, <3>1, <3>2, EntryInRank
  <2>3. CASE ~may
    BY <1>0, <2>3 DEF SetOwner
  <2>4. QED
    BY <2>2, <2>3
<1>5. QED
  BY <1>1, <1>2, <1>3, <1>4 DEF SetUser

LEMMA ModeInRank ==
    ASSUME NEW ch \in ChannelRec, NEW c \in Slot, NEW ch2 \in ModeSet(c, ch)
    PROVE  InRank(ch, ch2, c, client[c].rights)
<1> DEFINE rights == client[c].rights
<1>1. InRank(ch, ch, c, rights)
  BY NobodyInRank
<1>2. ASSUME NEW f \in {"e", "m", "n", "i", "t", "k", "p", "s"}, NEW set \in BOOLEAN
      PROVE  InRank(ch, SetFlag(ch, c, rights, f, set), c, rights)
  <2> DEFINE ch3 == SetFlag(ch, c, rights, f, set)
  <2>1. ch3 \in ChannelRec
    BY FlagTypes
  <2>2. ch3.name = ch.name /\ ch3.users = ch.users
    BY DEF SetFlag, ChannelRec
  <2>3. "z" \in ch3.flags <=> "z" \in ch.flags
    BY DEF SetFlag, Put, Opposed, ChannelRec
  <2>4. QED
    BY <2>1, <2>2, <2>3, NobodyInRank
<1>3. ASSUME NEW v \in LimitValue \union {0}
      PROVE  InRank(ch, SetLimit(ch, c, rights, v), c, rights)
  <2>1. SetLimit(ch, c, rights, v) \in ChannelRec
    BY LimitTypes
  <2>2. /\ SetLimit(ch, c, rights, v).name = ch.name /\ SetLimit(ch, c, rights, v).users = ch.users
        /\ SetLimit(ch, c, rights, v).flags = ch.flags
    BY DEF SetLimit, ChannelRec
  <2>3. QED
    BY <2>1, <2>2, NobodyInRank
<1>4. ASSUME NEW f \in {"o", "v", "h", "O"}, NEW t \in Listed, NEW set \in BOOLEAN
      PROVE  InRank(ch, SetUser(ch, c, rights, f, t, set), c, rights)
  BY RankInRank DEF Listed
<1>5. QED
  BY <1>1, <1>2, <1>3, <1>4 DEF ModeSet

-----------------------------------------------------------------------------
(* A step as seen from the channels, in more detail: who left, what MODE   *)
(* did, and who got on.                                                    *)

\* A place that nobody is in is empty, and so is memory without a channel.
Seat(ch) ==
    /\ Live(ch) \/ ch = NoChannel
    /\ \A c \in Slot : ch.users[c].on \/ ch.users[c] = Off

Seated == \A b \in Block : Seat(channel[b])

Leaves(b, c) ==
    /\ \A a \in Block \ {b} : channel'[a] = channel[a]
    /\ \A d \in Slot : channel'[b].users[d] = IF d = c THEN Off ELSE channel[b].users[d]
    /\ \/ channel'[b] = NoChannel
       \/ Live(channel[b]) /\ channel'[b].name = channel[b].name /\ ~Emptied(channel'[b])

MayLeave(b, c) ==
    \/ c \in leaving \/ c = turn
    \/ turn \in Slot /\ MayKick(channel[b], turn, client[turn].rights, c)

SetsModes(b) ==
    /\ turn \in Slot /\ Live(channel[b])
    /\ \E ch \in ModeSet(turn, Started(channel[b], turn)) : channel' = [channel EXCEPT ![b] = ch]

Reapplied(t, b) ==
    Live(channel[b]) /\ channel' = [channel EXCEPT ![b] = Applied(channel[b], client[t].host)]

GetsOn(t, n, x, info, b) ==
    /\ b \in Room(n)
    /\ \E ch \in IF Live(channel[b]) THEN {channel[b]} ELSE Opened(n) :
         LET in == Welcomed(t, b, ch, Asked(t, n, x, Entitled(t, n, info)))
         IN /\ ~ch.users[t].on /\ Admits(t, x, ch, in)
            /\ channel' = [channel EXCEPT ![b] =
                              addUser(Applied(ch, client[t].host), t, AsMember(in))]

Joins(t, n, x, info) ==
    UNCHANGED channel \/ \E b \in Block : Reapplied(t, b) \/ GetsOn(t, n, x, info, b)

LEMMA RemoveLeaves ==
    ASSUME TypeOK, Seated, NEW b \in Block, NEW c \in Slot, removeUser(c, b)
    PROVE  Leaves(b, c)
<1> DEFINE ch == Without(channel[b], c)
<1>0. channel[b] \in ChannelRec /\ channel \in [Block -> ChannelRec]
  BY DEF TypeOK
<1>1. /\ ch.name = channel[b].name /\ ch.users[c] = Off
      /\ \A d \in Slot \ {c} : ch.users[d] = channel[b].users[d]
  BY <1>0 DEF Without, ChannelRec
<1>2. CASE ~Emptied(ch)
  <2>1. channel' = [channel EXCEPT ![b] = ch]
    BY <1>2 DEF removeUser
  <2>2. Live(channel[b])
    <3>1. SUFFICES ASSUME channel[b] = NoChannel PROVE FALSE
      BY DEF Seated, Seat
    <3>2. \A d \in Slot : ~ch.users[d].on
      <4>1. ~Off.on /\ \A d \in Slot : NoChannel.users[d] = Off
        BY DEF NoChannel, Empty, Off
      <4> HIDE DEF ch
      <4>2. QED
        BY <1>1, <3>1, <4>1
    <3>3. ch.flags = {}
      BY <3>1 DEF Without, NoChannel
    <3> HIDE DEF ch
    <3>4. QED
      BY <1>2, <3>2, <3>3 DEF Emptied, On
  <2> HIDE DEF ch
  <2>3. QED
    BY <1>0, <1>1, <1>2, <2>1, <2>2 DEF Leaves
<1>3. CASE Emptied(ch)
  <2>1. channel' = [channel EXCEPT ![b] = NoChannel]
    BY <1>3 DEF removeUser, deleteChannel
  <2>2. \A d \in Slot \ {c} : channel[b].users[d] = Off
    BY <1>1, <1>3 DEF Emptied, On, Seated, Seat
  <2>3. \A d \in Slot : NoChannel.users[d] = Off
    BY DEF NoChannel, Empty
  <2>4. QED
    BY <1>0, <2>1, <2>2, <2>3 DEF Leaves
<1>4. QED
  BY <1>2, <1>3

LEMMA JoinChanges ==
    ASSUME TypeOK, NEW t \in Slot, NEW n \in Name, NEW x, NEW info \in Info,
           NEW listed, joinChan(t, n, x, info, listed)
    PROVE  Joins(t, n, x, info)
<1> DEFINE own == Entitled(t, n, info)
<1>1. CASE Barred(t, n, own)
  BY <1>1 DEF joinChan, Joins
<1>2. ASSUME NEW b \in Room(n),
             NEW ch \in (IF Live(channel[b]) THEN {channel[b]} ELSE Opened(n)),
             NEW in, in = Welcomed(t, b, ch, Asked(t, n, x, own)),
             IF Admits(t, x, ch, in) THEN Admit(t, b, n, ch, in) ELSE Refuse(t, b, n, ch)
      PROVE  Joins(t, n, x, info)
  <2>1. b \in Block
    BY RoomFound
  <2>2. CASE Live(channel[b])
    <3>1. ch = channel[b]
      BY <2>2
    <3>2. CASE Admits(t, x, ch, in) /\ ~ch.users[t].on
      <4>1. channel' = [channel EXCEPT ![b] = addUser(Applied(ch, client[t].host), t, AsMember(in))]
        BY <1>2, <3>2 DEF Admit
      <4>2. GetsOn(t, n, x, info, b)
        BY <1>2, <3>2, <4>1 DEF GetsOn
      <4>3. QED
        BY <2>1, <4>2 DEF Joins
    <3>3. CASE ~(Admits(t, x, ch, in) /\ ~ch.users[t].on)
      <4>1. channel' = [channel EXCEPT ![b] = Applied(ch, client[t].host)]
        BY <1>2, <2>2, <3>3 DEF Admit, Refuse
      <4>2. QED
        BY <2>1, <2>2, <3>1, <4>1 DEF Reapplied, Joins
    <3>4. QED
      BY <3>2, <3>3
  <2>3. CASE ~Live(channel[b])
    <3>1. On(ch) = {} /\ ~ch.users[t].on
      BY <2>3, OpenedTypes DEF On
    <3>2. CASE Admits(t, x, ch, in)
      <4>1. channel' = [channel EXCEPT ![b] = addUser(Applied(ch, client[t].host), t, AsMember(in))]
        BY <1>2, <3>1, <3>2 DEF Admit
      <4>2. GetsOn(t, n, x, info, b)
        BY <1>2, <3>1, <3>2, <4>1 DEF GetsOn
      <4>3. QED
        BY <2>1, <4>2 DEF Joins
    <3>3. CASE ~Admits(t, x, ch, in)
      BY <1>2, <2>3, <3>3 DEF Refuse, Joins
    <3>4. QED
      BY <3>2, <3>3
  <2>4. QED
    BY <2>2, <2>3
<1>3. QED
  BY <1>1, <1>2 DEF joinChan

\* What the steps do to the channels when staff does nothing to them.
LEMMA ChannelSteps ==
    ASSUME TypeOK, Seated, [Next]_vars, ~Waiting
    PROVE  \/ UNCHANGED channel
           \/ \E b \in Block, c \in Slot : Leaves(b, c) /\ MayLeave(b, c)
           \/ \E b \in Block : SetsModes(b)
           \/ /\ turn \in Slot
              /\ \E t \in Slot, n \in Name, x \in Extra, info \in Info :
                    /\ info = NoInfo \/ (joining.on /\ info = joining.info)
                    /\ Joins(t, n, x, info)
<1> DEFINE Goal ==
           \/ UNCHANGED channel
           \/ \E b \in Block, c \in Slot : Leaves(b, c) /\ MayLeave(b, c)
           \/ \E b \in Block : SetsModes(b)
           \/ /\ turn \in Slot
              /\ \E t \in Slot, n \in Name, x \in Extra, info \in Info :
                    /\ info = NoInfo \/ (joining.on /\ info = joining.info)
                    /\ Joins(t, n, x, info)
<1>1. ASSUME NEW c \in Slot, cmd_part(c) \/ cmd_kick(c) \/ quitOne(c)
      PROVE  Goal
  <2>1. CASE cmd_part(c)
    <3>1. PICK b \in Block : removeUser(c, b) /\ turn = c
      BY <2>1 DEF cmd_part, find_chan, Ordinary, Command, Line
    <3>2. QED
      BY <3>1, RemoveLeaves DEF MayLeave
  <2>2. CASE cmd_kick(c)
    <3>1. PICK b \in Block, t \in Slot :
             removeUser(t, b) /\ turn = c /\ MayKick(channel[b], c, client[c].rights, t)
      BY <2>2 DEF cmd_kick, find_chan, Listed, Ordinary, Command, Line
    <3>2. QED
      BY <3>1, RemoveLeaves DEF MayLeave
  <2>3. CASE quitOne(c)
    <3>1. PICK b \in Block : removeUser(c, b) /\ c \in leaving
      BY <2>3 DEF quitOne
    <3>2. QED
      BY <3>1, RemoveLeaves DEF MayLeave
  <2>4. QED
    BY <1>1, <2>1, <2>2, <2>3
<1>2. ASSUME NEW c \in Slot, cmd_mode(c)
      PROVE  Goal
  <2>1. PICK b \in Block : /\ turn = c /\ Live(channel[b])
                           /\ \E ch \in ModeSet(c, Started(channel[b], c)) : channel' = [channel EXCEPT ![b] = ch]
    BY <1>2, ChannelAssumption DEF cmd_mode, find_chan, SameName, Live, Ordinary, Command, Line
  <2>2. QED
    BY <2>1 DEF SetsModes
<1>3. ASSUME NEW c \in Slot, cmd_join(c) \/ cmd_join_next(c) \/ cmd_fjoin(c)
      PROVE  Goal
  <2>0. turn = c /\ NoInfo \in Info /\ "none" \in Extra
    BY <1>3, PeerchatAssumption DEF NoInfo, Info, cmd_join, cmd_join_next, cmd_fjoin, Command, Line
  <2>1. CASE cmd_fjoin(c)
    <3>1. PICK t \in Slot, n \in Name : joinChan(t, n, "none", NoInfo, FALSE)
      BY <2>1 DEF cmd_fjoin, Listed
    <3>2. QED
      BY <2>0, <3>1, JoinChanges
  <2>2. CASE cmd_join(c)
    <3>1. PICK n \in Name, x \in Extra : joinChan(c, n, x, NoInfo, TRUE)
      BY <2>2 DEF cmd_join
    <3>2. QED
      BY <2>0, <3>1, JoinChanges
  <2>3. CASE cmd_join_next(c)
    <3>1. joining.extra \in Extra /\ joining.info \in Info /\ joining.on
      BY <2>3 DEF TypeOK, JoinRec, cmd_join_next
    <3>2. PICK n \in Name : joinChan(c, n, joining.extra, joining.info, TRUE)
      BY <2>3 DEF cmd_join_next
    <3>3. QED
      BY <2>0, <3>1, <3>2, JoinChanges
  <2>4. QED
    BY <1>3, <2>1, <2>2, <2>3
<1>4. (UNCHANGED channel) => Goal
  OBVIOUS
<1> HIDE DEF Goal
<1>5. ASSUME NEW c \in Slot, mainLoop(c)
      PROVE  Goal
  BY <1>1, <1>2, <1>3, <1>4, <1>5
     DEF mainLoop, parseIncoming, cmd_nick, cmd_crypt, cmd_quit, cmd_invite, cmd_kill, cmd_setrights,
         pingTimeout, deleteClient, notReadable, hungUp, startLines, endLines, quitDone, objects
<1>6. ASSUME processQueue \/ startPass \/ UNCHANGED vars \/ \E c \in Slot : accept(c)
      PROVE  Goal
  <2>1. ~processQueue
    BY DEF processQueue, SetChanProps, DelChanProps, ChanClient, AuthClient, resetByProfileID
  <2>2. QED
    BY <1>4, <1>6, <2>1 DEF startPass, objects, vars, accept
<1>7. QED
  BY <1>5, <1>6 DEF Next, Goal

-----------------------------------------------------------------------------
(* Places: the invariant that the properties of steps rest on.             *)

LEMMA NoChannelSeat == Seat(NoChannel)
BY DEF Seat, NoChannel, Empty, Off

\* applyUserMode makes users op, those of a host, on a channel that does so.
LEMMA AppliedSeats ==
    ASSUME NEW ch \in ChannelRec, NEW h
    PROVE  /\ SameSeats(ch, Applied(ch, h)) /\ Applied(ch, h).flags = ch.flags
           /\ \A d \in Slot : LET m == ch.users[d] m2 == Applied(ch, h).users[d]
                             IN /\ m2.owner = m.owner /\ m2.halfop = m.halfop /\ m2.voice = m.voice
                                /\ m2.op # m.op => "a" \in ch.flags
<1>1. CASE "a" \notin ch.flags
  BY <1>1 DEF Applied, SameSeats
<1>2. CASE "a" \in ch.flags
  <2> DEFINE users == [c \in Slot |->
                 IF ch.users[c].on /\ client[c].host = h THEN [ch.users[c] EXCEPT !.op = TRUE]
                                                         ELSE ch.users[c]]
  <2>1. Applied(ch, h) = [ch EXCEPT !.users = users]
    BY <1>2 DEF Applied
  <2>2. ASSUME NEW d \in Slot
        PROVE  LET m == ch.users[d] m2 == users[d]
               IN /\ m2.on = m.on /\ m2.owner = m.owner /\ m2.halfop = m.halfop /\ m2.voice = m.voice
                  /\ ~m.on => m2 = m
    <3>1. ch.users[d] \in Member
      BY EntryRead
    <3>2. PICK m2 : m2 = [ch.users[d] EXCEPT !.op = TRUE]
      OBVIOUS
    <3>3. /\ m2.on = ch.users[d].on /\ m2.owner = ch.users[d].owner
          /\ m2.halfop = ch.users[d].halfop /\ m2.voice = ch.users[d].voice
      BY <3>1, <3>2 DEF Member
    <3>4. users[d] = IF ch.users[d].on /\ client[d].host = h THEN m2 ELSE ch.users[d]
      BY <3>2
    <3> HIDE DEF users
    <3>5. QED
      BY <3>3, <3>4
  <2> HIDE DEF users
  <2>3. /\ Applied(ch, h).users = users /\ Applied(ch, h).name = ch.name /\ Applied(ch, h).flags = ch.flags
    BY <2>1 DEF ChannelRec
  <2>4. QED
    BY <1>2, <2>2, <2>3 DEF SameSeats
<1>3. QED
  BY <1>1, <1>2

LEMMA SeatsKept ==
    ASSUME NEW ch, NEW ch2, Seat(ch), Live(ch), SameSeats(ch, ch2)
    PROVE  Seat(ch2) /\ Live(ch2)
BY DEF Seat, SameSeats, Live

LEMMA StartedInRank ==
    ASSUME NEW ch \in ChannelRec, NEW c \in Slot
    PROVE  /\ SameSeats(ch, Started(ch, c)) /\ Started(ch, c).flags = ch.flags
           /\ \A d \in Slot \ {c} : Started(ch, c).users[d] = ch.users[d]
           /\ LET m == ch.users[c] m2 == Started(ch, c).users[c]
              IN /\ m2.owner = m.owner /\ m2.voice = m.voice
                 /\ m2.op => m.op \/ m.owner
                 /\ m2.halfop => m.halfop \/ m.op \/ m.owner
<1> DEFINE m == ch.users[c]
<1>1. m \in Member
  BY EntryRead
<1>2. PICK m2 : m2 = Corrected(m)
  OBVIOUS
<1>3. /\ m2.on = m.on /\ m2.owner = m.owner /\ m2.voice = m.voice
      /\ m2.op = (m.op \/ m.owner) /\ m2.halfop = (m.halfop \/ m.op \/ m.owner)
  BY <1>1, <1>2 DEF Corrected, Member
<1>4. CASE m.on
  <2>1. Started(ch, c) = [ch EXCEPT !.users = [@ EXCEPT ![c] = m2]]
    BY <1>2, <1>4 DEF Started, SetRank
  <2>2. /\ Started(ch, c).users[c] = m2 /\ Started(ch, c).name = ch.name
        /\ Started(ch, c).flags = ch.flags
        /\ \A d \in Slot \ {c} : Started(ch, c).users[d] = ch.users[d]
    BY <2>1 DEF ChannelRec
  <2>3. QED
    BY <1>3, <1>4, <2>2 DEF SameSeats
<1>5. CASE ~m.on
  BY <1>5 DEF Started, SameSeats
<1>6. QED
  BY <1>4, <1>5

LEMMA SameSeatsTransitive ==
    ASSUME NEW ch, NEW ch1, NEW ch2, SameSeats(ch, ch1), SameSeats(ch1, ch2)
    PROVE  SameSeats(ch, ch2)
BY DEF SameSeats

\* MODE, as a whole.
LEMMA ModesSet ==
    ASSUME TypeOK, NEW b \in Block, SetsModes(b)
    PROVE  /\ \A a \in Block \ {b} : channel'[a] = channel[a]
           /\ SameSeats(channel[b], channel'[b]) /\ Live(channel[b])
           /\ \A d \in Slot : Given(Started(channel[b], turn), turn, client[turn].rights,
                                    Started(channel[b], turn).users[d], channel'[b].users[d])
<1>1. PICK ch \in ModeSet(turn, Started(channel[b], turn)) : channel' = [channel EXCEPT ![b] = ch]
  BY DEF SetsModes
<1>2. turn \in Slot /\ Live(channel[b]) /\ channel[b] \in ChannelRec /\ channel \in [Block -> ChannelRec]
  BY DEF SetsModes, TypeOK
<1>3. Started(channel[b], turn) \in ChannelRec /\ SameSeats(channel[b], Started(channel[b], turn))
  BY <1>2, StartedType, StartedInRank
<1>4. InRank(Started(channel[b], turn), ch, turn, client[turn].rights)
  BY <1>1, <1>2, <1>3, ModeInRank
<1>5. channel'[b] = ch /\ \A a \in Block \ {b} : channel'[a] = channel[a]
  BY <1>1, <1>2
<1>6. QED
  BY <1>2, <1>3, <1>4, <1>5, SameSeatsTransitive DEF InRank

Stays(b, d) ==
    LET m == channel[b].users[d] m2 == channel'[b].users[d]
    IN /\ m2.on <=> m.on
       /\ ~m.on => m2 = Off
       /\ m2.owner = m.owner /\ m2.halfop = m.halfop /\ m2.voice = m.voice
       /\ m.on /\ m2.op # m.op => "a" \in channel[b].flags

LEMMA OnlyThere ==
    ASSUME TypeOK, NEW t, NEW n, NEW x, NEW info, NEW b \in Block, GetsOn(t, n, x, info, b)
    PROVE  \A a \in Block \ {b} : channel'[a] = channel[a]
BY DEF GetsOn, TypeOK

\* Somebody gets on: b is, or becomes, a channel with the users it had and t.
LEMMA OneMore ==
    ASSUME TypeOK, Seated, NEW t \in Slot, NEW n \in Name, NEW x, NEW info \in Info, NEW b \in Block,
           GetsOn(t, n, x, info, b)
    PROVE  /\ Live(channel'[b]) /\ channel'[b].users[t].on
           /\ ~channel[b].users[t].on
           /\ Live(channel[b]) => channel'[b].name = channel[b].name
           /\ ~Live(channel[b]) => channel'[b].name = n
           /\ \A d \in Slot \ {t} : Stays(b, d)
<1>0. PICK ch \in (IF Live(channel[b]) THEN {channel[b]} ELSE Opened(n)) :
        \E in : /\ in = Welcomed(t, b, ch, Asked(t, n, x, Entitled(t, n, info)))
                /\ ~ch.users[t].on
                /\ channel' = [channel EXCEPT ![b] = addUser(Applied(ch, client[t].host), t, AsMember(in))]
  BY DEF GetsOn
<1>1. PICK in :
        /\ ch \in IF Live(channel[b]) THEN {channel[b]} ELSE Opened(n)
        /\ in = Welcomed(t, b, ch, Asked(t, n, x, Entitled(t, n, info)))
        /\ ~ch.users[t].on
        /\ channel' = [channel EXCEPT ![b] = addUser(Applied(ch, client[t].host), t, AsMember(in))]
  BY <1>0
<1>2. /\ ch \in ChannelRec /\ \A d \in Slot : ch.users[d] = channel[b].users[d]
      /\ Live(channel[b]) => ch = channel[b]
      /\ ~Live(channel[b]) => ch.name = n
  <2>1. CASE Live(channel[b])
    BY <1>1, <2>1 DEF TypeOK
  <2>2. CASE ~Live(channel[b])
    <3>1. channel[b] = NoChannel
      BY <2>2 DEF Seated, Seat
    <3>2. ch \in ChannelRec /\ ch.name = n
      BY <1>1, <2>2, OpenedTypes
    <3>3. ch.users = Empty
      BY <1>1, <2>2 DEF Opened, applyChanProps, NoChannel
    <3>4. QED
      BY <2>2, <3>1, <3>2, <3>3 DEF NoChannel
  <2>3. QED
    BY <2>1, <2>2
<1>3. AsMember(in) \in Member /\ AsMember(in).on
  BY <1>1, InfoTypes DEF AsMember
<1> DEFINE now == Applied(ch, client[t].host)
<1>4. /\ now \in ChannelRec /\ SameSeats(ch, now) /\ now.flags = ch.flags
      /\ \A d \in Slot : LET m == ch.users[d] m2 == now.users[d]
                        IN /\ m2.owner = m.owner /\ m2.halfop = m.halfop /\ m2.voice = m.voice
                           /\ m2.op # m.op => "a" \in ch.flags
  BY <1>2, AppliedTypes, AppliedSeats
<1> HIDE DEF now
<1>5. PICK m : m = [AsMember(in) EXCEPT !.on = TRUE]
  OBVIOUS
<1>6. m.on
  BY <1>3, <1>5 DEF Member
<1>7. PICK ch2 : ch2 = addUser(now, t, AsMember(in))
  OBVIOUS
<1>8. ch2.users[t] = m /\ ch2.name = now.name /\ \A d \in Slot \ {t} : ch2.users[d] = now.users[d]
  BY <1>4, <1>5, <1>7 DEF addUser, ChannelRec
<1>9. channel'[b] = ch2 /\ \A a \in Block \ {b} : channel'[a] = channel[a]
  BY <1>1, <1>7 DEF TypeOK, now
<1>10. Live(channel'[b]) /\ channel'[b].name = ch.name
  BY <1>2, <1>4, <1>8, <1>9, ChannelAssumption DEF SameSeats, Live
<1>11. ASSUME NEW d \in Slot \ {t}
       PROVE  Stays(b, d)
  <2>1. channel'[b].users[d] = now.users[d] /\ channel[b].users[d] = ch.users[d]
    BY <1>2, <1>8, <1>9
  <2>2. ~ch.users[d].on => ch.users[d] = Off
    BY <1>2 DEF Seated, Seat
  <2>3. ch.users[d].on => ch = channel[b]
    BY <1>2 DEF Seated, Seat, NoChannel, Empty, Off
  <2>4. /\ now.users[d].on <=> ch.users[d].on
        /\ ~ch.users[d].on => now.users[d] = ch.users[d]
    BY <1>4 DEF SameSeats
  <2>5. QED
    BY <1>4, <2>1, <2>2, <2>3, <2>4 DEF Stays
<1>12. QED
  BY <1>1, <1>2, <1>6, <1>8, <1>9, <1>10, <1>11

-----------------------------------------------------------------------------
(* What staff does, between two rounds of the loop.                        *)

\* A channel is left alone, or has other properties and all its users or none.
Restated(b) ==
    \/ channel'[b] = channel[b]
    \/ /\ Live(channel'[b])
       /\ channel'[b].users = channel[b].users \/ channel'[b].users = Empty
       /\ Live(channel[b]) => channel'[b].name = channel[b].name

Staffed(b) == Restated(b) \/ channel'[b] = NoChannel

LEMMA PropsKeepUsers ==
    ASSUME NEW ch \in ChannelRec, NEW props \in PropRec
    PROVE  /\ applyChanProps(ch, props).users = ch.users
           /\ applyChanProps(ch, props).name = ch.name
           /\ clearProps(ch).users = ch.users /\ clearProps(ch).name = ch.name
           /\ Cleared(ch).users = Empty /\ Cleared(ch).name = ch.name
BY DEF applyChanProps, clearProps, Cleared, ChannelRec

LEMMA SetPropsRestate ==
    ASSUME TypeOK, Seated, NEW n \in Name, NEW props \in PropRec, NEW kick \in BOOLEAN,
           SetChanProps(n, props, kick)
    PROVE  \A b \in Block : Restated(b)
<1>0. channel \in [Block -> ChannelRec]
  BY DEF TypeOK
<1>1. CASE "z" \in props.flags /\ find_chan(n) = {}
  <2>1. PICK a \in Block : /\ ~Live(channel[a])
                           /\ channel' = [channel EXCEPT ![a] =
                                applyChanProps([NoChannel EXCEPT !.name = n], props)]
    BY <1>1 DEF SetChanProps
  <2>2. PICK new : new = [NoChannel EXCEPT !.name = n]
    OBVIOUS
  <2>3. new \in ChannelRec /\ new.name = n /\ new.users = Empty
    <3>1. NoChannel \in ChannelRec
      BY OffIsMember
    <3>2. QED
      BY <2>2, <3>1 DEF ChannelRec, NoChannel
  <2>4. channel'[a] = applyChanProps(new, props) /\ \A b \in Block \ {a} : channel'[b] = channel[b]
    BY <1>0, <2>1, <2>2
  <2>5. channel'[a].name = n /\ channel'[a].users = Empty
    BY <2>3, <2>4, PropsKeepUsers
  <2>6. QED
    BY <2>1, <2>4, <2>5, ChannelAssumption DEF Restated, Live
<1>2. CASE ~("z" \in props.flags /\ find_chan(n) = {})
  <2>1. channel' = [b \in Block |->
               IF b \notin find_chan(n) THEN channel[b]
               ELSE IF kick THEN Cleared(channel[b])
               ELSE applyChanProps(channel[b], props)]
    BY <1>2 DEF SetChanProps
  <2>2. ASSUME NEW b \in Block
        PROVE  Restated(b)
    <3>1. channel[b] \in ChannelRec
      BY <1>0
    <3>2. CASE b \notin find_chan(n)
      BY <2>1, <3>2 DEF Restated
    <3>3. CASE b \in find_chan(n)
      <4>1. Live(channel[b])
        BY <3>3, ChannelAssumption DEF find_chan, SameName, Live
      <4>2. channel'[b] = IF kick THEN Cleared(channel[b]) ELSE applyChanProps(channel[b], props)
        BY <2>1, <3>3
      <4>3. QED
        BY <3>1, <4>1, <4>2, PropsKeepUsers DEF Restated, Live
    <3>4. QED
      BY <3>2, <3>3
  <2>3. QED
    BY <2>2
<1>3. QED
  BY <1>1, <1>2

LEMMA DelPropsRestate ==
    ASSUME TypeOK, Seated, NEW n \in Name, NEW reset \in BOOLEAN, DelChanProps(n, reset)
    PROVE  \/ (\A b \in Block : Restated(b)) /\ UNCHANGED <<localmode, invite, older>>
           \/ \E b \in Block : deleteChannel(b)
<1>0. channel \in [Block -> ChannelRec]
  BY DEF TypeOK
<1>1. CASE chanprops' = chanprops \/ find_chan(n) = {}
  BY <1>1 DEF DelChanProps, Restated
<1>2. CASE ~(chanprops' = chanprops \/ find_chan(n) = {}) /\ reset
  BY <1>2 DEF DelChanProps, find_chan
<1>3. CASE ~(chanprops' = chanprops \/ find_chan(n) = {}) /\ ~reset
  <2>1. /\ UNCHANGED <<localmode, invite, older>>
        /\ channel' = [b \in Block |-> IF b \in find_chan(n) THEN clearProps(channel[b]) ELSE channel[b]]
    BY <1>3 DEF DelChanProps
  <2>2. ASSUME NEW b \in Block
        PROVE  Restated(b)
    <3>1. CASE b \notin find_chan(n)
      BY <2>1, <3>1 DEF Restated
    <3>2. CASE b \in find_chan(n)
      <4>1. Live(channel[b]) /\ channel'[b] = clearProps(channel[b])
        BY <2>1, <3>2, ChannelAssumption DEF find_chan, SameName, Live
      <4>2. channel'[b].users = channel[b].users /\ channel'[b].name = channel[b].name
        BY <1>0, <4>1 DEF clearProps, ChannelRec
      <4>3. QED
        BY <4>1, <4>2 DEF Restated, Live
    <3>3. QED
      BY <3>1, <3>2
  <2>3. QED
    BY <2>1, <2>2
<1>4. QED
  BY <1>1, <1>2, <1>3

LEMMA NobodysTurn ==
    ASSUME TypeOK, Waiting, NEW c \in Slot
    PROVE  ~mainLoop(c)
BY PeerchatAssumption
   DEF Waiting, Between, mainLoop, pingTimeout, deleteClient, notReadable, hungUp, startLines, endLines,
       quitOne, quitDone, parseIncoming, cmd_nick, cmd_crypt, cmd_quit, cmd_join, cmd_join_next,
       cmd_fjoin, cmd_part, cmd_kick, cmd_mode, cmd_invite, cmd_kill, cmd_setrights,
       Ordinary, Command, Line

LEMMA StaffSteps ==
    ASSUME TypeOK, Seated, [Next]_vars, Waiting
    PROVE  \A b \in Block : Staffed(b)
<1>1. (UNCHANGED channel) => \A b \in Block : Staffed(b)
  BY DEF Staffed, Restated
<1>2. ASSUME processQueue
      PROVE  \A b \in Block : Staffed(b)
  <2>1. ASSUME NEW n \in Name, NEW p \in PropSet, NEW kick \in BOOLEAN, SetChanProps(n, p, kick)
        PROVE  \A b \in Block : Staffed(b)
    BY <2>1, SetPropsRestate, PeerchatAssumption DEF Staffed
  <2>2. ASSUME NEW n \in Name, NEW reset \in BOOLEAN, DelChanProps(n, reset)
        PROVE  \A b \in Block : Staffed(b)
    <3>1. ASSUME NEW a \in Block, deleteChannel(a)
          PROVE  \A b \in Block : Staffed(b)
      BY <3>1 DEF deleteChannel, TypeOK, Staffed, Restated
    <3>2. QED
      BY <2>2, <3>1, DelPropsRestate DEF Staffed
  <2>3. QED
    BY <1>1, <1>2, <2>1, <2>2 DEF processQueue, ChanClient, AuthClient, resetByProfileID, objects
<1>3. QED
  BY <1>1, <1>2, NobodysTurn DEF Next, vars, startPass, objects, accept

-----------------------------------------------------------------------------
(* Who is on a channel has a place there, and nobody else has.             *)

LEMMA SeatedStep == TypeOK /\ Seated /\ [Next]_vars => Seated'
<1> SUFFICES ASSUME TypeOK, Seated, [Next]_vars
             PROVE  Seated'
  OBVIOUS
<1>0. channel \in [Block -> ChannelRec] /\ \A b \in Block : Seat(channel[b])
  BY DEF TypeOK, Seated
<1>1. SUFFICES \A b \in Block : Seat(channel'[b])
  BY DEF Seated
<1>2. CASE Waiting
  <2>1. ASSUME NEW b \in Block
        PROVE  Seat(channel'[b])
    <3>1. Staffed(b)
      BY <1>2, StaffSteps
    <3>2. QED
      BY <1>0, <3>1, NoChannelSeat DEF Staffed, Restated, Seat, Empty
  <2>2. QED
    BY <2>1
<1>3. CASE ~Waiting
  <2>1. CASE UNCHANGED channel
    BY <1>0, <2>1
  <2>2. ASSUME NEW b \in Block, NEW c \in Slot, Leaves(b, c)
        PROVE  \A a \in Block : Seat(channel'[a])
    <3>1. Seat(channel'[b])
      BY <1>0, <2>2, NoChannelSeat DEF Leaves, Seat, Live
    <3>2. QED
      BY <1>0, <2>2, <3>1 DEF Leaves
  <2>3. ASSUME NEW b \in Block, SetsModes(b)
        PROVE  \A a \in Block : Seat(channel'[a])
    BY <1>0, <2>3, ModesSet, SeatsKept
  <2>4. ASSUME NEW t \in Slot, NEW n \in Name, NEW x \in Extra, NEW info \in Info, Joins(t, n, x, info)
        PROVE  \A a \in Block : Seat(channel'[a])
    <3>1. ASSUME NEW b \in Block, Reapplied(t, b)
          PROVE  \A a \in Block : Seat(channel'[a])
      <4>1. /\ channel'[b] = Applied(channel[b], client[t].host) /\ Live(channel[b])
            /\ \A a \in Block \ {b} : channel'[a] = channel[a]
        BY <1>0, <3>1 DEF Reapplied
      <4>2. SameSeats(channel[b], channel'[b])
        BY <1>0, <4>1, AppliedSeats
      <4>3. QED
        BY <1>0, <4>1, <4>2, SeatsKept
    <3>2. ASSUME NEW b \in Block, GetsOn(t, n, x, info, b)
          PROVE  \A a \in Block : Seat(channel'[a])
      <4>1. /\ \A a \in Block \ {b} : channel'[a] = channel[a]
            /\ Live(channel'[b]) /\ channel'[b].users[t].on
        BY <3>2, OneMore, OnlyThere
      <4>a. ASSUME NEW d \in Slot \ {t}
            PROVE  channel'[b].users[d].on \/ channel'[b].users[d] = Off
        BY <3>2, OneMore DEF Stays
      <4>2. Seat(channel'[b])
        BY <4>1, <4>a DEF Seat
      <4>3. QED
        BY <1>0, <4>1, <4>2
    <3>3. QED
      BY <1>0, <2>4, <3>1, <3>2 DEF Joins
  <2>5. QED
    BY <1>3, <2>1, <2>2, <2>3, <2>4, ChannelSteps
<1>4. QED
  BY <1>2, <1>3

\* On every channel.  (Nothing here is about unused memory but its name.)
LEMMA EverybodySeated == Spec => []Seated
<1>1. Init => Seated
  BY NoChannelSeat DEF Init, Seated
<1>2. QED
  BY <1>1, SeatedStep, TypeCorrect, PTL DEF Spec

-----------------------------------------------------------------------------
(* Properties of steps.                                                    *)

LEMMA SameDeserted ==
    ASSUME NEW ch, NEW ch2, SameSeats(ch, ch2), Deserted(ch2)
    PROVE  Deserted(ch)
BY DEF SameSeats, Deserted, Live, Emptied, On

LEMMA ReappliedSeats ==
    ASSUME TypeOK, NEW t \in Slot, NEW b \in Block, Reapplied(t, b)
    PROVE  /\ \A a \in Block \ {b} : channel'[a] = channel[a]
           /\ Live(channel[b]) /\ SameSeats(channel[b], channel'[b])
           /\ \A d \in Slot : LET m == channel[b].users[d] m2 == channel'[b].users[d]
                             IN /\ m2.owner = m.owner /\ m2.halfop = m.halfop /\ m2.voice = m.voice
                                /\ m2.op # m.op => "a" \in channel[b].flags
<1>1. /\ channel'[b] = Applied(channel[b], client[t].host) /\ Live(channel[b])
      /\ \A a \in Block \ {b} : channel'[a] = channel[a]
      /\ channel[b] \in ChannelRec
  BY DEF Reapplied, TypeOK
<1>2. PICK ch : ch = Applied(channel[b], client[t].host)
  OBVIOUS
<1>3. /\ SameSeats(channel[b], ch)
      /\ \A d \in Slot : LET m == channel[b].users[d] m2 == ch.users[d]
                        IN /\ m2.owner = m.owner /\ m2.halfop = m.halfop /\ m2.voice = m.voice
                           /\ m2.op # m.op => "a" \in channel[b].flags
  BY <1>1, <1>2, AppliedSeats
<1>4. channel'[b] = ch
  BY <1>1, <1>2
<1>5. QED
  BY <1>1, <1>3, <1>4

LEMMA DesertStep ==
    ASSUME TypeOK, Seated, [Next]_vars, ~Waiting
    PROVE  \A b \in Block : Deserted(channel'[b]) => Deserted(channel[b])
<1>1. CASE UNCHANGED channel
  BY <1>1
<1>2. ASSUME NEW b \in Block, NEW c \in Slot, Leaves(b, c)
      PROVE  \A a \in Block : Deserted(channel'[a]) => Deserted(channel[a])
  <2>1. ~Deserted(channel'[b])
    BY <1>2 DEF Leaves, Deserted, Live, NoChannel
  <2>2. QED
    BY <1>2, <2>1 DEF Leaves
<1>3. ASSUME NEW b \in Block, SetsModes(b)
      PROVE  \A a \in Block : Deserted(channel'[a]) => Deserted(channel[a])
  BY <1>3, ModesSet, SameDeserted
<1>4. ASSUME NEW t \in Slot, NEW n \in Name, NEW x \in Extra, NEW info \in Info, Joins(t, n, x, info)
      PROVE  \A a \in Block : Deserted(channel'[a]) => Deserted(channel[a])
  <2>1. ASSUME NEW b \in Block, Reapplied(t, b)
        PROVE  \A a \in Block : Deserted(channel'[a]) => Deserted(channel[a])
    BY <2>1, ReappliedSeats, SameDeserted
  <2>2. ASSUME NEW b \in Block, GetsOn(t, n, x, info, b)
        PROVE  \A a \in Block : Deserted(channel'[a]) => Deserted(channel[a])
    <3>1. channel'[b].users[t].on /\ \A a \in Block \ {b} : channel'[a] = channel[a]
      BY <2>2, OneMore, OnlyThere
    <3>2. ~Deserted(channel'[b])
      BY <3>1 DEF Deserted, Emptied, On
    <3>3. QED
      BY <3>1, <3>2
  <2>3. QED
    BY <1>1, <1>4, <2>1, <2>2 DEF Joins
<1>5. QED
  BY <1>1, <1>2, <1>3, <1>4, ChannelSteps

\* ClientsDesertNothing: whatever clients do, in any order, no channel without
\* users and without z stays behind that was not there before.
THEOREM NothingIsDeserted == Spec => ClientsDesertNothing
<1> DEFINE A == ~Waiting => \A b \in Block : Deserted(channel[b])' => Deserted(channel[b])
<1>1. TypeOK /\ Seated /\ [Next]_vars => [A]_vars
  <2>1. SUFFICES ASSUME TypeOK, Seated, [Next]_vars, ~Waiting
                 PROVE  \A b \in Block : Deserted(channel[b])' => Deserted(channel[b])
    OBVIOUS
  <2>2. \A b \in Block : Deserted(channel'[b]) => Deserted(channel[b])
    BY <2>1, DesertStep
  <2>3. QED
    BY <2>2 DEF Deserted, Live, Emptied, On
<1>2. QED
  BY <1>1, TypeCorrect, EverybodySeated, PTL DEF Spec, ClientsDesertNothing

\* Owners.

LEMMA OwnerStep ==
    ASSUME TypeOK, Seated, [Next]_vars, ~Waiting, NEW a \in Block, NEW c \in Slot,
           Owner(a, c), ~(channel'[a].users[c].on /\ channel'[a].users[c].owner)
    PROVE  \/ c \in leaving \/ c = turn
           \/ turn \in Slot /\ (Owner(a, turn) \/ Overriding(turn))
<1>0. channel \in [Block -> ChannelRec] /\ channel[a].users[c].on /\ channel[a].users[c].owner
  BY DEF TypeOK, Owner
<1>1. CASE UNCHANGED channel
  BY <1>0, <1>1
<1>2. ASSUME NEW b \in Block, NEW d \in Slot, Leaves(b, d), MayLeave(b, d)
      PROVE  \/ c \in leaving \/ c = turn
             \/ turn \in Slot /\ (Owner(a, turn) \/ Overriding(turn))
  <2>1. a = b /\ c = d
    BY <1>0, <1>2 DEF Leaves
  <2>2. QED
    BY <1>0, <1>2, <2>1 DEF MayLeave, MayKick, Owner, Overriding
<1>3. ASSUME NEW b \in Block, SetsModes(b)
      PROVE  turn \in Slot /\ (Owner(a, turn) \/ Overriding(turn))
  <2> DEFINE st == Started(channel[b], turn)
  <2>1. turn \in Slot /\ channel[b] \in ChannelRec
    BY <1>0, <1>3 DEF SetsModes
  <2>2. /\ \A e \in Block \ {b} : channel'[e] = channel[e]
        /\ SameSeats(channel[b], channel'[b])
        /\ Given(st, turn, client[turn].rights, st.users[c], channel'[b].users[c])
    BY <1>3, ModesSet
  <2>3. a = b
    BY <1>0, <2>2
  <2>4. \A d \in Slot : st.users[d].owner = channel[b].users[d].owner
    BY <2>1, StartedInRank
  <2>5. channel'[b].users[c].on
    BY <1>0, <2>2, <2>3 DEF SameSeats
  <2>6. MayOwner(st, turn, client[turn].rights)
    BY <1>0, <2>2, <2>3, <2>4, <2>5 DEF Given
  <2>7. st.users[turn].owner \/ Overriding(turn)
    BY <2>6 DEF MayOwner, Overrides, Overriding
  <2>8. channel[b].users[turn].owner => channel[b].users[turn].on
    BY <2>1 DEF Seated, Seat, Off
  <2>9. QED
    BY <2>1, <2>3, <2>4, <2>7, <2>8 DEF Owner
<1>4. ASSUME NEW t \in Slot, NEW n \in Name, NEW x \in Extra, NEW info \in Info, Joins(t, n, x, info)
      PROVE  FALSE
  <2>1. ASSUME NEW b \in Block, Reapplied(t, b)
        PROVE  FALSE
    <3>1. channel'[b].users[c].owner = channel[b].users[c].owner
      BY <2>1, ReappliedSeats
    <3>2. QED
      BY <1>0, <2>1, <3>1, ReappliedSeats DEF SameSeats
  <2>2. ASSUME NEW b \in Block, GetsOn(t, n, x, info, b)
        PROVE  FALSE
    <3>0. ~channel[b].users[t].on /\ \A e \in Block \ {b} : channel'[e] = channel[e]
      BY <2>2, OneMore, OnlyThere
    <3>1. a = b /\ c # t
      BY <1>0, <3>0
    <3>2. c \in Slot \ {t}
      BY <3>1
    <3>3. /\ channel'[b].users[c].on <=> channel[b].users[c].on
          /\ channel'[b].users[c].owner = channel[b].users[c].owner
      BY <2>2, <3>2, OneMore DEF Stays
    <3>4. QED
      BY <1>0, <3>1, <3>3
  <2>3. QED
    BY <1>0, <1>4, <2>1, <2>2 DEF Joins
<1>5. QED
  BY <1>1, <1>2, <1>3, <1>4, ChannelSteps

\* OwnersStand: who brings an owner down is an owner of that channel, has
\* OPEROVERRIDE, or is staff or the owner itself.
THEOREM OwnersAreSafe == Spec => OwnersStand
<1> DEFINE A == \A b \in Block, c \in Slot :
                  Owner(b, c) /\ ~Owner(b, c)' =>
                     \/ Waiting \/ c \in leaving \/ c = turn
                     \/ turn \in Slot /\ (Owner(b, turn) \/ Overriding(turn))
<1>1. TypeOK /\ Seated /\ [Next]_vars => [A]_vars
  <2>1. SUFFICES ASSUME TypeOK, Seated, [Next]_vars, ~Waiting, NEW b \in Block, NEW c \in Slot,
                        Owner(b, c), ~Owner(b, c)'
                 PROVE  \/ c \in leaving \/ c = turn
                        \/ turn \in Slot /\ (Owner(b, turn) \/ Overriding(turn))
    OBVIOUS
  <2>2. ~(channel'[b].users[c].on /\ channel'[b].users[c].owner)
    BY <2>1 DEF Owner
  <2>3. QED
    BY <2>1, <2>2, OwnerStep
<1>2. QED
  BY <1>1, TypeCorrect, EverybodySeated, PTL DEF Spec, OwnersStand

\* Ranks.

LEMMA RankStep ==
    ASSUME TypeOK, Seated, [Next]_vars, NEW a \in Block, NEW c \in Slot,
           NEW was, was = channel[a].users[c], NEW is, is = channel'[a].users[c],
           NEW gainedOp, gainedOp = ((is.op /\ ~was.op) \/ (is.owner /\ ~was.owner)),
           NEW gainedHalfop, gainedHalfop = (is.halfop /\ ~was.halfop),
           was.on, is.on, gainedOp \/ gainedHalfop \/ (is.voice /\ ~was.voice)
    PROVE  /\ turn \in Slot
           /\ \/ MayRaise(channel[a], turn, gainedOp, gainedHalfop)
              \/ c = turn /\ was.op /\ ~gainedOp
<1> DEFINE Goal == /\ turn \in Slot
                   /\ \/ MayRaise(channel[a], turn, gainedOp, gainedHalfop)
                      \/ c = turn /\ was.op /\ ~gainedOp
<1>0. channel \in [Block -> ChannelRec] /\ is # was /\ is # Off
  <2>1. is # was
    <3>1. SUFFICES ASSUME is = was PROVE FALSE
      OBVIOUS
    <3>2. QED
      BY <3>1
  <2>2. QED
    BY <2>1 DEF TypeOK, Off
<1>1. ~Waiting
  <2>1. SUFFICES ASSUME Waiting PROVE FALSE
    OBVIOUS
  <2>2. Staffed(a)
    BY <2>1, StaffSteps
  <2>3. QED
    BY <1>0, <2>2 DEF Staffed, Restated, NoChannel, Empty
<1>2. CASE UNCHANGED channel
  BY <1>0, <1>2
<1>3. ASSUME NEW b \in Block, NEW d \in Slot, Leaves(b, d)
      PROVE  FALSE
  BY <1>0, <1>3 DEF Leaves
<1>4. ASSUME NEW b \in Block, SetsModes(b)
      PROVE  Goal
  <2> DEFINE st == Started(channel[b], turn)
             rights == client[turn].rights
  <2>1. turn \in Slot /\ channel[b] \in ChannelRec
    BY <1>0, <1>4 DEF SetsModes
  <2>2. /\ \A e \in Block \ {b} : channel'[e] = channel[e]
        /\ Given(st, turn, rights, st.users[c], channel'[b].users[c])
    BY <1>4, ModesSet
  <2>3. a = b
    BY <1>0, <2>2
  <2>4. Given(st, turn, rights, st.users[c], is)
    BY <2>2, <2>3
  <2>5. PICK self : self = channel[a].users[turn]
    OBVIOUS
  <2>6. PICK self2 : self2 = st.users[turn]
    OBVIOUS
  <2>7. /\ self2.owner = self.owner /\ self2.voice = self.voice
        /\ self2.op => self.op \/ self.owner
        /\ self2.halfop => self.halfop \/ self.op \/ self.owner
        /\ st.flags = channel[a].flags
        /\ c # turn => st.users[c] = was
        /\ c = turn => self = was /\ self2 = st.users[c]
    BY <2>1, <2>3, <2>5, <2>6, StartedInRank
  <2>8. /\ MayOwner(st, turn, rights) <=> self2.owner \/ Overrides(st, turn, rights)
        /\ MayOp(st, turn, rights) <=> self2.op \/ Overrides(st, turn, rights)
        /\ Ranked(st.users[turn]) <=> self2.halfop \/ self2.op \/ self2.owner
        /\ Overrides(st, turn, rights) =>
              Overriding(turn) /\ ("onlyowner" \in channel[a].flags => self.owner)
    BY <2>6, <2>7 DEF MayOwner, MayOp, Ranked, Overrides, Overriding
  <2>9. PICK mid : mid = st.users[c]
    OBVIOUS
  <2>10. /\ is.owner # mid.owner => MayOwner(st, turn, rights)
         /\ is.op /\ ~mid.op => MayOwner(st, turn, rights)
         /\ is.halfop /\ ~mid.halfop => MayOwner(st, turn, rights) \/ MayOp(st, turn, rights)
         /\ is.voice /\ ~mid.voice => Ranked(st.users[turn]) \/ Overrides(st, turn, rights)
    BY <2>4, <2>9 DEF Given
  <2>11. MayRaise(channel[a], turn, gainedOp, gainedHalfop) <=>
            \/ self.owner \/ (self.op /\ ~gainedOp)
            \/ (self.halfop /\ ~gainedOp /\ ~gainedHalfop)
            \/ (Overriding(turn) /\ ("onlyowner" \in channel[a].flags => self.owner))
            \/ "a" \in channel[a].flags
    BY <2>5 DEF MayRaise
  <2>12. CASE c # turn
    <3>1. mid = was
      BY <2>7, <2>9, <2>12
    <3>2. QED
      BY <2>1, <2>7, <2>8, <2>10, <2>11, <3>1
  <2>13. CASE c = turn
    <3>1. mid = self2 /\ was = self
      BY <2>7, <2>9, <2>13
    <3>2. QED
      BY <2>1, <2>7, <2>8, <2>10, <2>11, <2>13, <3>1
  <2>14. QED
    BY <2>12, <2>13
<1>5. ASSUME turn \in Slot, NEW t \in Slot, NEW n \in Name, NEW x \in Extra, NEW info \in Info,
             Joins(t, n, x, info)
      PROVE  Goal
  <2>0. ASSUME "a" \in channel[a].flags
        PROVE  Goal
    BY <1>5, <2>0 DEF MayRaise
  <2>1. ASSUME NEW b \in Block, Reapplied(t, b)
        PROVE  Goal
    <3>1. a = b
      BY <1>0, <2>1, ReappliedSeats
    <3>2. /\ is.owner = was.owner /\ is.halfop = was.halfop /\ is.voice = was.voice
          /\ is.op # was.op => "a" \in channel[a].flags
      BY <2>1, <3>1, ReappliedSeats
    <3>3. QED
      BY <2>0, <3>2
  <2>2. ASSUME NEW b \in Block, GetsOn(t, n, x, info, b)
        PROVE  Goal
    <3>0. ~channel[b].users[t].on /\ \A e \in Block \ {b} : channel'[e] = channel[e]
      BY <2>2, OneMore, OnlyThere
    <3>1. a = b /\ c \in Slot \ {t}
      BY <1>0, <3>0
    <3>2. /\ is.owner = was.owner /\ is.halfop = was.halfop /\ is.voice = was.voice
          /\ is.op # was.op => "a" \in channel[a].flags
      BY <2>2, <3>1, OneMore DEF Stays
    <3>3. QED
      BY <2>0, <3>2
  <2>3. QED
    BY <1>2, <1>5, <2>1, <2>2 DEF Joins
<1>6. QED
  BY <1>1, <1>2, <1>3, <1>4, <1>5, ChannelSteps

\* RanksAreGiven: whoever gains a rank has it from somebody entitled to give it.
THEOREM NobodyRisesAlone == Spec => RanksAreGiven
<1> DEFINE A == \A b \in Block, c \in Slot :
          LET was == channel[b].users[c] is == channel'[b].users[c]
              gainedOp == (is.op /\ ~was.op) \/ (is.owner /\ ~was.owner)
              gainedHalfop == is.halfop /\ ~was.halfop
          IN was.on /\ is.on /\ (gainedOp \/ gainedHalfop \/ (is.voice /\ ~was.voice)) =>
                /\ turn \in Slot
                /\ \/ MayRaise(channel[b], turn, gainedOp, gainedHalfop)
                   \/ c = turn /\ was.op /\ ~gainedOp
<1>1. TypeOK /\ Seated /\ [Next]_vars => [A]_vars
  <2>1. SUFFICES ASSUME TypeOK, Seated, [Next]_vars
                 PROVE  A
    OBVIOUS
  <2>2. ASSUME NEW b \in Block, NEW c \in Slot
        PROVE  LET was == channel[b].users[c] is == channel'[b].users[c]
                   gainedOp == (is.op /\ ~was.op) \/ (is.owner /\ ~was.owner)
                   gainedHalfop == is.halfop /\ ~was.halfop
               IN was.on /\ is.on /\ (gainedOp \/ gainedHalfop \/ (is.voice /\ ~was.voice)) =>
                     /\ turn \in Slot
                     /\ \/ MayRaise(channel[b], turn, gainedOp, gainedHalfop)
                        \/ c = turn /\ was.op /\ ~gainedOp
    <3>1. PICK was : was = channel[b].users[c]
      OBVIOUS
    <3>2. PICK is : is = channel'[b].users[c]
      OBVIOUS
    <3>3. PICK g \in BOOLEAN : g = ((is.op /\ ~was.op) \/ (is.owner /\ ~was.owner))
      OBVIOUS
    <3>4. PICK h \in BOOLEAN : h = (is.halfop /\ ~was.halfop)
      OBVIOUS
    <3>5. was.on /\ is.on /\ (g \/ h \/ (is.voice /\ ~was.voice)) =>
             /\ turn \in Slot
             /\ MayRaise(channel[b], turn, g, h) \/ (c = turn /\ was.op /\ ~g)
      BY <2>1, <3>1, <3>2, <3>3, <3>4, RankStep
    <3>6. QED
      BY <3>1, <3>2, <3>3, <3>4, <3>5 DEF MayRaise
  <2>3. QED
    BY <2>2
<1>2. QED
  BY <1>1, TypeCorrect, EverybodySeated, PTL DEF Spec, RanksAreGiven

-----------------------------------------------------------------------------
(* Who gets on a channel, and on how many.                                 *)

LEMMA NobodyGetsOn ==
    ASSUME TypeOK, Seated, [Next]_vars
    PROVE  \/ \A b \in Block, d \in Slot : channel'[b].users[d].on => channel[b].users[d].on
           \/ \E t \in Slot, n \in Name, x \in Extra, info \in Info, b \in Block :
                 /\ info = NoInfo \/ (joining.on /\ info = joining.info)
                 /\ GetsOn(t, n, x, info, b)
<1> DEFINE Nobody == \A b \in Block, d \in Slot : channel'[b].users[d].on => channel[b].users[d].on
<1>0. channel \in [Block -> ChannelRec]
  BY DEF TypeOK
<1>1. (UNCHANGED channel) => Nobody
  OBVIOUS
<1>2. CASE Waiting
  <2>1. ASSUME NEW b \in Block, NEW d \in Slot, channel'[b].users[d].on
        PROVE  channel[b].users[d].on
    <3>1. Staffed(b)
      BY <1>2, StaffSteps
    <3>2. QED
      BY <2>1, <3>1 DEF Staffed, Restated, NoChannel, Empty, Off
  <2>2. QED
    BY <2>1
<1>3. ASSUME NEW b \in Block, NEW c \in Slot, Leaves(b, c)
      PROVE  Nobody
  BY <1>3 DEF Leaves, Off
<1>4. ASSUME NEW b \in Block, SetsModes(b)
      PROVE  Nobody
  BY <1>4, ModesSet DEF SameSeats
<1>5. ASSUME NEW t \in Slot, NEW b \in Block, Reapplied(t, b)
      PROVE  Nobody
  <2>1. SameSeats(channel[b], channel'[b]) /\ \A a \in Block \ {b} : channel'[a] = channel[a]
    BY <1>5, ReappliedSeats
  <2>2. QED
    BY <2>1 DEF SameSeats
<1> HIDE DEF Nobody
<1>6. CASE ~Waiting
  BY <1>1, <1>3, <1>4, <1>5, <1>6, ChannelSteps DEF Joins, Nobody
<1>7. QED
  BY <1>2, <1>6

LEMMA EntitledTo ==
    ASSUME NEW info \in Info, NEW c, NEW n, NEW own, own = Entitled(c, n, info)
    PROVE  /\ own.invited = info.invited
           /\ own.op => \/ info.op \/ "o" \in getUserChannelModes(c, n)
                        \/ "GETOPS" \in client[c].rights
           /\ own.owner => \/ info.owner \/ "O" \in getUserChannelModes(c, n)
                           \/ "GLOBALOWNER" \in client[c].rights
BY DEF Entitled, Info

LEMMA AskedFor ==
    ASSUME NEW own \in Info, NEW c, NEW n, NEW x, NEW in, in = Asked(c, n, x, own)
    PROVE  /\ in.invited => own.invited \/ "I" \in getUserChannelModes(c, n)
           /\ in.op => own.op
           /\ in.owner => own.owner
<1>1. PICK mid : mid = [own EXCEPT !.invited = @ \/ "I" \in getUserChannelModes(c, n)]
  OBVIOUS
<1>2. /\ mid \in Info /\ mid.op = own.op /\ mid.owner = own.owner
      /\ mid.invited => own.invited \/ "I" \in getUserChannelModes(c, n)
  BY <1>1 DEF Info
<1>3. in = CASE x = "i" -> [mid EXCEPT !.invisible = "INVISIBLE" \in client[c].rights]
             [] x = "n" -> [mid EXCEPT !.voice = FALSE, !.halfop = FALSE,
                                       !.op = FALSE, !.owner = FALSE]
             [] OTHER   -> mid
  BY <1>1 DEF Asked
<1>5. CASE x = "i"
  <2>1. in = [mid EXCEPT !.invisible = "INVISIBLE" \in client[c].rights]
    BY <1>3, <1>5
  <2>2. QED
    BY <1>2, <2>1 DEF Info
<1>6. CASE x = "n"
  <2>1. in = [mid EXCEPT !.voice = FALSE, !.halfop = FALSE, !.op = FALSE, !.owner = FALSE]
    BY <1>3, <1>6
  <2>2. QED
    BY <1>2, <2>1 DEF Info
<1>7. CASE x # "i" /\ x # "n"
  BY <1>2, <1>3, <1>7
<1>8. QED
  BY <1>5, <1>6, <1>7

LEMMA WelcomedAs ==
    ASSUME NEW asked \in Info, NEW c, NEW b, NEW ch, Live(channel[b]),
           NEW in, in = Welcomed(c, b, ch, asked)
    PROVE  Privileged(in) => Privileged(asked) \/ isUserInvited(c, b) \/ "a" \in ch.flags
<1>1. PICK all \in BOOLEAN : all = (("r" \in ch.flags /\ ~Live(channel[b])) \/ "a" \in ch.flags)
  OBVIOUS
<1>2. in = [asked EXCEPT !.owner = @ \/ all, !.halfop = @ \/ all, !.op = @ \/ all,
                         !.invited = @ \/ isUserInvited(c, b)]
  BY <1>1 DEF Welcomed
<1>3. /\ in.invited => asked.invited \/ isUserInvited(c, b)
      /\ in.op => asked.op \/ all
      /\ in.owner => asked.owner \/ all
  BY <1>2 DEF Info
<1>4. QED
  BY <1>1, <1>3 DEF Privileged

LEMMA SameModes ==
    ASSUME NEW c, NEW n, NEW m, SameName(m, n)
    PROVE  getUserChannelModes(c, n) = getUserChannelModes(c, m)
<1>1. \A k : SameName(k, n) <=> SameName(k, m)
  BY DEF SameName
<1>2. QED
  BY <1>1 DEF getUserChannelModes

LEMMA DoorStep ==
    ASSUME TypeOK, Seated, [Next]_vars, NEW b \in Block, NEW c \in Slot,
           Live(channel[b]), "i" \in channel[b].flags,
           ~channel[b].users[c].on, channel'[b].users[c].on
    PROVE  \/ isUserInvited(c, b) \/ "a" \in channel[b].flags
           \/ getUserChannelModes(c, channel[b].name) \intersect {"I", "o", "O"} # {}
           \/ client[c].rights \intersect {"GETOPS", "GLOBALOWNER"} # {}
           \/ joining.on /\ Privileged(joining.info)
<1>1. PICK t \in Slot, n \in Name, x \in Extra, info \in Info, a \in Block :
         /\ info = NoInfo \/ (joining.on /\ info = joining.info)
         /\ GetsOn(t, n, x, info, a)
  BY NobodyGetsOn
<1>2. a = b /\ t = c
  <2>1. \A e \in Block \ {a} : channel'[e] = channel[e]
    BY <1>1, OnlyThere
  <2>2. \A d \in Slot \ {t} : channel'[a].users[d].on => channel[a].users[d].on
    BY <1>1, OneMore DEF Stays
  <2>3. QED
    BY <2>1, <2>2
<1>3. PICK own : own = Entitled(c, n, info)
  OBVIOUS
<1>4. PICK asked : asked = Asked(c, n, x, own)
  OBVIOUS
<1>5. PICK in : in = Welcomed(c, b, channel[b], asked)
  OBVIOUS
<1>6. b \in Room(n) /\ Admits(c, x, channel[b], in)
  BY <1>1, <1>2, <1>3, <1>4, <1>5 DEF GetsOn
<1>7. Privileged(in)
  BY <1>6 DEF Admits
<1>8. own \in Info /\ asked \in Info
  BY <1>3, <1>4, InfoTypes
<1>9. Privileged(asked) \/ isUserInvited(c, b) \/ "a" \in channel[b].flags
  BY <1>5, <1>7, <1>8, WelcomedAs
<1>10. Privileged(asked) => Privileged(own) \/ "I" \in getUserChannelModes(c, n)
  BY <1>4, <1>8, AskedFor DEF Privileged
<1>11. Privileged(own) => \/ Privileged(info)
                          \/ "o" \in getUserChannelModes(c, n) \/ "O" \in getUserChannelModes(c, n)
                          \/ "GETOPS" \in client[c].rights \/ "GLOBALOWNER" \in client[c].rights
  BY <1>3, EntitledTo DEF Privileged
<1>12. Privileged(info) => joining.on /\ Privileged(joining.info)
  BY <1>1 DEF NoInfo, Privileged
<1>13. getUserChannelModes(c, n) = getUserChannelModes(c, channel[b].name)
  <2>1. b \in find_chan(n)
    BY <1>6 DEF Room
  <2>2. QED
    BY <2>1, SameModes DEF find_chan
<1>14. QED
  BY <1>9, <1>10, <1>11, <1>12, <1>13

\* DoorsAreKept: getting on a +i channel takes an invitation to it, a rank or
\* mode I of its own there, a channel that makes everybody op, or what earlier
\* names of the same JOIN have left in userInfo.
THEOREM NobodySlipsIn == Spec => DoorsAreKept
<1> DEFINE A == \A b \in Block, c \in Slot :
          /\ Live(channel[b]) /\ "i" \in channel[b].flags
          /\ ~channel[b].users[c].on /\ channel'[b].users[c].on
          => \/ isUserInvited(c, b) \/ "a" \in channel[b].flags
             \/ getUserChannelModes(c, channel[b].name) \intersect {"I", "o", "O"} # {}
             \/ client[c].rights \intersect {"GETOPS", "GLOBALOWNER"} # {}
             \/ joining.on /\ Privileged(joining.info)
<1>1. TypeOK /\ Seated /\ [Next]_vars => [A]_vars
  BY DoorStep
<1>2. QED
  BY <1>1, TypeCorrect, EverybodySeated, PTL DEF Spec, DoorsAreKept

LEMMA CrowdStep ==
    ASSUME TypeOK, Seated, [Next]_vars, NEW c \in Slot,
           NEW now, now = {b \in Block : channel[b].users[c].on},
           NEW then, then = {b \in Block : channel'[b].users[c].on},
           Cardinality(then) > MaxChans + 1
    PROVE  Cardinality(now) > MaxChans + 1 \/ Overriding(c)
<1>0. /\ IsFiniteSet(now) /\ IsFiniteSet(then)
      /\ Cardinality(now) \in Nat /\ Cardinality(then) \in Nat /\ MaxChans \in Nat
  BY PeerchatAssumption, FS_Subset, FS_CardinalityType
<1>1. CASE then \subseteq now
  <2>1. Cardinality(then) <= Cardinality(now)
    BY <1>0, <1>1, FS_Subset
  <2>2. QED
    BY <1>0, <2>1
<1>2. CASE ~(then \subseteq now)
  <2>1. PICK t \in Slot, n \in Name, x \in Extra, info \in Info, a \in Block : GetsOn(t, n, x, info, a)
    BY <1>2, NobodyGetsOn
  <2>2. \A e \in Block \ {a} : channel'[e] = channel[e]
    BY <2>1, OnlyThere
  <2>3. \A d \in Slot \ {t} : channel'[a].users[d].on => channel[a].users[d].on
    BY <2>1, OneMore DEF Stays
  <2>4. t = c
    BY <1>2, <2>2, <2>3
  <2>5. then \subseteq now \union {a} /\ now \in SUBSET (now \union {a})
    BY <2>2
  <2>6. Cardinality(then) <= Cardinality(now) + 1
    <3>1. IsFiniteSet(now \union {a}) /\ Cardinality(now \union {a}) <= Cardinality(now) + 1
      <4>1. /\ IsFiniteSet(now \union {a})
            /\ Cardinality(now \union {a}) = IF a \in now THEN Cardinality(now) ELSE Cardinality(now) + 1
        BY <1>0, FS_AddElement
      <4>2. QED
        BY <1>0, <4>1
    <3>2. Cardinality(then) <= Cardinality(now \union {a}) /\ Cardinality(now \union {a}) \in Nat
      BY <2>5, <3>1, FS_Subset, FS_CardinalityType
    <3>3. QED
      BY <1>0, <3>1, <3>2
  <2>7. numChans(c) > MaxChans
    BY <1>0, <2>6 DEF numChans
  <2>8. PICK ch, in : Admits(c, x, ch, in)
    BY <2>1, <2>4 DEF GetsOn
  <2>9. QED
    BY <2>7, <2>8 DEF Admits, Overriding
<1>3. QED
  BY <1>1, <1>2

\* OneTooManyAtMost: only who overrides gets beyond one channel too many.
THEOREM CrowdsAreRare == Spec => OneTooManyAtMost
<1> DEFINE A == \A c \in Slot : Overcrowds(c)' => Overcrowds(c) \/ Overriding(c)
<1>1. TypeOK /\ Seated /\ [Next]_vars => [A]_vars
  <2>1. SUFFICES ASSUME TypeOK, Seated, [Next]_vars, NEW c \in Slot, Overcrowds(c)'
                 PROVE  Overcrowds(c) \/ Overriding(c)
    OBVIOUS
  <2>2. Cardinality({b \in Block : channel'[b].users[c].on}) > MaxChans + 1
    BY <2>1 DEF Overcrowds, numChans
  <2>3. QED
    BY <2>1, <2>2, CrowdStep DEF Overcrowds, numChans
<1>2. QED
  BY <1>1, TypeCorrect, EverybodySeated, PTL DEF Spec, OneTooManyAtMost

-----------------------------------------------------------------------------
(* A step as seen from invite_list and from the local user modes: which of *)
(* the clients and channels they name go away, and what is removed then.   *)

ChannelsLast == \A b \in Block : Live(channel[b]) => channel'[b].name = channel[b].name

ClientsLast == \A c \in Slot : client[c].live => client'[c].live

Removal == \E gone : removeChannelInvite(gone)

\* A JOIN: user modes are added for a channel that there then is.
Adds ==
    \/ UNCHANGED localmode
    \/ \E t \in Slot, n \in Name, b \in Block : \E ch :
          \/ localmode' = Noted(t, b, n, ch) /\ SameName(channel'[b].name, n)
          \/ localmode' = clearnonGlobalModes(Noted(t, b, n, ch), n)

JoinStores ==
    /\ ChannelsLast /\ Adds /\ UNCHANGED client
    /\ UNCHANGED <<invite, older>> \/ Removal

Invites == \E c \in Listed, b \in Block :
    /\ Live(channel[b]) /\ addChannelInvite(c, b)
    /\ UNCHANGED <<client, channel, localmode>>

LEMMA NothingGoes ==
    ASSUME UNCHANGED channel
    PROVE  ChannelsLast
BY DEF ChannelsLast

LEMMA RemoveStores ==
    ASSUME TypeOK, NEW b \in Block, NEW c \in Slot, removeUser(c, b)
    PROVE  \/ ChannelsLast /\ UNCHANGED <<localmode, invite, older>>
           \/ deleteChannel(b)
<1>1. CASE Emptied(Without(channel[b], c))
  BY <1>1 DEF removeUser
<1>2. CASE ~Emptied(Without(channel[b], c))
  <2>1. /\ channel' = [channel EXCEPT ![b] = Without(channel[b], c)]
        /\ UNCHANGED <<localmode, invite, older>>
    BY <1>2 DEF removeUser
  <2>2. Without(channel[b], c).name = channel[b].name
    BY DEF TypeOK, ChannelRec, Without
  <2>3. ChannelsLast
    BY <2>1, <2>2 DEF TypeOK, ChannelsLast
  <2>4. QED
    BY <2>1, <2>3
<1>3. QED
  BY <1>1, <1>2

LEMMA JoinStored ==
    ASSUME TypeOK, NEW t \in Slot, NEW n \in Name, NEW x, NEW info \in Info, NEW listed,
           joinChan(t, n, x, info, listed), UNCHANGED client
    PROVE  JoinStores
<1> DEFINE own == Entitled(t, n, info)
<1>1. CASE Barred(t, n, own)
  BY <1>1 DEF joinChan, JoinStores, ChannelsLast, Adds
<1>2. ASSUME NEW b \in Room(n),
             NEW ch \in (IF Live(channel[b]) THEN {channel[b]} ELSE Opened(n)),
             NEW in, in = Welcomed(t, b, ch, Asked(t, n, x, own)),
             IF Admits(t, x, ch, in) THEN Admit(t, b, n, ch, in) ELSE Refuse(t, b, n, ch)
      PROVE  JoinStores
  <2>1. b \in Block /\ channel \in [Block -> ChannelRec]
    BY RoomFound DEF TypeOK
  <2>2. /\ ch \in ChannelRec /\ SameName(ch.name, n) /\ (Live(channel[b]) => ch = channel[b])
    <3>1. CASE Live(channel[b])
      <4>1. b \in find_chan(n)
        BY <3>1 DEF Room
      <4>2. QED
        BY <2>1, <3>1, <4>1 DEF find_chan
    <3>2. CASE ~Live(channel[b])
      <4>1. ch \in ChannelRec /\ ch.name = n
        BY <3>2, OpenedTypes
      <4>2. QED
        BY <3>2, <4>1 DEF SameName
    <3>3. QED
      BY <3>1, <3>2
  <2> DEFINE now == Applied(ch, client[t].host)
  <2>3. now \in ChannelRec /\ now.name = ch.name
    BY <2>2, AppliedTypes
  <2>4. ASSUME NEW ch2, ch2.name = ch.name, channel' = [channel EXCEPT ![b] = ch2],
               localmode' = Noted(t, b, n, ch),
               UNCHANGED <<invite, older>> \/ \E gone : removeChannelInvite(gone)
        PROVE  JoinStores
    <3>1. channel'[b].name = ch.name /\ \A a \in Block \ {b} : channel'[a] = channel[a]
      BY <2>1, <2>4
    <3>2. ChannelsLast
      BY <2>2, <3>1 DEF ChannelsLast
    <3>3. Adds
      BY <2>1, <2>2, <2>4, <3>1 DEF Adds
    <3>4. QED
      BY <2>4, <3>2, <3>3 DEF JoinStores, Removal
  <2>5. CASE Admits(t, x, ch, in)
    <3>1. Admit(t, b, n, ch, in)
      BY <1>2, <2>5
    <3>2. addUser(now, t, AsMember(in)).name = ch.name
      <4> HIDE DEF now
      <4>1. QED
        BY <2>3 DEF addUser, ChannelRec
    <3>3. QED
      BY <2>3, <2>4, <3>1, <3>2 DEF Admit
  <2>6. CASE ~Admits(t, x, ch, in)
    <3>1. Refuse(t, b, n, ch)
      BY <1>2, <2>6
    <3>2. CASE Live(channel[b])
      BY <2>3, <2>4, <3>1, <3>2 DEF Refuse
    <3>3. CASE ~Live(channel[b])
      <4>1. /\ localmode' = clearnonGlobalModes(Noted(t, b, n, ch), n)
            /\ UNCHANGED channel /\ Removal
        BY <3>1, <3>3 DEF Refuse, Removal
      <4>2. Adds
        BY <2>1, <4>1 DEF Adds
      <4>3. QED
        BY <4>1, <4>2, NothingGoes DEF JoinStores
    <3>4. QED
      BY <3>2, <3>3
  <2>7. QED
    BY <2>5, <2>6
<1>3. QED
  BY <1>1, <1>2 DEF joinChan

LEMMA StoreSteps ==
    ASSUME TypeOK, Seated, [Next]_vars
    PROVE  \/ ChannelsLast /\ ClientsLast /\ UNCHANGED <<localmode, invite, older>>
           \/ UNCHANGED client /\ \E b \in Block : deleteChannel(b)
           \/ JoinStores
           \/ Invites
           \/ \E c \in Slot : deleteClient(c)
<1> DEFINE Goal ==
           \/ ChannelsLast /\ ClientsLast /\ UNCHANGED <<localmode, invite, older>>
           \/ UNCHANGED client /\ \E b \in Block : deleteChannel(b)
           \/ JoinStores
           \/ Invites
           \/ \E c \in Slot : deleteClient(c)
<1>0. /\ channel \in [Block -> ChannelRec] /\ client \in [Slot -> ClientRec]
      /\ UNCHANGED client => ClientsLast
  BY DEF TypeOK, ClientsLast
<1>1. ASSUME ClientsLast, UNCHANGED <<channel, localmode, invite, older>>
      PROVE  Goal
  BY <1>1, NothingGoes
<1>2. ASSUME NEW c \in Slot, cmd_part(c) \/ cmd_kick(c) \/ quitOne(c)
      PROVE  Goal
  <2>1. PICK b \in Block, d \in Slot : removeUser(d, b)
    BY <1>2 DEF cmd_part, cmd_kick, quitOne, find_chan, Listed
  <2>2. UNCHANGED client
    BY <1>2 DEF cmd_part, cmd_kick, quitOne, OnChannels
  <2>3. QED
    BY <1>0, <2>1, <2>2, RemoveStores
<1>3. ASSUME NEW c \in Slot, cmd_mode(c)
      PROVE  Goal
  <2>1. PICK b \in Block : /\ turn = c /\ Live(channel[b])
                           /\ \E ch \in ModeSet(c, Started(channel[b], c)) : channel' = [channel EXCEPT ![b] = ch]
    BY <1>3, ChannelAssumption DEF cmd_mode, find_chan, SameName, Live, Ordinary, Command, Line
  <2>2. SetsModes(b)
    BY <2>1 DEF SetsModes
  <2>3. SameSeats(channel[b], channel'[b]) /\ \A a \in Block \ {b} : channel'[a] = channel[a]
    BY <2>2, ModesSet
  <2>4. ChannelsLast
    BY <2>3 DEF SameSeats, ChannelsLast
  <2>5. QED
    BY <1>0, <1>3, <2>4 DEF cmd_mode, OnChannels
<1>4. ASSUME NEW c \in Slot, cmd_join(c) \/ cmd_join_next(c) \/ cmd_fjoin(c)
      PROVE  Goal
  <2>0. NoInfo \in Info /\ UNCHANGED client
    BY <1>4 DEF NoInfo, Info, cmd_join, cmd_join_next, cmd_fjoin
  <2>1. CASE cmd_fjoin(c)
    <3>1. PICK t \in Slot, n \in Name : joinChan(t, n, "none", NoInfo, FALSE)
      BY <2>1 DEF cmd_fjoin, Listed
    <3>2. QED
      BY <2>0, <3>1, JoinStored
  <2>2. CASE cmd_join(c)
    <3>1. PICK n \in Name, x \in Extra : joinChan(c, n, x, NoInfo, TRUE)
      BY <2>2 DEF cmd_join
    <3>2. QED
      BY <2>0, <3>1, JoinStored
  <2>3. CASE cmd_join_next(c)
    <3>1. joining.info \in Info
      BY <2>3 DEF TypeOK, JoinRec
    <3>2. PICK n \in Name : joinChan(c, n, joining.extra, joining.info, TRUE)
      BY <2>3 DEF cmd_join_next
    <3>3. QED
      BY <2>0, <3>1, <3>2, JoinStored
  <2>4. QED
    BY <1>4, <2>1, <2>2, <2>3
<1>5. ASSUME NEW c \in Slot, cmd_invite(c)
      PROVE  Goal
  <2>1. PICK t \in Listed, b \in Block : /\ Live(channel[b]) /\ addChannelInvite(t, b)
                                       /\ OnChannels /\ UNCHANGED <<channel, localmode>>
    BY <1>5, ChannelAssumption DEF cmd_invite, find_chan, SameName, Live
  <2>2. QED
    BY <2>1 DEF Invites, OnChannels
<1>6. ASSUME NEW c \in Slot,
             cmd_nick(c) \/ cmd_crypt(c) \/ cmd_setrights(c) \/ quitDone(c) \/ accept(c)
      PROVE  Goal
  <2>1. CASE cmd_nick(c)
    <3>1. PICK new \in Named(c) : client' = [client EXCEPT ![c] = new]
      BY <2>1 DEF cmd_nick
    <3>2. new.live = client[c].live
      BY <1>0 DEF Named, ClientRec
    <3>3. ClientsLast
      BY <1>0, <3>1, <3>2 DEF ClientsLast
    <3>4. QED
      BY <1>1, <2>1, <3>3 DEF cmd_nick, staff
  <2>2. CASE cmd_crypt(c)
    <3>1. ClientsLast
      BY <1>0, <2>2 DEF cmd_crypt, ClientsLast, ClientRec
    <3>2. QED
      BY <1>1, <2>2, <3>1 DEF cmd_crypt, staff
  <2>3. CASE cmd_setrights(c)
    <3>1. ClientsLast
      BY <1>0, <2>3 DEF cmd_setrights, ClientsLast, ClientRec, Listed
    <3>2. QED
      BY <1>1, <2>3, <3>1 DEF cmd_setrights, staff
  <2>4. CASE quitDone(c)
    <3>1. ClientsLast
      BY <1>0, <2>4 DEF quitDone, ClientsLast, ClientRec
    <3>2. QED
      BY <1>1, <2>4, <3>1 DEF quitDone, staff
  <2>5. CASE accept(c)
    <3>1. ClientsLast
      BY <1>0, <2>5 DEF accept, ClientsLast, NewClient
    <3>2. QED
      BY <1>1, <2>5, <3>1 DEF accept, staff
  <2>6. QED
    BY <1>6, <2>1, <2>2, <2>3, <2>4, <2>5
<1>7. ASSUME processQueue
      PROVE  Goal
  <2>1. ASSUME NEW n \in Name, NEW p \in PropSet, NEW kick \in BOOLEAN, SetChanProps(n, p, kick)
        PROVE  Goal
    <3>1. \A b \in Block : Restated(b)
      BY <2>1, SetPropsRestate, PeerchatAssumption
    <3>2. ChannelsLast
      BY <3>1 DEF ChannelsLast, Restated
    <3>3. QED
      BY <1>0, <2>1, <3>2 DEF SetChanProps
  <2>2. ASSUME NEW n \in Name, NEW reset \in BOOLEAN, DelChanProps(n, reset)
        PROVE  Goal
    <3>1. UNCHANGED client
      BY <2>2 DEF DelChanProps
    <3>2. (\A b \in Block : Restated(b)) => ChannelsLast
      BY DEF ChannelsLast, Restated
    <3>3. QED
      BY <1>0, <2>2, <3>1, <3>2, DelPropsRestate
  <2>3. ASSUME NEW c \in Slot, NEW m \in Mask, AuthClient(c, m)
        PROVE  Goal
    <3>1. PICK new : new = [client[c] EXCEPT !.auth = TRUE, !.rights = m]
      OBVIOUS
    <3>2. new.live = client[c].live
      BY <1>0, <3>1 DEF ClientRec
    <3>3. client' = [client EXCEPT ![c] = new]
      BY <2>3, <3>1 DEF AuthClient
    <3>4. ClientsLast
      BY <1>0, <3>2, <3>3 DEF ClientsLast
    <3>5. QED
      BY <1>1, <2>3, <3>4 DEF AuthClient, staff
  <2> HIDE DEF Goal
  <2>4. QED
    BY <1>0, <1>1, <1>7, <2>1, <2>2, <2>3 DEF processQueue, ChanClient, resetByProfileID, objects
<1> HIDE DEF Goal
<1>8. ASSUME NEW c \in Slot, mainLoop(c)
      PROVE  Goal
  <2>1. deleteClient(c) => Goal
    BY DEF Goal
  <2>2. QED
    BY <1>0, <1>1, <1>2, <1>3, <1>4, <1>5, <1>6, <1>8, <2>1
       DEF mainLoop, parseIncoming, cmd_quit, cmd_kill, pingTimeout, notReadable, hungUp,
           startLines, endLines, objects
<1>9. QED
  BY <1>0, <1>1, <1>6, <1>7, <1>8 DEF Next, vars, startPass, objects, Goal

-----------------------------------------------------------------------------
(* invite_list: no more than its first entry dangles.                      *)

\* No two entries are each before the other.
OneOrder == \A e, f \in Entry : <<e, f>> \in older /\ <<f, e>> \in older => e = f

InviteInv == OneOrder /\ OnlyTheFirstDangles

LEMMA OneIsOldest ==
    ASSUME OneOrder, NEW S \in SUBSET Entry, NEW e \in Oldest(S), NEW f \in Oldest(S)
    PROVE  e = f
BY DEF OneOrder, Oldest

\* What is kept beside what was not to be removed comes right after the first
\* entry, which is not kept.
LEMMA SparedNext ==
    ASSUME OneOrder, NEW gone, NEW e \in Spared(gone), e \in gone
    PROVE  \A f \in Spared(gone) \ {e} : <<e, f>> \in older
<1>1. Held \in SUBSET Entry
  BY DEF Held
<1>2. Oldest(Held) \intersect gone # {} /\ e \in Oldest(Held \ Oldest(Held))
  BY DEF Spared
<1>3. PICK o : o \in Oldest(Held) \intersect gone
  BY <1>2
<1>4. Oldest(Held) = {o}
  BY <1>1, <1>3, OneIsOldest
<1>5. o \notin Spared(gone)
  BY <1>3, <1>4 DEF Spared, Oldest
<1>6. Spared(gone) \subseteq Held \ Oldest(Held)
  BY <1>4, <1>5 DEF Spared, Oldest
<1>7. QED
  BY <1>2, <1>6 DEF Oldest

LEMMA SparedHeld ==
    ASSUME TypeOK, NEW gone, removeChannelInvite(gone)
    PROVE  /\ Held' = Spared(gone) /\ Spared(gone) \subseteq Held
           /\ \A e \in Spared(gone) : invite'[e] = invite[e]
           /\ older' = older \intersect (Spared(gone) \X Spared(gone))
<1>1. Spared(gone) \subseteq Held /\ Held \subseteq Entry
  BY DEF Spared, Oldest, Held
<1>2. /\ invite' = [e \in Entry |-> IF e \in Spared(gone) THEN invite[e] ELSE NoInvite]
      /\ older' = older \intersect (Spared(gone) \X Spared(gone))
  BY DEF removeChannelInvite
<1>3. \A e \in Spared(gone) : invite'[e] = invite[e]
  BY <1>1, <1>2
<1>4. Held' = Spared(gone)
  BY <1>1, <1>2, <1>3 DEF Held
<1>5. QED
  BY <1>1, <1>2, <1>3, <1>4

\* A removal, by which "gone" are all the entries that come to dangle.
LEMMA RemovalDangles ==
    ASSUME TypeOK, InviteInv, NEW gone, removeChannelInvite(gone),
           \A e \in Held \ gone :
              /\ client[invite[e].client].live => client'[invite[e].client].live
              /\ Live(channel[invite[e].chan]) => Live(channel'[invite[e].chan])
    PROVE  InviteInv'
<1>0. OneOrder /\ OnlyTheFirstDangles
  BY DEF InviteInv
<1>1. /\ Held' = Spared(gone) /\ Spared(gone) \subseteq Held
      /\ \A e \in Spared(gone) : invite'[e] = invite[e]
      /\ older' = older \intersect (Spared(gone) \X Spared(gone))
  BY SparedHeld
<1>2. OneOrder'
  BY <1>0, <1>1 DEF OneOrder
<1>3. ASSUME NEW e \in Spared(gone), Dangling(e)'
      PROVE  \A f \in Spared(gone) \ {e} : <<e, f>> \in older
  <2>1. CASE e \in gone
    BY <1>0, <2>1, SparedNext
  <2>2. CASE e \notin gone
    <3>1. Dangling(e)
      BY <1>1, <1>3, <2>2 DEF Dangling, Live
    <3>2. e \in Oldest(Held)
      BY <1>0, <1>1, <3>1 DEF OnlyTheFirstDangles
    <3>3. QED
      BY <1>1, <3>2 DEF Oldest
  <2>3. QED
    BY <2>1, <2>2
<1>4. \A e \in Held' : Dangling(e)' => e \in Oldest(Held)'
  BY <1>1, <1>3 DEF Oldest
<1>5. QED
  BY <1>2, <1>4 DEF InviteInv, OnlyTheFirstDangles

\* The list is left alone, and nothing that it names goes away.
LEMMA KeptDangles ==
    ASSUME TypeOK, InviteInv, ChannelsLast, ClientsLast, UNCHANGED <<invite, older>>
    PROVE  InviteInv'
<1>1. Held' = Held /\ \A S : Oldest(S)' = Oldest(S)
  BY DEF Held, Oldest
<1>2. ASSUME NEW e \in Held, Dangling(e)'
      PROVE  Dangling(e)
  <2>1. invite[e] \in InviteRec
    BY DEF Held, TypeOK
  <2>2. invite[e].client \in Slot /\ invite[e].chan \in Block
    BY <2>1 DEF InviteRec
  <2>3. QED
    BY <1>2, <2>2 DEF Dangling, ChannelsLast, ClientsLast, Live
<1>3. OnlyTheFirstDangles'
  BY <1>1, <1>2 DEF InviteInv, OnlyTheFirstDangles, Oldest
<1>4. QED
  BY <1>3 DEF InviteInv, OneOrder

LEMMA InvitesDangle ==
    ASSUME TypeOK, InviteInv, Invites
    PROVE  InviteInv'
<1>1. PICK c \in Listed, b \in Block, e \in Entry \ Held :
         /\ Live(channel[b]) /\ UNCHANGED <<client, channel>>
         /\ invite' = [invite EXCEPT ![e] = [client |-> c, chan |-> b]]
         /\ older' = older \union (Held \X {e})
  BY DEF Invites, addChannelInvite
<1>2. invite \in [Entry -> InviteRec \union {NoInvite}] /\ older \subseteq Held \X Held /\ Held \subseteq Entry
  BY DEF TypeOK, Held
<1>3. [client |-> c, chan |-> b] # NoInvite
  BY PeerchatAssumption DEF NoInvite, Listed
<1>4. /\ invite'[e] = [client |-> c, chan |-> b]
      /\ \A f \in Entry \ {e} : invite'[f] = invite[f]
  BY <1>1, <1>2
<1>5. Held' = Held \union {e}
  BY <1>1, <1>3, <1>4 DEF Held
<1>6. OneOrder'
  BY <1>1, <1>2 DEF InviteInv, OneOrder
<1>7. ~Dangling(e)'
  BY <1>1, <1>4 DEF Dangling, Listed, Live
<1>8. ASSUME NEW f \in Held, Dangling(f)'
      PROVE  f \in Oldest(Held)'
  <2>1. Dangling(f)
    BY <1>1, <1>2, <1>4, <1>8 DEF Dangling, Live
  <2>2. f \in Oldest(Held)
    BY <2>1 DEF InviteInv, OnlyTheFirstDangles
  <2>3. \A g \in Held' \ {f} : <<f, g>> \in older'
    BY <1>1, <1>5, <2>2 DEF Oldest
  <2>4. QED
    BY <1>5, <2>3 DEF Oldest
<1>9. QED
  BY <1>5, <1>6, <1>7, <1>8 DEF InviteInv, OnlyTheFirstDangles

LEMMA InviteStep == TypeOK /\ Seated /\ InviteInv /\ [Next]_vars => InviteInv'
<1> SUFFICES ASSUME TypeOK, Seated, InviteInv, [Next]_vars
             PROVE  InviteInv'
  OBVIOUS
<1>0. \A e \in Held : invite[e].client \in Slot /\ invite[e].chan \in Block
  <2>1. \A e \in Held : invite[e] \in InviteRec
    BY DEF Held, TypeOK
  <2>2. QED
    BY <2>1 DEF InviteRec
<1>1. CASE ChannelsLast /\ ClientsLast /\ UNCHANGED <<localmode, invite, older>>
  BY <1>1, KeptDangles
<1>2. ASSUME UNCHANGED client, NEW b \in Block, deleteChannel(b)
      PROVE  InviteInv'
  <2>1. removeChannelInvite(InvitesTo(b)) /\ \A a \in Block \ {b} : channel'[a] = channel[a]
    BY <1>2 DEF deleteChannel, TypeOK
  <2>2. \A e \in Held \ InvitesTo(b) : invite[e].chan # b
    BY DEF InvitesTo
  <2>3. QED
    BY <1>0, <1>2, <2>1, <2>2, RemovalDangles
<1>3. CASE JoinStores
  <2>1. ClientsLast /\ UNCHANGED client
    BY <1>3 DEF JoinStores, ClientsLast
  <2>2. CASE UNCHANGED <<invite, older>>
    BY <1>3, <2>1, <2>2, KeptDangles DEF JoinStores
  <2>3. ASSUME NEW gone, removeChannelInvite(gone)
        PROVE  InviteInv'
    <3>1. \A e \in Held \ gone :
              /\ client[invite[e].client].live => client'[invite[e].client].live
              /\ Live(channel[invite[e].chan]) => Live(channel'[invite[e].chan])
      BY <1>0, <1>3, <2>1 DEF JoinStores, ChannelsLast, Live
    <3>2. QED
      BY <2>3, <3>1, RemovalDangles
  <2>4. QED
    BY <1>3, <2>2, <2>3 DEF JoinStores, Removal
<1>4. CASE Invites
  BY <1>4, InvitesDangle
<1>5. ASSUME NEW c \in Slot, deleteClient(c)
      PROVE  InviteInv'
  <2>1. /\ removeChannelInvite(InvitesOf(c)) /\ UNCHANGED channel
        /\ \A d \in Slot \ {c} : client'[d] = client[d]
    BY <1>5 DEF deleteClient, TypeOK
  <2>2. \A e \in Held \ InvitesOf(c) : invite[e].client # c
    BY DEF InvitesOf
  <2>3. QED
    BY <1>0, <2>1, <2>2, RemovalDangles
<1>6. QED
  BY <1>1, <1>2, <1>3, <1>4, <1>5, StoreSteps

\* OnlyTheFirstDangles: of the entries of invite_list, only the first may name
\* a client or a channel that is gone.
THEOREM DanglingEntries == Spec => []OnlyTheFirstDangles
<1>1. Init => InviteInv
  BY DEF Init, InviteInv, OneOrder, OnlyTheFirstDangles, Held
<1>2. InviteInv => OnlyTheFirstDangles
  BY DEF InviteInv
<1>3. QED
  BY <1>1, <1>2, InviteStep, TypeCorrect, EverybodySeated, PTL DEF Spec

-----------------------------------------------------------------------------
(* Local user modes, where no two names are spelled differently only.      *)

LEMMA LocalStep ==
    ASSUME \A n, m \in Name : Fold[n] = Fold[m] => n = m
    PROVE  TypeOK /\ Seated /\ LocalModesHaveChannels /\ [Next]_vars => LocalModesHaveChannels'
<1> SUFFICES ASSUME TypeOK, Seated, LocalModesHaveChannels, [Next]_vars
             PROVE  LocalModesHaveChannels'
  OBVIOUS
<1>0. localmode \subseteq UserMode /\ \A u \in UserMode : u.chan \in Name
  BY DEF TypeOK, UserMode
<1>1. ASSUME NEW u, \E b \in Block : SameName(channel'[b].name, u.chan)
      PROVE  (find_chan(u.chan) # {})'
  BY <1>1 DEF find_chan
<1>2. ASSUME ChannelsLast, NEW u \in localmode
      PROVE  \E b \in Block : SameName(channel'[b].name, u.chan)
  <2>1. PICK b \in Block : SameName(channel[b].name, u.chan)
    BY DEF LocalModesHaveChannels, find_chan
  <2>2. Live(channel[b])
    BY <2>1, ChannelAssumption DEF SameName, Live
  <2>3. QED
    BY <1>2, <2>1, <2>2 DEF ChannelsLast
<1>3. CASE ChannelsLast /\ UNCHANGED localmode
  BY <1>1, <1>2, <1>3 DEF LocalModesHaveChannels
<1>4. ASSUME NEW b \in Block, deleteChannel(b)
      PROVE  LocalModesHaveChannels'
  <2>1. /\ localmode' = clearnonGlobalModes(localmode, channel[b].name)
        /\ \A a \in Block \ {b} : channel'[a] = channel[a]
    BY <1>4 DEF deleteChannel, TypeOK
  <2>2. ASSUME NEW u \in localmode'
        PROVE  \E a \in Block : SameName(channel'[a].name, u.chan)
    <3>1. u \in localmode /\ u.chan # channel[b].name
      BY <2>1, <2>2 DEF clearnonGlobalModes
    <3>2. PICK a \in Block : SameName(channel[a].name, u.chan)
      BY <3>1 DEF LocalModesHaveChannels, find_chan
    <3>3. channel[a].name = u.chan
      BY <3>2 DEF SameName
    <3>4. QED
      BY <2>1, <3>1, <3>2, <3>3
  <2>3. QED
    BY <1>1, <2>2 DEF LocalModesHaveChannels
<1>5. CASE JoinStores
  <2>1. ChannelsLast /\ Adds
    BY <1>5 DEF JoinStores
  <2>2. CASE UNCHANGED localmode
    BY <1>3, <2>1, <2>2
  <2>3. ASSUME NEW t \in Slot, NEW n \in Name, NEW b \in Block, NEW ch
        PROVE  \A u \in Noted(t, b, n, ch) : u \in localmode \/ u.chan = n
    BY DEF Noted
  <2>4. ASSUME NEW t \in Slot, NEW n \in Name, NEW b \in Block, NEW ch,
               localmode' = Noted(t, b, n, ch), SameName(channel'[b].name, n)
        PROVE  LocalModesHaveChannels'
    BY <1>1, <1>2, <2>1, <2>3, <2>4 DEF LocalModesHaveChannels
  <2>5. ASSUME NEW t \in Slot, NEW n \in Name, NEW b \in Block, NEW ch,
               localmode' = clearnonGlobalModes(Noted(t, b, n, ch), n)
        PROVE  LocalModesHaveChannels'
    <3>1. localmode' \subseteq localmode
      BY <2>3, <2>5 DEF clearnonGlobalModes
    <3>2. QED
      BY <1>1, <1>2, <2>1, <3>1 DEF LocalModesHaveChannels
  <2>6. QED
    BY <2>1, <2>2, <2>4, <2>5 DEF Adds
<1>6. CASE Invites
  BY <1>3, <1>6, NothingGoes DEF Invites
<1>7. ASSUME NEW c \in Slot, deleteClient(c)
      PROVE  LocalModesHaveChannels'
  BY <1>3, <1>7, NothingGoes DEF deleteClient, staff
<1>8. QED
  BY <1>3, <1>4, <1>5, <1>6, <1>7, StoreSteps

\* LocalModesHaveChannels: a user mode that is not global ends with its
\* channel.  clearnonGlobalModes compares spellings and find_chan does not, so
\* this is for names of which no two differ in case only.
THEOREM LocalModesEnd ==
    ASSUME \A n, m \in Name : Fold[n] = Fold[m] => n = m
    PROVE  Spec => []LocalModesHaveChannels
<1>1. Init => LocalModesHaveChannels
  BY DEF Init, LocalModesHaveChannels
<1>2. TypeOK /\ Seated /\ LocalModesHaveChannels /\ [Next]_vars => LocalModesHaveChannels'
  BY LocalStep
<1>3. QED
  BY <1>1, <1>2, TypeCorrect, EverybodySeated, PTL DEF Spec
=============================================================================
