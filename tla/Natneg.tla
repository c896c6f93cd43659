------------------------------- MODULE Natneg -------------------------------
(***************************************************************************)
(* The NAT negotiation server (src/natneg).  One thread loops: it waits in *)
(* select() for at most five seconds, takes at most one datagram from each *)
(* of its sockets ("instances") in order, and then runs checkTimeouts().   *)
(* A Client object is kept for every source address that ever sent a       *)
(* datagram; two objects with the same cookie and complementary indexes    *)
(* are introduced to each other with a pair of NN_CONNECT datagrams.       *)
(*                                                                         *)
(* Timestamps are kept as ages that stop growing one past the threshold    *)
(* they are compared with: no comparison of the code tells them apart      *)
(* beyond it, and the clock needs no bound.                                *)
(***************************************************************************)
EXTENDS Integers, FiniteSets

CONSTANTS
    Peer,           \* source addresses (ip and port) of the datagrams
    NumInstances,   \* sockets of the server: instances 1 .. NumInstances
    Cookie,         \* cookies the peers negotiate under
    Index,          \* client indexes of INIT packets (0 and 1 in the protocol)
    PingTime,       \* NN_PING_TIME, silence after which an object is deleted
    DeadbeatTime,   \* NN_DEADBEAT_TIME, age at which a lonely object is told
    ResendTime      \* the literal 5 of checkTimeouts

ASSUME NatnegAssumption ==
    /\ NumInstances \in Nat \ {0}
    /\ Cookie \subseteq Nat /\ Index \subseteq Nat
    /\ PingTime \in Nat /\ DeadbeatTime \in Nat /\ ResendTime \in Nat

VARIABLES
    client,       \* the Client object of each peer, NoClient where none
    before,       \* the order of client_list: pairs <<older, younger>>
    phase,        \* where the loop is: a socket's turn or a part of checkTimeouts
    todo,         \* the objects checkTimeouts' resend scan has yet to visit
    sent,         \* the NN_CONNECT datagrams (verdicts) the last step sent
    told          \* history: <<p, kind>> when p was sent that verdict

vars == <<client, before, phase, todo, sent, told>>

Expiring  == NumInstances + 1
Resending == NumInstances + 2
Lonely    == NumInstances + 3

\* A time in the future: what the uninitialised sentconnecttime may hold.
Future == -1
Garbage == {Future, ResendTime + 1}

NoClient ==
    [instance |-> 0, cookie |-> 0, cindex |-> 0, gotInit |-> FALSE,
     connected |-> FALSE, gotConnectAck |-> FALSE,
     connectAge |-> 0, packetAge |-> 0, sentAge |-> 0]

ClientRec ==
    [instance : 0..NumInstances, cookie : Cookie \union {0},
     cindex : Index \union {0}, gotInit : BOOLEAN, connected : BOOLEAN,
     gotConnectAck : BOOLEAN, connectAge : 0..(DeadbeatTime + 1),
     packetAge : 0..(PingTime + 1), sentAge : Garbage \union 0..(ResendTime + 1)]

\* server.client_list as a set.
Listed(cl) == {p \in Peer : cl[p].instance # 0}

Connect(to, about) == [type |-> "CONNECT", to |-> to, about |-> about]
DeadBeat(to)       == [type |-> "DEADBEAT", to |-> to]

Datagram ==
    [type : {"CONNECT"}, to : Peer, about : Peer]
        \union [type : {"DEADBEAT"}, to : Peer]

-----------------------------------------------------------------------------
(* client_list: the searches walk it from the oldest entry.                *)

\* The oldest of S, if there is any: the entry a search of S stops at.
Oldest(order, S) == {p \in S : \A q \in S \ {p} : <<p, q>> \in order}

\* Fault: the search forgets which socket an object came in on.
MatchingAnyInstance(cl, cookie, instance, index) ==
    {q \in Listed(cl) : cl[q].cookie = cookie /\ cl[q].cindex = index}

\* The objects find_user_by_cookie_index accepts.
Matching(cl, cookie, instance, index) ==
    {q \in Listed(cl) : /\ cl[q].cookie = cookie
                        /\ cl[q].instance = instance
                        /\ cl[q].cindex = index}

\* Fault: the partner is looked up under the object's own index.
OwnSide(cl, p) == Matching(cl, cl[p].cookie, cl[p].instance, cl[p].cindex)

Partners(cl, p) ==
    Matching(cl, cl[p].cookie, cl[p].instance, IF cl[p].cindex = 1 THEN 0 ELSE 1)

-----------------------------------------------------------------------------
(* What a handler leaves behind: the objects and the datagrams it sent.    *)

Unsent(cl) == [client |-> cl, sent |-> {}]

\* Fault: only the receiver of the datagram is marked as connected.
SendConnectPacketMarkingOne(cl, p, q, sendToOther) ==
    IF \/ cl[p].instance # 1 \/ ~cl[p].gotInit
       \/ cl[p].gotConnectAck \/ cl[q].gotConnectAck
    THEN Unsent(cl)
    ELSE [client |-> [cl EXCEPT ![p].connected = TRUE, ![p].sentAge = 0],
          sent |-> {Connect(p, q)} \union (IF sendToOther THEN {Connect(q, p)} ELSE {})]

SendConnectPacket(cl, p, q, sendToOther) ==
    IF \/ cl[p].instance # 1 \/ ~cl[p].gotInit
       \/ cl[p].gotConnectAck \/ cl[q].gotConnectAck
    THEN Unsent(cl)
    ELSE LET self  == [cl EXCEPT ![p].connected = TRUE, ![p].sentAge = 0,
                                 ![q].connected = TRUE]
         IN IF sendToOther
            THEN [client |-> [self EXCEPT ![q].sentAge = 0],
                  sent   |-> {Connect(p, q), Connect(q, p)}]
            ELSE [client |-> self, sent |-> {Connect(p, q)}]

\* What trySendConnect may leave: find_user_by_cookie_index returns one
\* object, the oldest that matches, whatever became of the younger ones.
trySendConnect(cl, order, p, sendToOther) ==
    LET Q == Partners(cl, p)
    IN IF cl[p].gotConnectAck \/ Q = {} \/ p \in Oldest(order, Q)
       THEN {Unsent(cl)}
       ELSE {SendConnectPacket(cl, p, q, sendToOther) : q \in Oldest(order, Q)}

-----------------------------------------------------------------------------
(* History: what the datagrams of a step told the peers.                   *)

Remember ==
    told' = told \union {<<d.to, d.type>> : d \in sent'}

-----------------------------------------------------------------------------
(* One datagram: handleConnection and handleIncoming.                      *)

\* The constructor leaves sentconnecttime to what the heap held (g).
NewClient(i, g) == [NoClient EXCEPT !.instance = i, !.sentAge = g]

\* find_user(peer, 0) takes the peer's object whichever socket it came in on.
FindOrCreate(i, p, g) ==
    IF client[p].instance = 0 THEN [client EXCEPT ![p] = NewClient(i, g)] ELSE client

Appended(p) ==
    IF client[p].instance = 0 THEN before \union (Listed(client) \X {p}) ELSE before

Touch(cl, p) == [cl EXCEPT ![p].packetAge = 0]

\* What every datagram of p on socket i does, once its handler left res.
Served(i, p, res) ==
    /\ phase = i
    /\ phase' = i + 1
    /\ before' = Appended(p)
    /\ client' = res.client
    /\ sent' = res.sent
    /\ Remember
    /\ UNCHANGED todo

Inited(cl, p, cookie, index) ==
    [Touch(cl, p) EXCEPT ![p] =
        [@ EXCEPT !.cookie = cookie, !.cindex = index, !.gotInit = TRUE]]

\* handleInitPacket: a second INIT keeps connected and gotConnectAck.
handleInitPacket(i, p, cookie, index) == \E g \in Garbage :
    LET cl == Inited(FindOrCreate(i, p, g), p, cookie, index)
    IN \E res \in trySendConnect(cl, Appended(p), p, TRUE) : Served(i, p, res)

Acked(cl, p) == [Touch(cl, p) EXCEPT ![p] = [@ EXCEPT !.gotConnectAck = TRUE]]

handleConnectAck(i, p) == \E g \in Garbage :
    Served(i, p, Unsent(Acked(FindOrCreate(i, p, g), p)))

\* NN_ADDRESS_CHECK, NN_REPORT, NN_NATIFY_REQUEST (each answered by a packet
\* no later step depends on) and unknown types: the object is refreshed.
handleOther(i, p) == \E g \in Garbage :
    Served(i, p, Unsent(Touch(FindOrCreate(i, p, g), p)))

\* Not a natneg packet: dropped, but its sender has an object from now on.
handleNotNatneg(i, p) == \E g \in Garbage :
    Served(i, p, Unsent(FindOrCreate(i, p, g)))

handleConnection(i, p) ==
    \/ \E cookie \in Cookie, index \in Index : handleInitPacket(i, p, cookie, index)
    \/ handleConnectAck(i, p)
    \/ handleOther(i, p)
    \/ handleNotNatneg(i, p)

\* Socket i had nothing to read when select() returned.
NotReadable(i) ==
    /\ phase = i
    /\ phase' = i + 1
    /\ sent' = {}
    /\ UNCHANGED <<client, before, todo, told>>

-----------------------------------------------------------------------------
(* checkTimeouts: three walks over client_list.                            *)

Silent(p) == client[p].instance # 0 /\ client[p].packetAge > PingTime

\* Fault: the resend walk goes over the list as it was before the deletions.
ExpireUnderTheWalk ==
    /\ phase = Expiring
    /\ phase' = Resending
    /\ client' = [p \in Peer |-> IF Silent(p) THEN NoClient ELSE client[p]]
    /\ todo' = Listed(client)
    /\ before' = before \intersect (Listed(client') \X Listed(client'))
    /\ told' = told \intersect (Listed(client') \X {"CONNECT", "DEADBEAT"})
    /\ sent' = {}

Expire ==
    /\ phase = Expiring
    /\ phase' = Resending
    /\ client' = [p \in Peer |-> IF Silent(p) THEN NoClient ELSE client[p]]
    /\ todo' = Listed(client')
    /\ before' = before \intersect (todo' \X todo')
    /\ told' = told \intersect (todo' \X {"CONNECT", "DEADBEAT"})
    /\ sent' = {}

\* Fault: the retry is tested on the clients that were not told yet.
RetryUnconnected(p) ==
    ~client[p].connected /\ ~client[p].gotConnectAck /\ client[p].sentAge > ResendTime

RetryDue(p) ==
    client[p].connected /\ ~client[p].gotConnectAck /\ client[p].sentAge > ResendTime

Resend(p) ==
    /\ phase = Resending /\ p \in Oldest(before, todo)
    /\ todo' = todo \ {p}
    /\ \E res \in IF RetryDue(p) THEN trySendConnect(client, before, p, FALSE)
                                 ELSE {Unsent(client)} :
          client' = res.client /\ sent' = res.sent
    /\ Remember
    /\ UNCHANGED <<before, phase>>

Resent ==
    /\ phase = Resending /\ todo = {}
    /\ phase' = Lonely
    /\ sent' = {}
    /\ UNCHANGED <<client, before, todo, told>>

\* Fault: the notice goes out on every socket.
OverdueAnywhere ==
    {p \in Listed(client) : client[p].connectAge > DeadbeatTime /\ ~client[p].connected}

\* Fault: the notice is kept from objects that never sent an INIT.
OverdueInited ==
    {p \in Listed(client) : /\ client[p].connectAge > DeadbeatTime
                            /\ ~client[p].connected /\ client[p].gotInit
                            /\ client[p].instance = 1}

\* The objects sendDeadBeatNotice acts for: only those of the first socket.
Overdue ==
    {p \in Listed(client) : /\ client[p].connectAge > DeadbeatTime
                            /\ ~client[p].connected
                            /\ client[p].instance = 1}

sendDeadBeatNotices ==
    /\ phase = Lonely
    /\ phase' = 1
    /\ client' = [p \in Peer |-> IF p \in Overdue THEN [client[p] EXCEPT !.connected = TRUE]
                                                  ELSE client[p]]
    /\ sent' = {DeadBeat(p) : p \in Overdue}
    /\ Remember
    /\ UNCHANGED <<before, todo>>

-----------------------------------------------------------------------------
(* Time passes at any point of the loop, by one unit.                      *)

Older(age, threshold) == IF age > threshold THEN age ELSE age + 1

Aged(c) ==
    [c EXCEPT !.connectAge = Older(@, DeadbeatTime),
              !.packetAge  = Older(@, PingTime),
              !.sentAge    = IF @ = Future THEN Future ELSE Older(@, ResendTime)]

Tick ==
    /\ client' = [p \in Peer |-> IF p \in Listed(client) THEN Aged(client[p]) ELSE client[p]]
    /\ sent' = {}
    /\ UNCHANGED <<before, phase, todo, told>>

Init ==
    /\ client = [p \in Peer |-> NoClient]
    /\ before = {} /\ phase = 1 /\ todo = {}
    /\ sent = {} /\ told = {}

checkTimeouts ==
    \/ Expire
    \/ \E p \in Peer : Resend(p)
    \/ Resent
    \/ sendDeadBeatNotices

Loop ==
    \/ \E i \in 1..NumInstances, p \in Peer : handleConnection(i, p)
    \/ \E i \in 1..NumInstances : NotReadable(i)
    \/ checkTimeouts

Next == Loop \/ Tick

\* The thread never blocks for longer than select()'s five seconds, and the
\* clock advances whatever the thread does.
Fairness == WF_vars(Loop) /\ WF_vars(Tick)

Spec == Init /\ [][Next]_vars

FairSpec == Spec /\ Fairness

-----------------------------------------------------------------------------
(* Properties.                                                             *)

\* Every variable keeps its shape; the walk of checkTimeouts only visits
\* objects that are still listed, and the order is one of the listed objects.
TypeOK ==
    /\ client \in [Peer -> ClientRec]
    /\ before \subseteq Listed(client) \X Listed(client)
    /\ \A p, q \in Listed(client) :
          p # q => (<<p, q>> \in before <=> <<q, p>> \notin before)
    /\ phase \in 1..Lonely
    /\ todo \subseteq Listed(client)
    /\ sent \subseteq Datagram
    /\ told \subseteq Listed(client) \X {"CONNECT", "DEADBEAT"}

\* Only an object that came in on the first socket is ever given a verdict:
\* SendConnectPacket tests the sender's instance only, and marks the partner.
FirstSocketOnly ==
    \A p \in Peer : client[p].connected => client[p].instance = 1

\* A peer that was told where its partner is, by its own INIT, by the
\* partner's or by a retry, is never told afterwards that the partner is
\* missing while its object lives.
VerdictStands ==
    [][\A p \in Peer : DeadBeat(p) \in sent' => <<p, "CONNECT">> \notin told]_vars

\* Whoever triggers it, a CONNECT joins two different objects of the first
\* socket that negotiate under one cookie from opposite sides and of which
\* neither has acknowledged; both have sent an INIT, except under cookie 0,
\* the cookie of an object that has sent none.
Opposite(a, b) ==
    /\ a.cookie = b.cookie /\ a.cindex # b.cindex /\ 1 \in {a.cindex, b.cindex}
    /\ a.instance = 1 /\ b.instance = 1
    /\ ~a.gotConnectAck /\ ~b.gotConnectAck
    /\ a.cookie = 0 \/ (a.gotInit /\ b.gotInit)

OnlyOppositesMeet ==
    [][\A p, q \in Peer :
          Connect(p, q) \in sent' => p # q /\ Opposite(client'[p], client'[q])]_vars

\* An object of the first socket ends up connected (to a partner or to the
\* deadbeat notice), however often its peer keeps it alive.
Lonesome(p) == client[p].instance = 1 /\ ~client[p].connected

EverybodyIsAnswered == \A p \in Peer : Lonesome(p) ~> ~Lonesome(p)

\* While neither side has acknowledged, the CONNECT that may have been lost
\* is repeated.
Unacknowledged(p) ==
    /\ client[p].instance = 1 /\ client[p].gotInit /\ client[p].connected
    /\ ~client[p].gotConnectAck /\ client[p].sentAge # Future
    /\ \E q \in Oldest(before, Partners(client, p)) : q # p /\ ~client[q].gotConnectAck

LostConnectIsRepeated ==
    \A p \in Peer :
        Unacknowledged(p) ~> (~Unacknowledged(p) \/ \E q \in Peer : Connect(p, q) \in sent)
=============================================================================
