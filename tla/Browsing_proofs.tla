--------------------------- MODULE Browsing_proofs ---------------------------
(***************************************************************************)
(* No server is missed by a subscriber, for any number of servers, clients *)
(* and games: what qr's thread does to the registry and tells, and what    *)
(* serverbrowsing's thread copies meanwhile, always make up for each other.*)
(* And the other way round: an entry that a subscriber holds and nobody    *)
(* has, and of whose end it will not be told, has one of three causes.     *)
(***************************************************************************)
EXTENDS Browsing, Qr_proofs

LEMMA AskedTypes == Asked \subseteq SUBSET Option /\ Filters \subseteq BOOLEAN /\ NoOne \notin Client
BY BrowsingAssumption

USE QrAssumption, AskedTypes

\* a is registered, in the protocol whose servers are pushed.
Pushed(s) == s.registered /\ ~s.legacy

\* The news are about what has happened: a deleted entry is gone, and a
\* pushed one that is there is as it was pushed.
NewsTrue ==
    \A i \in DOMAIN news :
        LET s == server[news[i].addr]
        IN /\ news[i].kind = "delete" => ~s.live
           /\ news[i].kind = "server" /\ s.live =>
                 s.registered /\ news[i].game = s.game /\ news[i].port = s.port

-----------------------------------------------------------------------------
(* Types.                                                                  *)

LEMMA ClientTypes == NewClient \in ClientRec /\ [NewClient EXCEPT !.live = FALSE] \in ClientRec
BY DEF NewClient, ClientRec

LEMMA HeadType ==
    ASSUME TypeOK, news # <<>>
    PROVE  /\ Head(news) \in Push /\ Head(news) = news[1] /\ 1 \in DOMAIN news
           /\ Len(news) \in 1..2 /\ DOMAIN news = 1..Len(news)
<1>1. news \in Seq(Push) /\ Len(news) <= 2
  BY DEF TypeOK
<1>2. Len(news) \in Nat /\ Len(news) # 0 /\ DOMAIN news = 1..Len(news)
  BY <1>1, EmptySeq, LenProperties
<1>3. Head(news) = news[1] /\ news[1] \in Push
  BY <1>1, <1>2, ElementOfSeq
<1>4. QED
  BY <1>1, <1>2, <1>3

LEMMA BrowsingTypeInit == BrowsingInit => BrowsingTypeOK
BY ClientTypes DEF BrowsingInit, Init, BrowsingTypeOK

LEMMA AcceptTypes ==
    ASSUME BrowsingTypeOK, NEW c \in Client, Accept(c)
    PROVE  BrowsingTypeOK'
BY ClientTypes DEF BrowsingTypeOK, Accept, Selects, vars

LEMMA GoneTypes ==
    ASSUME BrowsingTypeOK, NEW c \in Client, Gone(c)
    PROVE  /\ client' \in [Client -> ClientRec] /\ ~client'[c].live
           /\ \A d \in Client : d # c => client'[d] = client[d]
<1>1. client[c] \in ClientRec
  BY DEF BrowsingTypeOK
<1> DEFINE x == [client[c] EXCEPT !.live = FALSE]
<1>2. x \in ClientRec /\ ~x.live
  BY <1>1 DEF ClientRec
<1>3. client' = [client EXCEPT ![c] = x]
  BY DEF Gone
<1> HIDE DEF x
<1>4. QED
  BY <1>2, <1>3 DEF BrowsingTypeOK

\* The encryption header goes out to c.
LEMMA HeaderTypes ==
    ASSUME BrowsingTypeOK, NEW c \in Client, client' = [client EXCEPT ![c].header = TRUE]
    PROVE  /\ client' \in [Client -> ClientRec]
           /\ \A d \in Client : /\ client'[d].live = client[d].live
                               /\ client'[d].game = client[d].game
                               /\ client'[d].options = client[d].options
                               /\ client'[d].filtered = client[d].filtered
<1>1. client[c] \in ClientRec
  BY DEF BrowsingTypeOK
<1> DEFINE x == [client[c] EXCEPT !.header = TRUE]
<1>2. /\ x \in ClientRec /\ x.live = client[c].live /\ x.game = client[c].game
      /\ x.options = client[c].options /\ x.filtered = client[c].filtered
  BY <1>1 DEF ClientRec
<1>3. client' = [client EXCEPT ![c] = x]
  OBVIOUS
<1> HIDE DEF x
<1>4. QED
  BY <1>2, <1>3 DEF BrowsingTypeOK

LEMMA DisconnectTypes ==
    ASSUME BrowsingTypeOK, NEW c \in Client, Disconnect(c)
    PROVE  BrowsingTypeOK'
BY GoneTypes DEF BrowsingTypeOK, Disconnect, Selects, vars

LEMMA RequestTypes ==
    ASSUME BrowsingTypeOK, NEW c \in Client, NEW g \in Game \union {NoGame},
           NEW o \in Asked, NEW f \in Filters, handleListRequest(c, g, o, f)
    PROVE  BrowsingTypeOK'
<1>1. CASE g \in Disabled
  BY <1>1, GoneTypes DEF BrowsingTypeOK, handleListRequest, Selects, vars
<1>2. CASE g \notin Disabled
  <2>1. Requested(c, g, o, f) \in ClientRec /\ Requested(c, g, o, f).live
    <3>1. client[c] \in ClientRec /\ client[c].live
      BY DEF BrowsingTypeOK, handleListRequest
    <3>2. o \in SUBSET Option /\ f \in BOOLEAN
      OBVIOUS
    <3>3. QED
      BY <3>1, <3>2 DEF Requested, ClientRec
  <2>2. client' \in [Client -> ClientRec] /\ client'[c].live
    BY <1>2, <2>1 DEF BrowsingTypeOK, handleListRequest
  <2>3. todo' \subseteq Addr /\ found' = {} /\ serving' = c
    BY <1>2 DEF handleListRequest
  <2>4. QED
    BY <2>2, <2>3 DEF BrowsingTypeOK, handleListRequest, vars
<1>3. QED
  BY <1>1, <1>2

LEMMA LookTypes ==
    ASSUME BrowsingTypeOK, TypeOK, NEW a \in Addr, Look(a)
    PROVE  BrowsingTypeOK'
<1>1. server[a].port \in Port
  BY DEF TypeOK, ServerRec
<1>2. todo' \subseteq Addr /\ found' \subseteq Addr \X Port
  BY <1>1 DEF BrowsingTypeOK, Look
<1>3. QED
  BY <1>2 DEF BrowsingTypeOK, Look, vars

LEMMA AnsweredTypes ==
    ASSUME BrowsingTypeOK, Answered
    PROVE  BrowsingTypeOK'
<1>1. serving \in Client
  BY DEF BrowsingTypeOK, Answered
<1>2. client' \in [Client -> ClientRec] /\ told' \in [Client -> SUBSET (Addr \X Port)]
  <2>1. CASE Gone(serving) /\ UNCHANGED told
    BY <1>1, <2>1, GoneTypes DEF BrowsingTypeOK
  <2>2. CASE /\ client' = [client EXCEPT ![serving].header = TRUE]
             /\ \E L \in SUBSET found : told' = [told EXCEPT ![serving] = @ \union L]
    <3>1. told' \in [Client -> SUBSET (Addr \X Port)]
      BY <1>1, <2>2 DEF BrowsingTypeOK
    <3>2. QED
      BY <1>1, <2>2, <3>1, HeaderTypes
  <2>3. QED
    BY <2>1, <2>2 DEF Answered
<1>3. QED
  BY <1>2 DEF BrowsingTypeOK, Answered, vars

LEMMA CallTypes ==
    ASSUME BrowsingTypeOK, TypeOK, Calls
    PROVE  BrowsingTypeOK'
<1>1. CASE Called
  BY <1>1 DEF BrowsingTypeOK, Called, vars
<1>2. CASE Returned
  BY <1>2 DEF BrowsingTypeOK, Returned
<1>3. ASSUME NEW c \in Client, PushTo(c)
      PROVE  BrowsingTypeOK'
  <2>1. After(c, Head(news)) \in SUBSET (Addr \X Port)
    BY <1>3, HeadType DEF PushTo, After, BrowsingTypeOK, Push
  <2>2. client' \in [Client -> ClientRec] /\ \A d \in Client : client'[d].live = client[d].live
    <3>1. CASE Wants(c, Head(news))
      BY <1>3, <3>1, HeaderTypes DEF PushTo
    <3>2. CASE ~Wants(c, Head(news))
      BY <1>3, <3>2 DEF PushTo, BrowsingTypeOK
    <3>3. QED
      BY <3>1, <3>2
  <2>3. told' \in [Client -> SUBSET (Addr \X Port)] /\ garbled' \in [Client -> BOOLEAN]
    BY <1>3, <2>1 DEF PushTo, BrowsingTypeOK, ClientRec
  <2>4. QED
    BY <1>3, <2>2, <2>3 DEF PushTo, BrowsingTypeOK, vars
<1>4. ASSUME NEW c \in Client, PushToFreed(c)
      PROVE  BrowsingTypeOK'
  BY <1>4 DEF PushToFreed, BrowsingTypeOK, vars
<1>5. QED
  BY <1>1, <1>2, <1>3, <1>4 DEF Calls


-----------------------------------------------------------------------------
(* What a step of qr's thread does to the registry and tells.              *)

\* It tells when it is not telling already; what it tells is so; and a server
\* that is pushed afterwards was so before, for the same game, or is told of.
Effect ==
    /\ news = <<>> \/ news' = news
    /\ NewsTrue'
    /\ \A a \in Addr : Pushed(server'[a]) =>
         \/ Pushed(server[a]) /\ server'[a].game = server[a].game
         \/ news = <<>> /\ \E i \in DOMAIN news' : /\ news'[i].kind = "server"
                                                   /\ news'[i].addr = a
                                                   /\ news'[i].port \in Port
                                                   /\ news'[i].game = server'[a].game

LEMMA NoServerQuiet == ~NoServer.live /\ ~Pushed(NoServer)
BY DEF NoServer, Pushed

\* A step without news.
LEMMA KeptEffect ==
    ASSUME TypeOK, news = <<>>, NEW a \in Addr, NEW s, Keep(a, s),
           Pushed(s) => Pushed(server[a]) /\ s.game = server[a].game
    PROVE  Effect
BY DEF TypeOK, Effect, Keep, NewsTrue

\* A step whose news are about the entry that it deletes.
LEMMA DeletedEffect ==
    ASSUME TypeOK, news = <<>>, NEW a \in Addr, server' = [server EXCEPT ![a] = NoServer],
           \A i \in DOMAIN news' : news'[i].addr = a
    PROVE  Effect
BY NoServerQuiet DEF TypeOK, Effect, NewsTrue

\* What is told of an entry is told of it.
LEMMA TellAbout ==
    ASSUME NEW kind, NEW a, NEW s
    PROVE  \A i \in DOMAIN Tell(kind, a, s) :
             /\ Tell(kind, a, s)[i].kind = kind /\ Tell(kind, a, s)[i].addr = a
             /\ Tell(kind, a, s)[i].port = s.port /\ Tell(kind, a, s)[i].game = s.game
BY DEF Tell

LEMMA DeleteEffect ==
    ASSUME TypeOK, news = <<>>, NEW a \in Addr, NEW s, deleteClient(a, s)
    PROVE  Effect
<1>1. \A i \in DOMAIN news' : news'[i].addr = a
  BY TellAbout DEF deleteClient, pushDelete
<1>2. QED
  BY <1>1, DeletedEffect DEF deleteClient

LEMMA ShortEffect ==
    ASSUME IInv, NEW a \in Addr, NEW c \in BOOLEAN, Short(a, c)
    PROVE  Effect
<1> DEFINE s == Heard(a)
           z == [s EXCEPT !.port = SourcePort]
           tail == IF c /\ s.registered /\ ~s.legacy /\ Passes(s, ZeroKey)
                   THEN pushServer(a, z) ELSE <<>>
<1>1. TypeOK /\ news = <<>> /\ s \in ServerRec
  BY HeardSound DEF IInv, Short, Handling, Runs
<1>2. z \in ServerRec
  BY <1>1 DEF ServerRec
<1>3. pushDelete(a, s) \in Seq(Push) /\ tail \in Seq(Push)
  <2>1. pushServer(a, z) \in Seq(Push) /\ pushDelete(a, s) \in Seq(Push)
    BY <1>1, <1>2, TellType DEF pushServer, pushDelete
  <2>2. <<>> \in Seq(Push)
    OBVIOUS
  <2>3. QED
    BY <2>1, <2>2
<1>4. \A i \in DOMAIN pushDelete(a, s) : pushDelete(a, s)[i].addr = a
  BY TellAbout DEF pushDelete
<1>5. \A i \in DOMAIN tail : tail[i].addr = a
  BY TellAbout DEF pushServer
<1>6. news' = pushDelete(a, s) \o tail /\ server' = [server EXCEPT ![a] = NoServer]
  BY DEF Short
<1> HIDE DEF s, tail
<1>7. \A i \in DOMAIN news' : news'[i].addr = a
  BY <1>3, <1>4, <1>5, <1>6, ConcatProperties, LenProperties
<1>8. QED
  BY <1>1, <1>6, <1>7, DeletedEffect

\* A sound entry's keys.
LEMMA HeardPushed ==
    ASSUME IInv, NEW a \in Addr
    PROVE  /\ Heard(a) \in ServerRec /\ Sound(Heard(a))
           /\ Pushed(Heard(a)) => Pushed(server[a])
           /\ Heard(a).game = server[a].game
<1>1. server[a] \in ServerRec /\ Sound(server[a])
  BY DEF IInv, TypeOK
<1>2. Known(a) \in ServerRec /\ Known(a).game = server[a].game
      /\ (Pushed(Known(a)) => Pushed(server[a]))
  BY <1>1 DEF Known, NoServer, ServerRec, Sound, Pushed
<1>3. QED
  BY <1>2, HeardSound DEF Heard, ServerRec, Pushed

LEMMA QuietEffect ==
    ASSUME IInv, NEW a \in Addr,
           \/ Answer(a) \/ LegacyNote(a) \/ LegacyHeartbeat(a)
           \/ \E k \in Key : Heartbeat(a, k)
    PROVE  Effect
<1> DEFINE h == Heard(a)
<1>1. TypeOK /\ news = <<>>
  BY DEF IInv, Answer, LegacyNote, LegacyHeartbeat, Heartbeat, Handling, Runs
<1>2. h \in ServerRec /\ (Pushed(h) => Pushed(server[a])) /\ h.game = server[a].game
  BY HeardPushed
<1>3. CASE Answer(a)
  BY <1>1, <1>2, <1>3, KeptEffect DEF Answer
<1>4. CASE LegacyNote(a)
  <2>1. ~Pushed([h EXCEPT !.legacy = TRUE])
    BY <1>2 DEF Pushed, ServerRec
  <2>2. QED
    BY <1>1, <1>4, <2>1, KeptEffect DEF LegacyNote
<1>5. CASE LegacyHeartbeat(a)
  <2>1. ~Pushed([h EXCEPT !.legacy = TRUE, !.port = SourcePort])
    BY <1>2 DEF Pushed, ServerRec
  <2>2. QED
    BY <1>1, <1>5, <2>1, KeptEffect DEF LegacyHeartbeat
<1>6. ASSUME NEW k \in Key, Heartbeat(a, k)
      PROVE  Effect
  <2> DEFINE s == [h EXCEPT !.key = k, !.port = SourcePort]
  <2>1. s.game = h.game /\ (Pushed(s) => Pushed(h))
    BY <1>2 DEF Pushed, ServerRec
  <2>2. Keep(a, s)
    BY <1>6 DEF Heartbeat
  <2> HIDE DEF s
  <2>3. QED
    BY <1>1, <1>2, <2>1, <2>2, KeptEffect
<1>7. QED
  BY <1>3, <1>4, <1>5, <1>6

\* Who is registered by this answer, or was before, is told of.
LEMMA ChallengeEffect ==
    ASSUME IInv, NEW a \in Addr, NEW k \in Key, NEW right \in BOOLEAN, Challenge(a, k, right)
    PROVE  Effect
<1> DEFINE s == Heard(a)
           t == IF right /\ s.game # NoGame THEN [s EXCEPT !.registered = TRUE] ELSE s
<1>1. server \in [Addr -> ServerRec] /\ news = <<>>
  BY DEF IInv, TypeOK, Challenge, Handling, Runs
<1>2. s \in ServerRec /\ Sound(s) /\ (Pushed(s) => Pushed(server[a])) /\ s.game = server[a].game
  BY HeardPushed
<1>3. t \in ServerRec /\ t.game = s.game /\ (t.registered => t.game # NoGame)
      /\ (~t.registered => t = s)
  <2>1. s.registered => s.game # NoGame
    BY <1>2 DEF Sound, Challenge
  <2>2. QED
    BY <1>2, <2>1 DEF ServerRec
<1>4. server' = [server EXCEPT ![a] = t] /\ news' = IF t.registered THEN pushServer(a, t) ELSE <<>>
  BY DEF Challenge
<1> HIDE DEF s, t
<1>5. server'[a] = t /\ \A b \in Addr : b # a => server'[b] = server[b]
  BY <1>1, <1>4
<1>6. CASE ~t.registered
  BY <1>1, <1>4, <1>5, <1>6 DEF Effect, NewsTrue, Pushed
<1>7. CASE t.registered
  <2>1. news' = <<[kind |-> "server", addr |-> a, port |-> t.port, game |-> t.game]>>
    BY <1>3, <1>4, <1>7 DEF pushServer, Tell
  <2>2. 1 \in DOMAIN news' /\ \A i \in DOMAIN news' : i = 1
    BY <2>1
  <2>3. news'[1].kind = "server" /\ news'[1].addr = a /\ news'[1].port = t.port /\ news'[1].game = t.game
    BY <2>1
  <2>4. NewsTrue'
    BY <1>5, <1>7, <2>2, <2>3 DEF NewsTrue
  <2>5. t.port \in Port
    BY <1>3 DEF ServerRec
  <2>6. QED
    BY <1>1, <1>5, <2>2, <2>3, <2>4, <2>5 DEF Effect
<1>8. QED
  BY <1>6, <1>7

LEMMA KeysEffect ==
    ASSUME IInv, NEW a \in Addr, NEW g \in Game \union {NoGame}, NEW p \in Port,
           NEW leaving \in BOOLEAN,
           HeartbeatKeys(a, g, p, leaving) \/ LegacyHeartbeatKeys(a, g, p, leaving)
    PROVE  Effect
<1> DEFINE s == server[a]
           named == [s EXCEPT !.port = p, !.game = IF @ = NoGame THEN g ELSE @]
<1>1. TypeOK /\ news = <<>> /\ s \in ServerRec /\ Sound(s)
  BY DEF IInv, TypeOK, HeartbeatKeys, LegacyHeartbeatKeys, Runs
<1>2. /\ named \in ServerRec /\ named.legacy = s.legacy /\ named.registered = s.registered
      /\ s.game # NoGame => named.game = s.game
  BY <1>1 DEF ServerRec
<1>3. CASE deleteClient(a, named)
  BY <1>1, <1>3, DeleteEffect
<1>4. CASE HeartbeatKeys(a, g, p, leaving) /\ Keep(a, [named EXCEPT !.challenged = TRUE])
  <2> DEFINE t == [named EXCEPT !.challenged = TRUE]
  <2>1. t.legacy = s.legacy /\ t.registered = s.registered /\ t.game = named.game
    BY <1>2 DEF ServerRec
  <2>2. s.registered /\ ~s.legacy => s.game # NoGame
    BY <1>1 DEF Sound
  <2>3. Pushed(t) => Pushed(s) /\ t.game = s.game
    BY <1>2, <2>1, <2>2 DEF Pushed
  <2>4. Keep(a, t)
    BY <1>4
  <2> HIDE DEF t
  <2>5. QED
    BY <1>1, <2>3, <2>4, KeptEffect
<1>5. CASE LegacyHeartbeatKeys(a, g, p, leaving) /\ Keep(a, [named EXCEPT !.registered = TRUE])
  <2> DEFINE t == [named EXCEPT !.registered = TRUE]
  <2>1. t.legacy
    BY <1>2, <1>5 DEF ServerRec, LegacyHeartbeatKeys
  <2>2. ~Pushed(t) /\ Keep(a, t)
    BY <1>5, <2>1 DEF Pushed
  <2> HIDE DEF t
  <2>3. QED
    BY <1>1, <2>2, KeptEffect
<1>6. QED
  BY <1>3, <1>4, <1>5 DEF HeartbeatKeys, LegacyHeartbeatKeys

\* Time changes no entry but its age.
LEMMA TickEffect ==
    ASSUME IInv, NewsTrue, Tick
    PROVE  Effect
<1>1. news' = news /\ \A a \in Addr : server[a] \in ServerRec
  BY DEF Tick, IInv, TypeOK
<1>2. \A a \in Addr : /\ server'[a].live = server[a].live /\ server'[a].game = server[a].game
                      /\ server'[a].registered = server[a].registered
                      /\ server'[a].port = server[a].port
                      /\ Pushed(server'[a]) = Pushed(server[a])
  <2> TAKE a \in Addr
  <2>1. CASE server[a].live /\ server[a].age <= PingTime
    <3>1. server'[a] = [server[a] EXCEPT !.age = @ + 1]
      BY <2>1 DEF Tick
    <3>2. QED
      BY <1>1, <3>1 DEF ServerRec, Pushed
  <2>2. CASE ~(server[a].live /\ server[a].age <= PingTime)
    <3>1. server'[a] = server[a]
      BY <2>2 DEF Tick
    <3>2. QED
      BY <3>1
  <2>3. QED
    BY <2>1, <2>2
<1>3. \A i \in DOMAIN news : news[i].addr \in Addr
  <2>1. news \in Seq(Push)
    BY DEF IInv, TypeOK
  <2>2. \A i \in DOMAIN news : news[i] \in Push
    BY <2>1, ElementOfSeq, LenProperties
  <2>3. QED
    BY <2>2 DEF Push
<1>4. NewsTrue'
  BY <1>1, <1>2, <1>3 DEF NewsTrue
<1>5. QED
  BY <1>1, <1>2, <1>4 DEF Effect

LEMMA ThreadEffect ==
    ASSUME IInv, NewsTrue, Loop \/ Tick
    PROVE  Effect
<1>1. CASE Tick
  BY <1>1, TickEffect
<1>2. CASE Swept \/ \E a \in Addr \union {Nobody} : Receive(a)
  BY <1>2 DEF Swept, Receive, Runs, Effect, NewsTrue
<1>3. ASSUME NEW a \in Addr, Expire(a)
      PROVE  Effect
  BY <1>3, DeleteEffect DEF Expire, Runs, IInv
<1>4. ASSUME NEW a \in Addr, handleIncoming(a)
      PROVE  Effect
  <2>1. CASE \E c \in BOOLEAN : Short(a, c)
    BY <2>1, ShortEffect
  <2>2. CASE \/ Answer(a) \/ LegacyNote(a) \/ LegacyHeartbeat(a)
             \/ \E k \in Key : Heartbeat(a, k)
    BY <2>2, QuietEffect
  <2>3. CASE \E k \in Key, right \in BOOLEAN : Challenge(a, k, right)
    BY <2>3, ChallengeEffect
  <2>4. CASE \E g \in Game \union {NoGame}, p \in Port, leaving \in BOOLEAN :
               HeartbeatKeys(a, g, p, leaving) \/ LegacyHeartbeatKeys(a, g, p, leaving)
    BY <2>4, KeysEffect
  <2>5. QED
    BY <1>4, <2>1, <2>2, <2>3, <2>4 DEF handleIncoming
<1>5. QED
  BY <1>1, <1>2, <1>3, <1>4 DEF Loop

\* qr's thread stops while it is telling.
LEMMA ThreadTypes ==
    ASSUME IInv, NewsTrue, BrowsingTypeOK, QrThread
    PROVE  BrowsingTypeOK'
<1>1. news = <<>> \/ news' = news
  BY ThreadEffect DEF QrThread, Effect
<1>2. audience = NotCalled \/ (audience \subseteq Client /\ news' # <<>>)
  BY <1>1 DEF BrowsingTypeOK
<1>3. QED
  BY <1>1, <1>2 DEF BrowsingTypeOK, QrThread, browsingVars

-----------------------------------------------------------------------------
(* Nothing is lost between the list and the pushes.                        *)

\* c asked for all servers of a game and their updates.
Keeps(c) ==
    /\ client[c].live /\ client[c].options = {"push"} /\ ~client[c].filtered
    /\ ~garbled[c]

\* a is a server of c's game, and pushed.
Concerns(a, c) == Pushed(server[a]) /\ server[a].game = client[c].game

\* c knows of it, is about to be told, or is being answered with a list that
\* holds the server or has yet to come to it.
Aware(a, c) ==
    \/ \E p \in Port : <<a, p>> \in told[c] \/ Coming("server", a, p, c)
    \/ serving = c /\ (a \in todo \/ \E p \in Port : <<a, p>> \in found)

Informed == \A c \in Client, a \in Addr : Keeps(c) /\ Concerns(a, c) => Aware(a, c)

BInv == IInv /\ BrowsingTypeOK /\ NewsTrue /\ Informed

\* A registered server is there.
LEMMA ConcernsLive ==
    ASSUME IInv, NEW a \in Addr, NEW c \in Client, Concerns(a, c)
    PROVE  server[a].live /\ server[a].registered
BY DEF IInv, Sound, Concerns, Pushed, NoServer

\* A step of the answering thread or of select()'s leaves the rest aware.
LEMMA OthersInformed ==
    ASSUME BInv, NEW c \in Client, UNCHANGED <<vars, audience>>,
           serving \in {NoOne, c},
           \A d \in Client \ {c} : /\ client'[d] = client[d] /\ told'[d] = told[d]
                                   /\ garbled'[d] = garbled[d],
           \A a \in Addr : Keeps(c)' /\ Concerns(a, c)' => Aware(a, c)'
    PROVE  Informed'
<1> SUFFICES ASSUME NEW d \in Client, NEW a \in Addr, Keeps(d)', Concerns(a, d)'
             PROVE  Aware(a, d)'
  BY DEF Informed
<1>1. CASE d = c
  BY <1>1
<1>2. CASE d # c
  <2>1. Keeps(d) /\ Concerns(a, d)
    BY <1>2 DEF Keeps, Concerns, vars
  <2>2. PICK p \in Port : <<a, p>> \in told[d] \/ Coming("server", a, p, d)
    BY <1>2, <2>1 DEF BInv, Informed, Aware
  <2>3. <<a, p>> \in told'[d] \/ Coming("server", a, p, d)'
    BY <1>2, <2>2 DEF Coming, StillFor, vars
  <2>4. QED
    BY <2>3 DEF Aware
<1>3. QED
  BY <1>1, <1>2

LEMMA AcceptInformed ==
    ASSUME BInv, NEW c \in Client, Accept(c)
    PROVE  Informed'
<1>1. client \in [Client -> ClientRec] /\ told \in [Client -> SUBSET (Addr \X Port)]
      /\ garbled \in [Client -> BOOLEAN]
  BY DEF BInv, BrowsingTypeOK
<1>2. ~Keeps(c)'
  <2>1. CASE dbUp
    <3>1. client'[c].options = {}
      BY <1>1, <2>1 DEF Accept, NewClient
    <3>2. QED
      BY <3>1 DEF Keeps
  <2>2. CASE ~dbUp
    BY <2>2 DEF Accept, Keeps
  <2>3. QED
    BY <2>1, <2>2
<1>3. \A d \in Client \ {c} : /\ client'[d] = client[d] /\ told'[d] = told[d]
                              /\ garbled'[d] = garbled[d]
  BY <1>1 DEF Accept
<1>4. serving = NoOne /\ UNCHANGED <<vars, audience>>
  BY DEF Accept, Selects
<1>5. QED
  BY <1>2, <1>3, <1>4, OthersInformed

LEMMA GoneInformed ==
    ASSUME BInv, NEW c \in Client, Gone(c), UNCHANGED <<vars, audience, told, garbled>>,
           serving \in {NoOne, c}
    PROVE  Informed'
<1>1. BrowsingTypeOK
  BY DEF BInv
<1>2. ~client'[c].live /\ \A d \in Client : d # c => client'[d] = client[d]
  BY <1>1, GoneTypes
<1>3. ~Keeps(c)'
  BY <1>2 DEF Keeps
<1>4. QED
  BY <1>2, <1>3, OthersInformed

\* A request that asks for all starts the walk at the beginning.
LEMMA RequestInformed ==
    ASSUME BInv, NEW c \in Client, NEW g \in Game \union {NoGame},
           NEW o \in Asked, NEW f \in Filters, handleListRequest(c, g, o, f)
    PROVE  Informed'
<1>1. serving = NoOne /\ UNCHANGED <<vars, audience, told, garbled>>
  BY DEF handleListRequest, Selects
<1>2. CASE g \in Disabled
  BY <1>1, <1>2, GoneInformed DEF handleListRequest
<1>3. CASE g \notin Disabled
  <2>1. client \in [Client -> ClientRec]
    BY DEF BInv, BrowsingTypeOK
  <2>2. client'[c].options = o
    <3>1. client'[c] = Requested(c, g, o, f)
      BY <1>3, <2>1 DEF handleListRequest
    <3>2. client[c] \in ClientRec
      BY <2>1
    <3>3. Requested(c, g, o, f).options = o
      BY <3>2 DEF Requested, ClientRec
    <3>4. QED
      BY <3>1, <3>3
  <2>3. \A d \in Client \ {c} : client'[d] = client[d]
    BY <1>3, <2>1 DEF handleListRequest
  <2>4. o = {"push"} => todo' = Addr
    BY <1>3 DEF handleListRequest
  <2>5. serving' = c
    BY <1>3 DEF handleListRequest
  <2>6. \A a \in Addr : Keeps(c)' => Aware(a, c)'
    BY <2>2, <2>4, <2>5 DEF Keeps, Aware
  <2>7. QED
    BY <1>1, <2>3, <2>6, OthersInformed
<1>4. QED
  BY <1>2, <1>3

LEMMA LookInformed ==
    ASSUME BInv, NEW b \in Addr, Look(b)
    PROVE  Informed'
<1> SUFFICES ASSUME NEW c \in Client, c = serving PROVE Informed'
  BY DEF BInv, BrowsingTypeOK, Look
<1>1. c \in Client /\ UNCHANGED <<vars, audience, client, serving, told, garbled>>
  BY DEF BInv, BrowsingTypeOK, Look
<1>2. ASSUME NEW a \in Addr, Keeps(c)', Concerns(a, c)'
      PROVE  Aware(a, c)'
  <2>1. Keeps(c) /\ Concerns(a, c)
    BY <1>1, <1>2 DEF Keeps, Concerns, vars
  <2>2. CASE a = b
    <3>1. server[b].live /\ server[b].registered /\ server[b].game = client[c].game
          /\ ~client[c].filtered
      BY <1>1, <2>1, <2>2, ConcernsLive DEF BInv, Concerns, Keeps
    <3>2. <<b, server[b].port>> \in found'
      BY <3>1 DEF Look
    <3>3. server[b].port \in Port
      BY DEF BInv, IInv, TypeOK, ServerRec
    <3>4. QED
      BY <1>1, <2>2, <3>2, <3>3 DEF Aware
  <2>3. CASE a # b
    <3>1. Aware(a, c)
      BY <1>1, <2>1 DEF BInv, Informed
    <3>2. found \subseteq found' /\ (a \in todo => a \in todo')
      BY <2>3 DEF Look
    <3>3. CASE \E p \in Port : <<a, p>> \in told[c] \/ Coming("server", a, p, c)
      BY <1>1, <3>3 DEF Aware, Coming, StillFor, vars
    <3>4. CASE a \in todo \/ \E p \in Port : <<a, p>> \in found
      BY <1>1, <3>2, <3>4 DEF Aware
    <3>5. QED
      BY <3>1, <3>3, <3>4 DEF Aware
  <2>4. QED
    BY <2>2, <2>3
<1>3. QED
  BY <1>1, <1>2, OthersInformed

\* The list says all that the walk has found, when it has no limit.
LEMMA AnsweredInformed ==
    ASSUME BInv, Answered
    PROVE  Informed'
<1> SUFFICES ASSUME NEW c \in Client, c = serving PROVE Informed'
  BY DEF BInv, BrowsingTypeOK, Answered
<1>1. c \in Client /\ UNCHANGED <<vars, audience, garbled>> /\ todo = {} /\ BrowsingTypeOK
  BY DEF BInv, BrowsingTypeOK, Answered
<1>2. CASE Gone(c) /\ UNCHANGED told
  BY <1>1, <1>2, GoneInformed
<1>3. ASSUME client' = [client EXCEPT ![c].header = TRUE],
             NEW L \in SUBSET found, "limit" \in client[c].options \/ L = found,
             told' = [told EXCEPT ![c] = @ \union L]
      PROVE  Informed'
  <2>1. /\ client'[c].live = client[c].live /\ client'[c].game = client[c].game
        /\ client'[c].options = client[c].options /\ client'[c].filtered = client[c].filtered
    BY <1>1, <1>3, HeaderTypes
  <2>2. \A d \in Client \ {c} : client'[d] = client[d] /\ told'[d] = told[d]
    BY <1>1, <1>3 DEF BrowsingTypeOK
  <2>3. told'[c] = told[c] \union L
    BY <1>1, <1>3 DEF BrowsingTypeOK
  <2>4. ASSUME NEW a \in Addr, Keeps(c)', Concerns(a, c)'
        PROVE  Aware(a, c)'
    <3>1. Keeps(c) /\ Concerns(a, c)
      BY <1>1, <2>1, <2>4 DEF Keeps, Concerns, vars
    <3>2. L = found
      BY <1>3, <3>1 DEF Keeps
    <3>3. PICK p \in Port : \/ <<a, p>> \in told[c] \union found
                            \/ Coming("server", a, p, c)
      BY <1>1, <3>1 DEF BInv, Informed, Aware
    <3>4. <<a, p>> \in told'[c] \/ Coming("server", a, p, c)'
      BY <1>1, <2>1, <2>3, <3>2, <3>3 DEF Coming, StillFor, vars
    <3>5. QED
      BY <3>4 DEF Aware
  <2>5. QED
    BY <1>1, <2>2, <2>4, OthersInformed
<1>4. QED
  BY <1>2, <1>3 DEF Answered

LEMMA CalledInformed ==
    ASSUME BInv, Called
    PROVE  Informed'
<1> SUFFICES ASSUME NEW c \in Client, NEW a \in Addr, Keeps(c)', Concerns(a, c)'
             PROVE  Aware(a, c)'
  BY DEF Informed
<1>1. Keeps(c) /\ Concerns(a, c) /\ c \in audience'
  BY DEF Called, Keeps, Concerns, vars
<1>2. Aware(a, c)
  BY <1>1 DEF BInv, Informed
<1>3. UNCHANGED <<client, news, serving, todo, found, told>>
  BY DEF Called, vars
<1>4. ASSUME NEW p \in Port, Coming("server", a, p, c)
      PROVE  Coming("server", a, p, c)'
  BY <1>1, <1>3, <1>4 DEF Coming, StillFor
<1>5. QED
  BY <1>2, <1>3, <1>4 DEF Aware

\* A push that concerns c, or one that does not undo what c knows.
LEMMA PushToInformed ==
    ASSUME BInv, NEW d \in Client, PushTo(d)
    PROVE  Informed'
<1> SUFFICES ASSUME NEW c \in Client, NEW a \in Addr, Keeps(c)', Concerns(a, c)'
             PROVE  Aware(a, c)'
  BY DEF Informed
<1> DEFINE m == Head(news)
<1>1. BrowsingTypeOK /\ TypeOK /\ news # <<>>
  BY DEF BInv, IInv, PushTo
<1>2. m \in Push /\ m = news[1] /\ 1 \in DOMAIN news /\ DOMAIN news \subseteq Nat \ {0}
  BY <1>1, HeadType
<1>3. UNCHANGED <<vars, serving, todo, found>> /\ audience' = audience \ {d}
      /\ d \in audience /\ audience # NotCalled
  BY DEF PushTo
<1>4. CASE c # d
  <2>1. client'[c] = client[c] /\ told'[c] = told[c] /\ garbled'[c] = garbled[c]
    BY <1>1, <1>4 DEF PushTo, BrowsingTypeOK
  <2>2. Keeps(c) /\ Concerns(a, c)
    BY <1>3, <2>1 DEF Keeps, Concerns, vars
  <2>3. Aware(a, c)
    BY <2>2 DEF BInv, Informed
  <2>4. ASSUME NEW p \in Port, Coming("server", a, p, c)
        PROVE  Coming("server", a, p, c)'
    BY <1>3, <1>4, <2>1, <2>4 DEF Coming, StillFor, vars
  <2>5. QED
    BY <1>3, <2>1, <2>3, <2>4 DEF Aware
<1>5. CASE c = d
  <2>1. /\ client'[c].live = client[c].live /\ client'[c].game = client[c].game
        /\ client'[c].options = client[c].options /\ client'[c].filtered = client[c].filtered
    <3>1. CASE Wants(c, m)
      BY <1>1, <1>5, <3>1, HeaderTypes DEF PushTo
    <3>2. CASE ~Wants(c, m)
      BY <1>5, <3>2 DEF PushTo
    <3>3. QED
      BY <3>1, <3>2
  <2>2. ~garbled[c]
    BY <1>1, <1>5 DEF PushTo, BrowsingTypeOK, Keeps
  <2>3. Keeps(c) /\ Concerns(a, c)
    BY <1>3, <2>1, <2>2 DEF Keeps, Concerns, vars
  <2>4. Aware(a, c)
    BY <2>3 DEF BInv, Informed
  <2>5. server[a].live /\ server[a].game = client[c].game
    BY <2>3, ConcernsLive DEF BInv, Concerns
  <2>6. ASSUME NEW p \in Port, <<a, p>> \in told[c]
        PROVE  <<a, p>> \in told'[c]
    <3>1. CASE Wants(c, m)
      <4>1. told'[c] = After(c, m)
        BY <1>1, <1>5, <3>1 DEF PushTo, BrowsingTypeOK
      <4>2. m.kind = "delete" => m.addr # a
        BY <1>2, <2>5 DEF BInv, NewsTrue
      <4>3. m.kind \in {"server", "delete"}
        BY <1>2 DEF Push
      <4>4. QED
        BY <2>6, <4>1, <4>2, <4>3 DEF After
    <3>2. CASE ~Wants(c, m)
      BY <1>5, <2>6, <3>2 DEF PushTo
    <3>3. QED
      BY <3>1, <3>2
  <2>7. ASSUME NEW p \in Port, Coming("server", a, p, c)
        PROVE  <<a, p>> \in told'[c] \/ Coming("server", a, p, c)'
    <3>1. PICK i \in DOMAIN news : /\ news[i].kind = "server"
                                   /\ news[i].addr = a /\ news[i].port = p
                                   /\ news[i].game = client[c].game
      BY <2>7 DEF Coming
    <3>2. CASE i > 1
      BY <1>3, <2>1, <3>1, <3>2 DEF Coming, StillFor, vars
    <3>3. CASE i = 1
      <4>1. m.kind = "server" /\ m.addr = a /\ m.port = p
        BY <1>2, <3>1, <3>3
      <4>2. m.game = server[a].game
        BY <1>2, <2>5, <4>1 DEF BInv, NewsTrue
      <4>3. Wants(c, m)
        BY <2>3, <2>5, <4>2 DEF Wants, Keeps
      <4>4. told'[c] = After(c, m)
        BY <1>1, <1>5, <4>3 DEF PushTo, BrowsingTypeOK
      <4>5. QED
        BY <4>1, <4>4 DEF After
    <3>4. QED
      BY <1>2, <3>2, <3>3
  <2>8. QED
    BY <1>3, <2>4, <2>6, <2>7 DEF Aware
<1>6. QED
  BY <1>4, <1>5

LEMMA PushToFreedInformed ==
    ASSUME BInv, NEW d \in Client, PushToFreed(d)
    PROVE  Informed'
<1> SUFFICES ASSUME NEW c \in Client, NEW a \in Addr, Keeps(c)', Concerns(a, c)'
             PROVE  Aware(a, c)'
  BY DEF Informed
<1>1. UNCHANGED <<vars, client, serving, todo, found, told>>
      /\ audience' = audience \ {d} /\ ~client[d].live
  BY DEF PushToFreed
<1>2. garbled[c] => garbled'[c]
  BY DEF PushToFreed, BInv, BrowsingTypeOK
<1>3. Keeps(c) /\ Concerns(a, c) /\ c # d
  BY <1>1, <1>2 DEF Keeps, Concerns, vars
<1>4. Aware(a, c)
  BY <1>3 DEF BInv, Informed
<1>5. ASSUME NEW p \in Port, Coming("server", a, p, c)
      PROVE  Coming("server", a, p, c)'
  <2>1. audience # NotCalled
    BY DEF PushToFreed
  <2>2. QED
    BY <1>1, <1>3, <1>5, <2>1 DEF Coming, StillFor, vars
<1>6. QED
  BY <1>1, <1>4, <1>5 DEF Aware

\* The next of the news is for everybody.
LEMMA ReturnedInformed ==
    ASSUME BInv, Returned
    PROVE  Informed' /\ NewsTrue'
<1>1. audience = {} /\ audience # NotCalled /\ audience' = NotCalled
  BY BrowsingAssumption DEF Returned
<1>2. UNCHANGED <<server, client, serving, todo, found, told, garbled>>
  BY DEF Returned, Delivered
<1>3. /\ news' = Tail(news) /\ news \in Seq(Push) /\ news # <<>>
  BY DEF Returned, Delivered, BInv, IInv, TypeOK
<1>4. /\ \A i \in DOMAIN news' : i + 1 \in DOMAIN news /\ news'[i] = news[i + 1]
      /\ \A i \in DOMAIN news : i > 1 => i - 1 \in DOMAIN news' /\ news'[i - 1] = news[i]
  BY <1>3, HeadTailProperties, LenProperties, EmptySeq
<1>5. NewsTrue'
  BY <1>2, <1>4 DEF BInv, NewsTrue
<1>6. ASSUME NEW c \in Client, NEW a \in Addr, Keeps(c)', Concerns(a, c)'
      PROVE  Aware(a, c)'
  <2>1. Keeps(c) /\ Concerns(a, c)
    BY <1>2, <1>6 DEF Keeps, Concerns
  <2>2. Aware(a, c)
    BY <2>1 DEF BInv, Informed
  <2>3. ASSUME NEW p \in Port, Coming("server", a, p, c)
        PROVE  Coming("server", a, p, c)'
    <3>1. PICK i \in DOMAIN news : /\ i > 1 /\ news[i].kind = "server"
                                   /\ news[i].addr = a /\ news[i].port = p
                                   /\ news[i].game = client[c].game
      BY <1>1, <2>3 DEF Coming, StillFor
    <3>2. i - 1 \in DOMAIN news' /\ news'[i - 1] = news[i]
      BY <1>4, <3>1
    <3>3. QED
      BY <1>1, <1>2, <3>1, <3>2 DEF Coming, StillFor
  <2>4. QED
    BY <1>2, <2>2, <2>3 DEF Aware
<1>7. QED
  BY <1>5, <1>6 DEF Informed

\* While qr's thread does something else, nobody is being told.
LEMMA ThreadInformed ==
    ASSUME BInv, QrThread
    PROVE  Informed' /\ NewsTrue'
<1>1. Effect
  BY ThreadEffect DEF BInv, QrThread
<1>2. UNCHANGED browsingVars
  BY DEF QrThread
<1>3. UNCHANGED <<client, serving, todo, found, audience, told, garbled>>
  BY <1>2 DEF browsingVars
<1>4. ASSUME NEW c \in Client, NEW a \in Addr, Keeps(c)', Concerns(a, c)'
      PROVE  Aware(a, c)'
  <2>1. Keeps(c)
    BY <1>3, <1>4 DEF Keeps
  <2>2. CASE Pushed(server[a]) /\ server'[a].game = server[a].game
    <3>1. Concerns(a, c)
      BY <1>3, <1>4, <2>2 DEF Concerns
    <3>2. Aware(a, c)
      BY <2>1, <3>1 DEF BInv, Informed
    <3>3. ASSUME NEW p \in Port, Coming("server", a, p, c)
          PROVE  Coming("server", a, p, c)'
      <4>1. news' = news
        BY <1>1, <3>3 DEF Effect, Coming
      <4>2. QED
        BY <1>3, <3>3, <4>1 DEF Coming, StillFor
    <3>4. QED
      BY <1>3, <3>2, <3>3 DEF Aware
  <2>3. CASE news = <<>> /\ \E i \in DOMAIN news' : /\ news'[i].kind = "server"
                                                   /\ news'[i].addr = a
                                                   /\ news'[i].port \in Port
                                                   /\ news'[i].game = server'[a].game
    <3>1. audience' = NotCalled
      BY <1>3, <2>3 DEF BInv, BrowsingTypeOK
    <3>2. server'[a].game = client'[c].game
      BY <1>4 DEF Concerns
    <3>3. QED
      BY <2>3, <3>1, <3>2 DEF Aware, Coming, StillFor
  <2>4. QED
    BY <1>1, <1>4, <2>2, <2>3 DEF Effect, Concerns
<1>5. QED
  BY <1>1, <1>4 DEF Effect, Informed

-----------------------------------------------------------------------------
(* Together.                                                               *)

\* serverbrowsing's part leaves the registry and the thread alone, and the
\* composition's steps are steps of Qr.
LEMMA QrSteps == [BrowsingNext]_allVars => [Next]_vars
BY DEF BrowsingNext, allVars, QrThread, Calls, Called, PushTo, PushToFreed, Returned, Accept,
       Disconnect, Requests, handleListRequest, Answers, Answered, Look, Database, Next

LEMMA NewsKept == BInv /\ UNCHANGED vars => NewsTrue'
BY DEF BInv, NewsTrue, vars

LEMMA BInitially == BrowsingInit => BInv
<1> SUFFICES ASSUME BrowsingInit PROVE BInv
  OBVIOUS
<1>1. IInv /\ BrowsingTypeOK
  BY InitSound, BrowsingTypeInit DEF BrowsingInit
<1>2. NewsTrue
  BY DEF BrowsingInit, Init, NewsTrue
<1>3. Informed
  BY NoServerQuiet DEF BrowsingInit, Init, Informed, Concerns
<1>4. QED
  BY <1>1, <1>2, <1>3 DEF BInv

LEMMA BStep == BInv /\ [BrowsingNext]_allVars => BInv'
<1> SUFFICES ASSUME BInv, [BrowsingNext]_allVars PROVE BInv'
  OBVIOUS
<1>1. IInv /\ TypeOK /\ BrowsingTypeOK /\ NewsTrue
  BY DEF BInv, IInv
<1>2. IInv'
  BY <1>1, QrSteps, NextSound
<1>3. BrowsingTypeOK' /\ NewsTrue' /\ Informed'
  <2>1. CASE QrThread
    BY <1>1, <2>1, ThreadTypes, ThreadInformed
  <2>2. CASE Called
    <3>1. UNCHANGED vars
      BY <2>2 DEF Called
    <3>2. QED
      BY <1>1, <2>2, <3>1, CallTypes, NewsKept, CalledInformed DEF Calls
  <2>3. CASE Returned
    BY <1>1, <2>3, CallTypes, ReturnedInformed DEF Calls
  <2>4. ASSUME NEW c \in Client, PushTo(c)
        PROVE  BrowsingTypeOK' /\ NewsTrue' /\ Informed'
    <3>1. UNCHANGED vars /\ Calls
      BY <2>4 DEF PushTo, Calls
    <3>2. QED
      BY <1>1, <2>4, <3>1, CallTypes, NewsKept, PushToInformed
  <2>5. ASSUME NEW c \in Client, PushToFreed(c)
        PROVE  BrowsingTypeOK' /\ NewsTrue' /\ Informed'
    <3>1. UNCHANGED vars /\ Calls
      BY <2>5 DEF PushToFreed, Calls
    <3>2. QED
      BY <1>1, <2>5, <3>1, CallTypes, NewsKept, PushToFreedInformed
  <2>6. ASSUME NEW c \in Client, Accept(c)
        PROVE  BrowsingTypeOK' /\ NewsTrue' /\ Informed'
    <3>1. UNCHANGED vars
      BY <2>6 DEF Accept
    <3>2. QED
      BY <1>1, <2>6, <3>1, AcceptTypes, NewsKept, AcceptInformed
  <2>7. ASSUME NEW c \in Client, Disconnect(c)
        PROVE  BrowsingTypeOK' /\ NewsTrue' /\ Informed'
    <3>1. Gone(c) /\ UNCHANGED <<vars, audience, told, garbled>> /\ serving = NoOne
      BY <2>7 DEF Disconnect, Selects
    <3>2. NewsTrue' /\ Informed'
      BY <3>1, NewsKept, GoneInformed
    <3>3. QED
      BY <1>1, <2>7, <3>2, DisconnectTypes
  <2>8. ASSUME NEW c \in Client, NEW g \in Game \union {NoGame}, NEW o \in Asked,
               NEW f \in Filters, handleListRequest(c, g, o, f)
        PROVE  BrowsingTypeOK' /\ NewsTrue' /\ Informed'
    <3>1. UNCHANGED vars
      BY <2>8 DEF handleListRequest
    <3>2. QED
      BY <1>1, <2>8, <3>1, RequestTypes, NewsKept, RequestInformed
  <2>9. CASE Answered
    <3>1. UNCHANGED vars
      BY <2>9 DEF Answered
    <3>2. QED
      BY <1>1, <2>9, <3>1, AnsweredTypes, NewsKept, AnsweredInformed
  <2>10. ASSUME NEW a \in Addr, Look(a)
         PROVE  BrowsingTypeOK' /\ NewsTrue' /\ Informed'
    <3>1. UNCHANGED vars
      BY <2>10 DEF Look
    <3>2. QED
      BY <1>1, <2>10, <3>1, LookTypes, NewsKept, LookInformed
  <2>11. CASE Database \/ UNCHANGED allVars
    <3>1. /\ UNCHANGED vars /\ dbUp' \in BOOLEAN
          /\ UNCHANGED <<client, serving, todo, found, audience, told, garbled, door, refused>>
      BY <1>1, <2>11 DEF Database, allVars, browsingVars, BrowsingTypeOK
    <3>2. UNCHANGED <<server, news, client, audience, told, garbled, serving, todo, found>>
      BY <3>1 DEF vars
    <3>3. BrowsingTypeOK'
      BY <1>1, <3>1, <3>2 DEF BrowsingTypeOK
    <3>4. ASSUME NEW c \in Client, NEW a \in Addr
          PROVE  /\ Keeps(c)' = Keeps(c) /\ Concerns(a, c)' = Concerns(a, c)
                 /\ Aware(a, c)' = Aware(a, c)
      <4>1. \A p \in Port : Coming("server", a, p, c)' = Coming("server", a, p, c)
        BY <3>2 DEF Coming, StillFor
      <4>2. QED
        BY <3>2, <4>1 DEF Keeps, Concerns, Aware
    <3>5. QED
      BY <3>1, <3>3, <3>4, NewsKept DEF BInv, Informed
  <2>12. QED
    BY <2>1, <2>2, <2>3, <2>4, <2>5, <2>6, <2>7, <2>8, <2>9, <2>10, <2>11
       DEF BrowsingNext, Calls, Requests, Answers
<1>4. QED
  BY <1>2, <1>3 DEF BInv

-----------------------------------------------------------------------------
(* Entries that are not there.                                             *)

\* Who is kept up to date has named a game.
Named == \A c \in Client : "push" \in client[c].options => client[c].game # NoGame

\* A step that leaves the requests of all but c alone.
LEMMA NamedFrame ==
    ASSUME Named, NEW c \in Client,
           \A d \in Client : d # c => client'[d] = client[d],
           "push" \in client'[c].options => client'[c].game # NoGame
    PROVE  Named'
BY DEF Named

\* Nor does it matter whether a client is there or has been sent the header.
LEMMA GoneNamed ==
    ASSUME BrowsingTypeOK, Named, NEW c \in Client, Gone(c)
    PROVE  Named'
<1>1. client[c] \in ClientRec
  BY DEF BrowsingTypeOK
<1> DEFINE x == [client[c] EXCEPT !.live = FALSE]
<1>2. x.options = client[c].options /\ x.game = client[c].game
  BY <1>1 DEF ClientRec
<1>3. client' = [client EXCEPT ![c] = x]
  BY DEF Gone
<1> HIDE DEF x
<1>4. client'[c] = x /\ \A d \in Client : d # c => client'[d] = client[d]
  BY <1>3 DEF BrowsingTypeOK
<1>5. "push" \in client'[c].options => client'[c].game # NoGame
  BY <1>2, <1>4 DEF Named
<1>6. QED
  BY <1>4, <1>5, NamedFrame

LEMMA AcceptNamed ==
    ASSUME BrowsingTypeOK, Named, NEW c \in Client, Accept(c)
    PROVE  Named'
<1>1. CASE dbUp
  <2>1. client'[c] = NewClient /\ \A d \in Client : d # c => client'[d] = client[d]
    BY <1>1 DEF Accept, BrowsingTypeOK
  <2>2. "push" \notin client'[c].options
    BY <2>1 DEF NewClient
  <2>3. QED
    BY <2>1, <2>2, NamedFrame
<1>2. CASE ~dbUp
  BY <1>2 DEF Accept, Named
<1>3. QED
  BY <1>1, <1>2

LEMMA RequestNamed ==
    ASSUME BrowsingTypeOK, Named, NEW c \in Client, NEW g \in Game \union {NoGame},
           NEW o \in Asked, NEW f \in Filters, handleListRequest(c, g, o, f)
    PROVE  Named'
<1>1. CASE g \in Disabled
  BY <1>1, GoneNamed DEF handleListRequest
<1>2. CASE g \notin Disabled
  <2>1. client'[c] = Requested(c, g, o, f) /\ \A d \in Client : d # c => client'[d] = client[d]
    BY <1>2 DEF handleListRequest, BrowsingTypeOK
  <2>2. client[c] \in ClientRec
    BY DEF BrowsingTypeOK
  <2>3. Requested(c, g, o, f).game = g /\ Requested(c, g, o, f).options = o
    BY <2>2 DEF Requested, ClientRec
  <2>4. "push" \in client'[c].options => client'[c].game # NoGame
    BY <2>1, <2>3 DEF handleListRequest
  <2>5. QED
    BY <2>1, <2>4, NamedFrame
<1>3. QED
  BY <1>1, <1>2

LEMMA NamedStep == BrowsingTypeOK /\ Named /\ [BrowsingNext]_allVars => Named'
<1> SUFFICES ASSUME BrowsingTypeOK, Named, [BrowsingNext]_allVars PROVE Named'
  OBVIOUS
<1>1. CASE UNCHANGED client
  BY <1>1 DEF Named
<1>2. ASSUME NEW c \in Client, client' = [client EXCEPT ![c].header = TRUE]
      PROVE  Named'
  <2>1. \A d \in Client : /\ client'[d].game = client[d].game
                          /\ client'[d].options = client[d].options
    BY <1>2, HeaderTypes
  <2>2. QED
    BY <2>1 DEF Named
<1>3. CASE QrThread \/ Called \/ Returned \/ Database \/ UNCHANGED allVars
  BY <1>1, <1>3 DEF QrThread, Called, Returned, Database, allVars, browsingVars
<1>4. ASSUME NEW c \in Client, PushTo(c) \/ PushToFreed(c)
      PROVE  Named'
  BY <1>1, <1>2, <1>4 DEF PushTo, PushToFreed
<1>5. ASSUME NEW c \in Client, Accept(c) \/ Disconnect(c)
      PROVE  Named'
  BY <1>5, AcceptNamed, GoneNamed DEF Disconnect
<1>6. ASSUME NEW c \in Client, NEW g \in Game \union {NoGame}, NEW o \in Asked,
             NEW f \in Filters, handleListRequest(c, g, o, f)
      PROVE  Named'
  BY <1>6, RequestNamed
<1>7. CASE Answered
  <2>1. serving \in Client
    BY <1>7 DEF Answered, BrowsingTypeOK
  <2>2. Gone(serving) \/ client' = [client EXCEPT ![serving].header = TRUE]
    BY <1>7 DEF Answered
  <2>3. QED
    BY <1>2, <2>1, <2>2, GoneNamed
<1>8. ASSUME NEW a \in Addr, Look(a)
      PROVE  Named'
  BY <1>1, <1>8 DEF Look
<1>9. QED
  BY <1>3, <1>4, <1>5, <1>6, <1>7, <1>8 DEF BrowsingNext, Calls, Requests, Answers

\* What becomes of an entry that is registered: its server has the thread's
\* attention for a heartbeat; it stays as it was for a list; or it is deleted,
\* and that is told.
Fate ==
    \A a \in Addr : server[a].registered =>
        \/ mail = a /\ "keys" \in {at, at'}
        \/ /\ server'[a].registered
           /\ server'[a].game = server[a].game /\ server'[a].port = server[a].port
        \/ /\ news = <<>>
           /\ server[a].game # NoGame =>
                \E i \in DOMAIN news' : /\ news'[i].kind = "delete" /\ news'[i].addr = a
                                        /\ news'[i].port = server[a].port
                                        /\ news'[i].game = server[a].game

\* An entry that is kept as s.
LEMMA KeptFate ==
    ASSUME TypeOK, NEW a \in Addr, NEW s, server' = [server EXCEPT ![a] = s],
           server[a].registered =>
             s.registered /\ s.game = server[a].game /\ s.port = server[a].port
    PROVE  Fate
BY DEF TypeOK, Fate

\* A deleted one, of which the first of the news tells.
LEMMA DeletedFate ==
    ASSUME TypeOK, news = <<>>, NEW a \in Addr, server' = [server EXCEPT ![a] = NoServer],
           NEW s, s.game = server[a].game, server[a].registered => s.port = server[a].port,
           NEW tail, tail \in Seq(Push), s \in ServerRec,
           news' = pushDelete(a, s) \o tail
    PROVE  Fate
<1>1. ASSUME server[a].registered, server[a].game # NoGame
      PROVE  \E i \in DOMAIN news' : /\ news'[i].kind = "delete" /\ news'[i].addr = a
                                     /\ news'[i].port = server[a].port
                                     /\ news'[i].game = server[a].game
  <2> DEFINE x == [kind |-> "delete", addr |-> a, port |-> s.port, game |-> s.game]
  <2>1. pushDelete(a, s) = <<x>>
    BY <1>1 DEF pushDelete, Tell
  <2>2. pushDelete(a, s) \in Seq(Push)
    BY TellType DEF pushDelete
  <2>3. x.kind = "delete" /\ x.addr = a /\ x.port = server[a].port /\ x.game = server[a].game
    BY <1>1
  <2> HIDE DEF x
  <2>4. 1 \in DOMAIN news' /\ news'[1] = x
    BY <2>1, <2>2, ConcatProperties, LenProperties
  <2>5. QED
    BY <2>3, <2>4
<1>2. \A b \in Addr : b # a => server'[b] = server[b]
  BY DEF TypeOK
<1> SUFFICES ASSUME NEW b \in Addr, server[b].registered
             PROVE  \/ server'[b] = server[b]
                    \/ b = a
  BY <1>1 DEF Fate
<1>3. QED
  BY <1>2

\* What the datagram finds is what was there.
LEMMA HeardFate ==
    ASSUME IInv, NEW a \in Addr
    PROVE  /\ Heard(a) \in ServerRec /\ Heard(a).game = server[a].game
           /\ server[a].registered =>
                Heard(a).registered /\ Heard(a).port = server[a].port
<1>1. server[a] \in ServerRec /\ Sound(server[a])
  BY DEF IInv, TypeOK
<1>2. server[a].registered => Known(a) = server[a]
  BY <1>1 DEF Known, Sound, NoServer
<1>3. Heard(a) \in ServerRec /\ Heard(a).game = server[a].game
  BY HeardPushed
<1>4. server[a].registered => Heard(a).registered /\ Heard(a).port = server[a].port
  <2> SUFFICES ASSUME server[a].registered
               PROVE  Heard(a).registered /\ Heard(a).port = server[a].port
    OBVIOUS
  <2>1. Heard(a) = [server[a] EXCEPT !.age = 0]
    BY <1>2 DEF Heard
  <2>2. QED
    BY <1>1, <2>1 DEF ServerRec
<1>5. QED
  BY <1>3, <1>4

LEMMA ShortFate ==
    ASSUME IInv, NEW a \in Addr, NEW c \in BOOLEAN, Short(a, c)
    PROVE  Fate
<1> DEFINE s == Heard(a)
           z == [s EXCEPT !.port = SourcePort]
           tail == IF c /\ s.registered /\ ~s.legacy /\ Passes(s, ZeroKey)
                   THEN pushServer(a, z) ELSE <<>>
<1>1. TypeOK /\ news = <<>>
  BY DEF IInv, Short, Handling, Runs
<1>2. s \in ServerRec /\ s.game = server[a].game
      /\ (server[a].registered => s.port = server[a].port)
  BY HeardFate
<1>3. z \in ServerRec
  BY <1>2 DEF ServerRec
<1>4. tail \in Seq(Push)
  <2>1. pushServer(a, z) \in Seq(Push)
    BY <1>3, TellType DEF pushServer
  <2>2. <<>> \in Seq(Push)
    OBVIOUS
  <2>3. QED
    BY <2>1, <2>2
<1>5. news' = pushDelete(a, s) \o tail /\ server' = [server EXCEPT ![a] = NoServer]
  BY DEF Short
<1> HIDE DEF s, tail
<1>6. QED
  BY <1>1, <1>2, <1>4, <1>5, DeletedFate

LEMMA ExpireFate ==
    ASSUME IInv, NEW a \in Addr, Expire(a)
    PROVE  Fate
<1>1. TypeOK /\ news = <<>> /\ server[a] \in ServerRec
  BY DEF IInv, TypeOK, Expire, Runs
<1>2. pushDelete(a, server[a]) \in Seq(Push) /\ <<>> \in Seq(Push)
  BY <1>1, TellType DEF pushDelete
<1>3. news' = pushDelete(a, server[a]) \o <<>>
  <2>1. news' = pushDelete(a, server[a])
    BY DEF Expire, deleteClient
  <2>2. QED
    BY <1>2, <2>1, ConcatEmptySeq
<1>4. server' = [server EXCEPT ![a] = NoServer]
  BY DEF Expire, deleteClient
<1>5. QED
  BY <1>1, <1>2, <1>3, <1>4, DeletedFate

LEMMA ThreadFate ==
    ASSUME IInv, Loop \/ Tick
    PROVE  Fate
<1>1. CASE Tick
  <2> SUFFICES ASSUME NEW a \in Addr, server[a].registered
               PROVE  /\ server'[a].registered
                      /\ server'[a].game = server[a].game /\ server'[a].port = server[a].port
    BY DEF Fate
  <2>1. server[a] \in ServerRec
    BY DEF IInv, TypeOK
  <2>2. server'[a] \in {server[a], [server[a] EXCEPT !.age = @ + 1]}
    BY <1>1 DEF Tick
  <2>3. QED
    BY <2>1, <2>2 DEF ServerRec
<1>2. CASE Swept \/ \E a \in Addr \union {Nobody} : Receive(a)
  BY <1>2 DEF Swept, Receive, Fate
<1>3. ASSUME NEW a \in Addr, Expire(a)
      PROVE  Fate
  BY <1>3, ExpireFate
<1>4. ASSUME NEW a \in Addr, handleIncoming(a)
      PROVE  Fate
  <2>1. CASE \E c \in BOOLEAN : Short(a, c)
    BY <2>1, ShortFate
  <2>2. TypeOK /\ server \in [Addr -> ServerRec]
    BY DEF IInv, TypeOK
  <2>3. /\ Heard(a) \in ServerRec /\ Heard(a).game = server[a].game
        /\ server[a].registered => Heard(a).registered /\ Heard(a).port = server[a].port
    BY HeardFate
  <2>4. CASE Answer(a)
    BY <2>2, <2>3, <2>4, KeptFate DEF Answer, Keep
  <2>5. CASE LegacyNote(a)
    <3> DEFINE s == [Heard(a) EXCEPT !.legacy = TRUE]
    <3>1. s.game = Heard(a).game /\ s.port = Heard(a).port /\ s.registered = Heard(a).registered
      BY <2>3 DEF ServerRec
    <3>2. server' = [server EXCEPT ![a] = s]
      BY <2>5 DEF LegacyNote, Keep
    <3> HIDE DEF s
    <3>3. QED
      BY <2>2, <2>3, <3>1, <3>2, KeptFate
  <2>6. ASSUME NEW k \in Key, NEW right \in BOOLEAN, Challenge(a, k, right)
        PROVE  Fate
    <3> DEFINE s == Heard(a)
               t == IF right /\ s.game # NoGame THEN [s EXCEPT !.registered = TRUE] ELSE s
    <3>1. t.game = s.game /\ t.port = s.port /\ (s.registered => t.registered)
      BY <2>3 DEF ServerRec
    <3>2. server' = [server EXCEPT ![a] = t]
      BY <2>6 DEF Challenge
    <3> HIDE DEF t
    <3>3. QED
      BY <2>2, <2>3, <3>1, <3>2, KeptFate
  <2>7. CASE LegacyHeartbeat(a) \/ \E k \in Key : Heartbeat(a, k)
    <3>1. mail = a /\ at' = "keys"
      BY <2>7 DEF LegacyHeartbeat, Heartbeat, Handling
    <3>2. \A b \in Addr : b # a => server'[b] = server[b]
      BY <2>2, <2>7 DEF LegacyHeartbeat, Heartbeat, Keep
    <3>3. QED
      BY <3>1, <3>2 DEF Fate
  <2>8. ASSUME NEW g \in Game \union {NoGame}, NEW p \in Port, NEW leaving \in BOOLEAN,
               HeartbeatKeys(a, g, p, leaving) \/ LegacyHeartbeatKeys(a, g, p, leaving)
        PROVE  Fate
    <3>1. mail = a /\ at = "keys"
      BY <2>8 DEF HeartbeatKeys, LegacyHeartbeatKeys, Runs
    <3>2. \A b \in Addr : b # a => server'[b] = server[b]
      BY <2>2, <2>8 DEF HeartbeatKeys, LegacyHeartbeatKeys, Keep, deleteClient
    <3>3. QED
      BY <3>1, <3>2 DEF Fate
  <2>9. QED
    BY <1>4, <2>1, <2>4, <2>5, <2>6, <2>7, <2>8 DEF handleIncoming
<1>5. QED
  BY <1>1, <1>2, <1>3, <1>4 DEF Loop

\* c's entry of a at port p is there.
There(c, a, p) ==
    server[a].registered /\ server[a].game = client[c].game /\ server[a].port = p

\* How a ghost comes about.
Caused(c, a, p) ==
    \/ mail = a /\ "keys" \in {at, at'}
    \/ serving = c
    \/ <<a, p>> \notin told[c] /\ ~server[a].live

\* A step that does not make c a subscriber, leaves what it holds and the
\* entry alone, and takes no deletion from what is coming to it.
LEMMA NoGhost ==
    ASSUME NEW c \in Client, NEW a \in Addr, NEW p, ~Ghost(c, a, p), Ghost(c, a, p)',
           Subscribed(c)' => Subscribed(c),
           UNCHANGED <<server, news>>, client'[c].game = client[c].game,
           told'[c] = told[c],
           Subscribed(c)' => \A i \in DOMAIN news : StillFor(c, i) => StillFor(c, i)'
    PROVE  FALSE
<1>1. Subscribed(c) /\ Subscribed(c)' /\ <<a, p>> \in told[c] /\ ~There(c, a, p)
  BY DEF Ghost, There
<1>2. Coming("delete", a, p, c)
  BY <1>1 DEF Ghost, There
<1>3. Coming("delete", a, p, c)'
  BY <1>1, <1>2 DEF Coming
<1>4. QED
  BY <1>3 DEF Ghost

\* What select()'s thread does for d is nothing to the others.
LEMMA OthersNoGhost ==
    ASSUME NEW c \in Client, NEW a \in Addr, NEW p, ~Ghost(c, a, p), Ghost(c, a, p)',
           UNCHANGED <<server, news, audience>>, serving = c => serving' = c,
           client'[c] = client[c], told'[c] = told[c], garbled'[c] = garbled[c]
    PROVE  FALSE
<1>1. Subscribed(c)' => Subscribed(c)
  BY DEF Subscribed
<1>2. \A i \in DOMAIN news : StillFor(c, i) => StillFor(c, i)'
  BY DEF StillFor
<1>3. QED
  BY <1>1, <1>2, NoGhost

LEMMA AcceptNoGhost ==
    ASSUME BrowsingTypeOK, NEW d \in Client, Accept(d),
           NEW c \in Client, NEW a \in Addr, NEW p, ~Ghost(c, a, p)
    PROVE  ~Ghost(c, a, p)'
<1>1. UNCHANGED <<server, news, audience, serving>> /\ ~client[d].live
  BY DEF Accept, vars
<1>2. CASE c # d \/ ~dbUp
  <2>1. client'[c] = client[c] /\ told'[c] = told[c] /\ garbled'[c] = garbled[c]
    BY <1>2 DEF Accept, BrowsingTypeOK
  <2>2. QED
    BY <1>1, <2>1, OthersNoGhost
<1>3. CASE c = d /\ dbUp
  <2>1. client'[c] = NewClient
    BY <1>3 DEF Accept, BrowsingTypeOK
  <2>2. "push" \notin client'[c].options
    BY <2>1 DEF NewClient
  <2>3. QED
    BY <2>2 DEF Ghost, Subscribed
<1>4. QED
  BY <1>2, <1>3

LEMMA GoneNoGhost ==
    ASSUME BrowsingTypeOK, NEW d \in Client, Gone(d),
           UNCHANGED <<server, news, audience, told, garbled>>, serving \in {serving', d},
           NEW c \in Client, NEW a \in Addr, NEW p, ~Ghost(c, a, p)
    PROVE  ~Ghost(c, a, p)'
<1>1. ~client'[d].live /\ \A e \in Client : e # d => client'[e] = client[e]
  BY GoneTypes
<1>2. CASE c = d
  BY <1>1, <1>2 DEF Ghost, Subscribed
<1>3. CASE c # d
  BY <1>1, <1>3, OthersNoGhost
<1>4. QED
  BY <1>2, <1>3

LEMMA RequestNoGhost ==
    ASSUME BrowsingTypeOK, NEW d \in Client, NEW g \in Game \union {NoGame},
           NEW o \in Asked, NEW f \in Filters, handleListRequest(d, g, o, f),
           NEW c \in Client, NEW a \in Addr, NEW p, ~Ghost(c, a, p)
    PROVE  ~Ghost(c, a, p)'
<1>1. UNCHANGED <<server, news, audience, told, garbled>> /\ serving = NoOne
  BY DEF handleListRequest, Selects, vars
<1>2. CASE g \in Disabled
  BY <1>1, <1>2, GoneNoGhost DEF handleListRequest
<1>3. CASE g \notin Disabled
  <2>1. serving' = d /\ \A e \in Client : e # d => client'[e] = client[e]
    BY <1>3 DEF handleListRequest, BrowsingTypeOK
  <2>2. CASE c = d
    BY <2>1, <2>2 DEF Ghost, Subscribed
  <2>3. CASE c # d
    BY <1>1, <2>1, <2>3, OthersNoGhost
  <2>4. QED
    BY <2>2, <2>3
<1>4. QED
  BY <1>2, <1>3

LEMMA AnsweredCaused ==
    ASSUME BrowsingTypeOK, Answered,
           NEW c \in Client, NEW a \in Addr, NEW p, ~Ghost(c, a, p), Ghost(c, a, p)'
    PROVE  Caused(c, a, p)
<1>1. CASE serving = c
  BY <1>1 DEF Caused
<1>2. CASE serving # c
  <2>1. serving \in Client /\ UNCHANGED <<server, news, audience, garbled>>
    BY DEF Answered, BrowsingTypeOK, vars
  <2>2. client'[c] = client[c] /\ told'[c] = told[c]
    BY <1>2, <2>1 DEF Answered, Gone, BrowsingTypeOK
  <2>3. QED
    BY <1>2, <2>1, <2>2, OthersNoGhost
<1>3. QED
  BY <1>1, <1>2

LEMMA CalledNoGhost ==
    ASSUME Called, NEW c \in Client, NEW a \in Addr, NEW p, ~Ghost(c, a, p)
    PROVE  ~Ghost(c, a, p)'
<1>1. UNCHANGED <<server, news, client, serving, told, garbled>>
  BY DEF Called, vars
<1>2. Subscribed(c)' => Subscribed(c) /\ c \in audience'
  BY <1>1 DEF Subscribed, Called
<1>3. Subscribed(c)' => \A i \in DOMAIN news : StillFor(c, i) => StillFor(c, i)'
  BY <1>2 DEF StillFor
<1>4. QED
  BY <1>1, <1>2, <1>3, NoGhost

\* A push to c: a deletion takes the entry from it, and what is pushed is
\* there, or was never told and is gone.
LEMMA PushToCaused ==
    ASSUME BInv, NEW d \in Client, PushTo(d),
           NEW c \in Client, NEW a \in Addr, NEW p, ~Ghost(c, a, p), Ghost(c, a, p)'
    PROVE  Caused(c, a, p)
<1> DEFINE m == Head(news)
<1>1. BrowsingTypeOK /\ TypeOK /\ news # <<>>
  BY DEF BInv, IInv, PushTo
<1>2. m \in Push /\ m = news[1] /\ 1 \in DOMAIN news /\ DOMAIN news \subseteq Nat \ {0}
  BY <1>1, HeadType
<1>3. UNCHANGED <<server, news, serving>> /\ audience' = audience \ {d}
  BY DEF PushTo, vars
<1>4. CASE c # d
  <2>1. client'[c] = client[c] /\ told'[c] = told[c] /\ garbled'[c] = garbled[c]
    BY <1>1, <1>4 DEF PushTo, BrowsingTypeOK
  <2>2. Subscribed(c)' => Subscribed(c)
    BY <1>3, <2>1 DEF Subscribed
  <2>3. \A i \in DOMAIN news : StillFor(c, i) => StillFor(c, i)'
    BY <1>3, <1>4 DEF StillFor, PushTo
  <2>4. QED
    BY <1>3, <2>1, <2>2, <2>3, NoGhost
<1>5. CASE c = d
  <2>1. /\ client'[c].live = client[c].live /\ client'[c].game = client[c].game
        /\ client'[c].options = client[c].options
    <3>1. CASE Wants(c, m)
      BY <1>1, <1>5, <3>1, HeaderTypes DEF PushTo
    <3>2. CASE ~Wants(c, m)
      BY <1>5, <3>2 DEF PushTo
    <3>3. QED
      BY <3>1, <3>2
  <2>2. Subscribed(c) /\ ~There(c, a, p)
    <3>1. garbled[c] => garbled'[c]
      BY <1>1, <1>5 DEF PushTo, BrowsingTypeOK
    <3>2. QED
      BY <1>3, <2>1, <3>1 DEF Ghost, Subscribed, There
  <2>3. /\ Wants(c, m) => told'[c] = After(c, m)
        /\ ~Wants(c, m) => told'[c] = told[c]
    BY <1>1, <1>5 DEF PushTo, BrowsingTypeOK
  <2>4. CASE <<a, p>> \notin told[c]
    <3>1. Wants(c, m) /\ m.kind = "server" /\ m.addr = a /\ m.port = p
      BY <2>3, <2>4 DEF Ghost, After
    <3>2. m.game = client[c].game
      BY <3>1 DEF Wants
    <3>3. ~server[a].live
      BY <1>2, <2>2, <3>1, <3>2 DEF BInv, NewsTrue, There
    <3>4. QED
      BY <2>4, <3>3 DEF Caused
  <2>5. CASE <<a, p>> \in told[c]
    <3>1. Coming("delete", a, p, c)
      BY <2>2, <2>5 DEF Ghost, There
    <3>2. PICK i \in DOMAIN news : /\ news[i].kind = "delete"
                                   /\ news[i].addr = a /\ news[i].port = p
                                   /\ news[i].game = client[c].game
      BY <3>1 DEF Coming
    <3>3. CASE i > 1
      <4>1. Coming("delete", a, p, c)'
        BY <1>3, <2>1, <3>2, <3>3 DEF Coming, StillFor
      <4>2. QED
        BY <4>1 DEF Ghost
    <3>4. CASE i = 1
      <4>1. m.kind = "delete" /\ m.addr = a /\ m.port = p /\ m.game = client[c].game
        BY <1>2, <3>2, <3>4
      <4>2. Wants(c, m)
        BY <2>2, <4>1 DEF Wants, Subscribed
      <4>3. <<a, p>> \notin told'[c]
        BY <2>3, <4>1, <4>2 DEF After
      <4>4. QED
        BY <4>3 DEF Ghost
    <3>5. QED
      BY <1>2, <3>3, <3>4
  <2>6. QED
    BY <2>4, <2>5
<1>6. QED
  BY <1>4, <1>5

LEMMA PushToFreedNoGhost ==
    ASSUME BrowsingTypeOK, NEW d \in Client, PushToFreed(d),
           NEW c \in Client, NEW a \in Addr, NEW p, ~Ghost(c, a, p)
    PROVE  ~Ghost(c, a, p)'
<1>1. UNCHANGED <<server, news, client, serving, told>>
      /\ audience' = audience \ {d} /\ ~client[d].live
  BY DEF PushToFreed, vars
<1>2. garbled[c] => garbled'[c]
  BY DEF PushToFreed, BrowsingTypeOK
<1>3. Subscribed(c)' => Subscribed(c) /\ c # d
  BY <1>1, <1>2 DEF Subscribed
<1>4. Subscribed(c)' => \A i \in DOMAIN news : StillFor(c, i) => StillFor(c, i)'
  BY <1>1, <1>3 DEF StillFor, PushToFreed
<1>5. QED
  BY <1>1, <1>3, <1>4, NoGhost

LEMMA ReturnedNoGhost ==
    ASSUME BInv, Returned,
           NEW c \in Client, NEW a \in Addr, NEW p, ~Ghost(c, a, p)
    PROVE  ~Ghost(c, a, p)'
<1> SUFFICES ASSUME Ghost(c, a, p)' PROVE FALSE
  OBVIOUS
<1>1. audience = {} /\ audience # NotCalled /\ audience' = NotCalled
  BY BrowsingAssumption DEF Returned
<1>2. UNCHANGED <<server, client, serving, told, garbled>>
  BY DEF Returned, Delivered
<1>3. /\ news' = Tail(news) /\ news \in Seq(Push) /\ news # <<>>
  BY DEF Returned, Delivered, BInv, IInv, TypeOK
<1>4. \A i \in DOMAIN news : i > 1 => i - 1 \in DOMAIN news' /\ news'[i - 1] = news[i]
  BY <1>3, HeadTailProperties, LenProperties, EmptySeq
<1>5. Coming("delete", a, p, c)
  BY <1>2 DEF Ghost, Subscribed
<1>6. PICK i \in DOMAIN news : /\ i > 1 /\ news[i].kind = "delete"
                               /\ news[i].addr = a /\ news[i].port = p
                               /\ news[i].game = client[c].game
  BY <1>1, <1>5 DEF Coming, StillFor
<1>7. i - 1 \in DOMAIN news' /\ news'[i - 1] = news[i]
  BY <1>4, <1>6
<1>8. Coming("delete", a, p, c)'
  BY <1>1, <1>2, <1>6, <1>7 DEF Coming, StillFor
<1>9. QED
  BY <1>8 DEF Ghost

\* qr's thread deletes no entry that is listed without telling.
LEMMA ThreadCaused ==
    ASSUME BInv, Named, QrThread,
           NEW c \in Client, NEW a \in Addr, NEW p, ~Ghost(c, a, p), Ghost(c, a, p)'
    PROVE  Caused(c, a, p)
<1>1. Effect /\ Fate
  BY ThreadEffect, ThreadFate DEF BInv, QrThread
<1>2. UNCHANGED <<client, serving, audience, told, garbled>>
  BY DEF QrThread, browsingVars
<1>3. Subscribed(c) /\ <<a, p>> \in told[c]
  BY <1>2 DEF Ghost, Subscribed
<1>4. ~Coming("delete", a, p, c)'
  BY DEF Ghost
<1>5. CASE ~There(c, a, p)
  <2>1. Coming("delete", a, p, c)
    BY <1>3, <1>5 DEF Ghost, There
  <2>2. news' = news
    BY <1>1, <2>1 DEF Effect, Coming
  <2>3. QED
    BY <1>2, <1>4, <2>1, <2>2 DEF Coming, StillFor
<1>6. CASE There(c, a, p)
  <2>1. client[c].game # NoGame
    BY <1>3 DEF Named, Subscribed
  <2>2. ~(/\ server'[a].registered
          /\ server'[a].game = server[a].game /\ server'[a].port = server[a].port)
    BY <1>2, <1>6 DEF Ghost, There
  <2>3. CASE mail = a /\ "keys" \in {at, at'}
    BY <2>3 DEF Caused
  <2>4. CASE /\ news = <<>>
             /\ server[a].game # NoGame =>
                  \E i \in DOMAIN news' : /\ news'[i].kind = "delete" /\ news'[i].addr = a
                                          /\ news'[i].port = server[a].port
                                          /\ news'[i].game = server[a].game
    <3>1. audience' = NotCalled
      BY <1>2, <2>4 DEF BInv, BrowsingTypeOK
    <3>2. PICK i \in DOMAIN news' : /\ news'[i].kind = "delete" /\ news'[i].addr = a
                                    /\ news'[i].port = server[a].port
                                    /\ news'[i].game = server[a].game
      BY <1>6, <2>1, <2>4 DEF There
    <3>3. news'[i].port = p /\ news'[i].game = client'[c].game
      BY <1>2, <1>6, <3>2 DEF There
    <3>4. QED
      BY <1>4, <3>1, <3>2, <3>3 DEF Coming, StillFor
  <2>5. QED
    BY <1>1, <1>6, <2>2, <2>3, <2>4 DEF Fate, There
<1>7. QED
  BY <1>5, <1>6

LEMMA GhostStep ==
    ASSUME BInv, Named, [BrowsingNext]_allVars,
           NEW c \in Client, NEW a \in Addr, NEW p \in Port, ~Ghost(c, a, p), Ghost(c, a, p)'
    PROVE  Caused(c, a, p)
<1>1. BrowsingTypeOK
  BY DEF BInv
<1>2. CASE QrThread
  BY <1>2, ThreadCaused
<1>3. CASE Called \/ Returned
  BY <1>3, CalledNoGhost, ReturnedNoGhost
<1>4. ASSUME NEW d \in Client, PushTo(d) \/ PushToFreed(d)
      PROVE  Caused(c, a, p)
  BY <1>1, <1>4, PushToCaused, PushToFreedNoGhost
<1>5. ASSUME NEW d \in Client, Accept(d)
      PROVE  FALSE
  BY <1>1, <1>5, AcceptNoGhost
<1>6. ASSUME NEW d \in Client, Disconnect(d)
      PROVE  FALSE
  <2>1. Gone(d) /\ UNCHANGED <<server, news, audience, told, garbled, serving>>
    BY <1>6 DEF Disconnect, vars
  <2>2. QED
    BY <1>1, <2>1, GoneNoGhost
<1>7. ASSUME NEW d \in Client, NEW g \in Game \union {NoGame}, NEW o \in Asked,
             NEW f \in Filters, handleListRequest(d, g, o, f)
      PROVE  FALSE
  BY <1>1, <1>7, RequestNoGhost
<1>8. CASE Answered
  BY <1>1, <1>8, AnsweredCaused
<1>9. CASE (\E b \in Addr : Look(b)) \/ Database \/ UNCHANGED allVars
  <2>1. UNCHANGED <<server, news, client, serving, audience, told, garbled>>
    BY <1>9 DEF Look, Database, allVars, browsingVars, vars
  <2>2. QED
    BY <2>1, OthersNoGhost
<1>10. QED
  BY <1>2, <1>3, <1>4, <1>5, <1>6, <1>7, <1>8, <1>9
     DEF BrowsingNext, Calls, Requests, Answers

-----------------------------------------------------------------------------
\* The invariant of the proofs: that of qr's thread, which keeps it while
\* serverbrowsing runs beside it, true news, and that nobody is uninformed.
THEOREM BrowsingInvariance == BrowsingSpec => []BInv
BY BInitially, BStep, PTL DEF BrowsingSpec

\* Types of the variables; nobody is served or told without being there.
THEOREM BrowsingTypeCorrect == BrowsingSpec => []BrowsingTypeOK
<1>1. BInv => BrowsingTypeOK
  BY DEF BInv
<1>2. QED
  BY <1>1, BrowsingInvariance, PTL

\* Who asked for all servers of a game and their updates knows of each that
\* is registered, or is about to be told.
THEOREM NobodyMisses == BrowsingSpec => []NoneMissed
<1>1. BInv => NoneMissed
  BY DEF BInv, Informed, NoneMissed, Subscribed, Keeps, Concerns, Pushed, Aware
<1>2. QED
  BY <1>1, BrowsingInvariance, PTL

\* Beside serverbrowsing, the registry keeps what QrRegistry promises.
THEOREM RegistryBeside == BrowsingSpec => ImplementsRegistry
<1>1. BrowsingInit => Registry!Init
  BY InitSound DEF BrowsingInit
<1>2. BInv /\ [BrowsingNext]_allVars => [Registry!Next]_Entries
  BY QrSteps, NextSound DEF BInv
<1>3. QED
  BY <1>1, <1>2, BrowsingInvariance, PTL DEF BrowsingSpec, ImplementsRegistry, Registry!Spec

\* Who is kept up to date has named a game, for the request that asks for
\* updates without one ends the process (handleListRequest).
THEOREM Naming == BrowsingSpec => []Named
<1>1. BrowsingInit => Named
  BY ClientTypes DEF BrowsingInit, Named, NewClient
<1>2. BInv => BrowsingTypeOK
  BY DEF BInv
<1>3. QED
  BY <1>1, <1>2, NamedStep, BrowsingInvariance, PTL DEF BrowsingSpec

\* A subscriber comes to hold an entry that is not there in three ways only:
\* a heartbeat puts other keys in its place; the list was copied before the
\* deletion; or the entry of a datagram too short to be one was pushed again.
\* Every other end of an entry is told, by whichever path (deleteClient), to
\* all who were subscribed by then (pushServer, deleteServer).
THEOREM GhostsAreCaused == BrowsingSpec => GhostsHaveACause
<1> DEFINE A == \A c \in Client, a \in Addr, p \in Port :
                  ~Ghost(c, a, p) /\ Ghost(c, a, p)' =>
                     \/ mail = a /\ "keys" \in {at, at'}
                     \/ serving = c
                     \/ <<a, p>> \notin told[c] /\ ~server[a].live
<1>1. BInv /\ Named /\ [BrowsingNext]_allVars => [A]_allVars
  BY GhostStep DEF Caused
<1>2. QED
  BY <1>1, BrowsingInvariance, Naming, PTL DEF BrowsingSpec, GhostsHaveACause
=============================================================================
