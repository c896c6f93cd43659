----------------------------- MODULE Qr_proofs -----------------------------
(***************************************************************************)
(* The types of Qr, and that it implements QrRegistry, for every set of    *)
(* addresses, games, keys and ports and every PingTime.                    *)
(***************************************************************************)
EXTENDS Qr, SequenceTheorems, TLAPS

USE QrAssumption

\* What an entry may be: a dead one is as new; a game comes with a challenge,
\* or with the older protocol, and there is no challenge without one; only a
\* challenged or old entry is registered.
Sound(s) ==
    /\ ~s.live => s = NoServer
    /\ s.game # NoGame => s.challenged \/ s.legacy
    /\ s.challenged => s.game # NoGame
    /\ s.registered => s.challenged \/ s.legacy

\* In the middle of a heartbeat its entry is live.
Inside == at = "keys" => mail \in Addr /\ server[mail].live

IInv == TypeOK /\ Inside /\ \A a \in Addr : Sound(server[a])

-----------------------------------------------------------------------------
(* Types.                                                                  *)

News(q) == q \in Seq(Push) /\ Len(q) <= 2

LEMMA NoServerType == NoServer \in ServerRec /\ Sound(NoServer)
BY DEF NoServer, ServerRec, Sound

LEMMA TellType ==
    ASSUME NEW kind \in {"server", "delete"}, NEW a \in Addr, NEW s \in ServerRec
    PROVE  Tell(kind, a, s) \in Seq(Push) /\ Len(Tell(kind, a, s)) <= 1
<1>1. CASE s.game = NoGame
  BY <1>1 DEF Tell
<1>2. CASE s.game # NoGame
  <2>1. [kind |-> kind, addr |-> a, port |-> s.port, game |-> s.game] \in Push
    BY <1>2 DEF ServerRec, Push
  <2>2. QED
    BY <1>2, <2>1 DEF Tell
<1>3. QED
  BY <1>1, <1>2

LEMMA PushTypes ==
    ASSUME NEW a \in Addr, NEW s \in ServerRec
    PROVE  News(pushServer(a, s)) /\ News(pushDelete(a, s)) /\ News(<<>>)
BY TellType DEF pushServer, pushDelete, News

LEMMA HeardSound ==
    ASSUME IInv, NEW a \in Addr
    PROVE  /\ Heard(a) \in ServerRec /\ Heard(a).live /\ Sound(Heard(a))
           /\ Entry(Heard(a)) = Entry(server[a])
<1>1. server[a] \in ServerRec /\ Sound(server[a])
  BY DEF IInv, TypeOK
<1>2. Known(a) \in ServerRec /\ Known(a).live /\ Sound(Known(a)) /\ Entry(Known(a)) = Entry(server[a])
  BY <1>1 DEF Known, NoServer, ServerRec, Sound, Entry
<1>3. QED
  BY <1>2 DEF Heard, ServerRec, Sound, Entry

\* A step that leaves one entry as s, sound, and tells q.
Became(a, s, q) == server' = [server EXCEPT ![a] = s] /\ news' = q

LEMMA BecameSound ==
    ASSUME IInv, NEW a \in Addr, NEW s \in ServerRec, NEW q, Sound(s), News(q),
           Became(a, s, q),
           \/ at' \in {"recv", "sweep", "handle"} /\ mail' \in {mail, Nobody}
           \/ at' = "keys" /\ mail' = a /\ s.live
    PROVE  IInv' /\ Entries' = [Entries EXCEPT ![a] = Entry(s)]
<1>1. server \in [Addr -> ServerRec] /\ mail \in Addr \union {Nobody}
  BY DEF IInv, TypeOK
<1>2. server' \in [Addr -> ServerRec] /\ server'[a] = s
      /\ \A b \in Addr : b # a => server'[b] = server[b]
  BY <1>1 DEF Became
<1>3. TypeOK'
  BY <1>1, <1>2 DEF TypeOK, News, Became
<1>4. Inside'
  BY <1>2 DEF Inside
<1>5. \A b \in Addr : Sound(server'[b])
  BY <1>2 DEF IInv
<1>6. Entries' = [Entries EXCEPT ![a] = Entry(s)]
  BY <1>2 DEF Entries
<1>7. QED
  BY <1>3, <1>4, <1>5, <1>6 DEF IInv

\* A step that changes neither an entry nor what is in hand.
LEMMA OthersSound ==
    ASSUME IInv, UNCHANGED server, News(news'),
           at' # "keys", at' \in {"recv", "sweep", "handle"} \/ at' = at,
           mail' \in Addr \union {Nobody}
    PROVE  IInv' /\ Entries' = Entries
BY DEF IInv, TypeOK, Inside, News, Entries

-----------------------------------------------------------------------------
(* The steps of an entry, as QrRegistry knows them.                        *)

LEMMA EntriesRead == \A a \in Addr : Entries[a] = Entry(server[a])
BY DEF Entries

\* An entry that a reader cannot tell from the one before.
LEMMA Unnoticed ==
    ASSUME NEW a \in Addr, NEW s, Entry(s) = Entry(server[a]),
           Entries' = [Entries EXCEPT ![a] = Entry(s)]
    PROVE  Entries' = Entries
BY DEF Entries

\* A deleted one.
LEMMA Forgotten ==
    ASSUME NEW a \in Addr, Entries' = [Entries EXCEPT ![a] = Entry(NoServer)]
    PROVE  Registry!Next
<1>1. Entry(NoServer) = Registry!Unknown
  BY DEF Entry, NoServer, Registry!Unknown
<1>2. QED
  BY <1>1 DEF Registry!Next, Registry!Forget

LEMMA DeleteSound ==
    ASSUME IInv, NEW a \in Addr, NEW s \in ServerRec, deleteClient(a, s),
           at' \in {"recv", "sweep", "handle"}, mail' \in {mail, Nobody}
    PROVE  IInv' /\ Registry!Next
<1>1. Became(a, NoServer, pushDelete(a, s))
  BY DEF deleteClient, Became
<1>2. IInv' /\ Entries' = [Entries EXCEPT ![a] = Entry(NoServer)]
  <2>1. News(pushDelete(a, s))
    BY PushTypes
  <2>2. QED
    BY <1>1, <2>1, NoServerType, BecameSound
<1>3. QED
  BY <1>2, Forgotten

-----------------------------------------------------------------------------
(* The datagrams.                                                          *)

LEMMA ShortSound ==
    ASSUME IInv, NEW a \in Addr, NEW c \in BOOLEAN, Short(a, c)
    PROVE  IInv' /\ Registry!Next
<1> DEFINE s == Heard(a)
           z == [s EXCEPT !.port = SourcePort]
           tail == IF c /\ s.registered /\ ~s.legacy /\ Passes(s, ZeroKey)
                   THEN pushServer(a, z) ELSE <<>>
<1>1. s \in ServerRec
  BY HeardSound
<1>2. z \in ServerRec
  BY <1>1 DEF ServerRec
<1>3. News(pushDelete(a, s) \o tail)
  <2>1. pushDelete(a, s) \in Seq(Push) /\ Len(pushDelete(a, s)) <= 1
    BY <1>1, TellType DEF pushDelete
  <2>2. tail \in Seq(Push) /\ Len(tail) <= 1
    <3>1. pushServer(a, z) \in Seq(Push) /\ Len(pushServer(a, z)) <= 1
      BY <1>2, TellType DEF pushServer
    <3>2. <<>> \in Seq(Push) /\ Len(<<>>) <= 1
      OBVIOUS
    <3>3. QED
      BY <3>1, <3>2
  <2>3. QED
    BY <2>1, <2>2, ConcatProperties DEF News
<1>4. Became(a, NoServer, pushDelete(a, s) \o tail)
  BY DEF Short, Became
<1>5. at' = "recv" /\ mail' = Nobody
  BY DEF Short, Handled
<1>6. IInv' /\ Entries' = [Entries EXCEPT ![a] = Entry(NoServer)]
  BY <1>3, <1>4, <1>5, NoServerType, BecameSound
<1>7. QED
  BY <1>6, Forgotten

\* What leaves the entry as it was for a reader: s instead of Heard(a).
LEMMA QuietSound ==
    ASSUME IInv, NEW a \in Addr, NEW s \in ServerRec, Keep(a, s), Sound(s),
           Entry(s) = Entry(server[a]),
           Handled \/ (at' = "keys" /\ mail' = a /\ s.live)
    PROVE  IInv' /\ Entries' = Entries
<1>1. Became(a, s, <<>>) /\ News(<<>>)
  BY DEF Keep, Became, News
<1>2. IInv' /\ Entries' = [Entries EXCEPT ![a] = Entry(s)]
  BY <1>1, BecameSound DEF Handled
<1>3. QED
  BY <1>2, Unnoticed

LEMMA AnswerSound ==
    ASSUME IInv, NEW a \in Addr, Answer(a)
    PROVE  IInv' /\ Entries' = Entries
BY HeardSound, QuietSound DEF Answer

LEMMA HeartbeatSound ==
    ASSUME IInv, NEW a \in Addr, NEW k \in Key, Heartbeat(a, k)
    PROVE  IInv' /\ Entries' = Entries
<1> DEFINE s == [Heard(a) EXCEPT !.key = k, !.port = SourcePort]
<1>1. s \in ServerRec /\ Sound(s) /\ s.live /\ Entry(s) = Entry(server[a])
  BY HeardSound DEF ServerRec, Sound, Entry
<1>2. Keep(a, s) /\ at' = "keys" /\ mail' = a
  BY DEF Heartbeat, Handling
<1>3. QED
  BY <1>1, <1>2, QuietSound

\* An entry's sender turns out to be old.
LEMMA AgedSound ==
    ASSUME IInv, NEW a \in Addr, NEW s \in ServerRec, Keep(a, s), s.live,
           \E p \in Port : s = [Heard(a) EXCEPT !.legacy = TRUE, !.port = p],
           Handled \/ (at' = "keys" /\ mail' = a)
    PROVE  IInv' /\ Registry!Next
<1>1. Sound(s) /\ Entry(s) = [Entry(server[a]) EXCEPT !.speaks = "old"]
  <2>1. PICK p \in Port : s = [Heard(a) EXCEPT !.legacy = TRUE, !.port = p]
    OBVIOUS
  <2>2. Heard(a) \in ServerRec /\ Heard(a).live /\ Sound(Heard(a))
        /\ Entry(Heard(a)) = Entry(server[a])
    BY HeardSound
  <2>3. Sound(s) /\ Entry(s) = [Entry(Heard(a)) EXCEPT !.speaks = "old"]
    <3> DEFINE h == Heard(a)
    <3>1. h \in ServerRec /\ s = [h EXCEPT !.legacy = TRUE, !.port = p]
      BY <2>1, <2>2
    <3>2. /\ s.registered = h.registered /\ s.challenged = h.challenged
          /\ s.game = h.game /\ s.legacy
      BY <3>1 DEF ServerRec
    <3>3. Entry(s) = [standing |-> Entry(h).standing, game |-> Entry(h).game, speaks |-> "old"]
      BY <3>2 DEF Entry
    <3>4. Sound(s)
      BY <3>2, <2>2 DEF Sound
    <3>5. Entry(s) = [Entry(h) EXCEPT !.speaks = "old"]
      BY <3>3 DEF Entry
    <3>6. QED
      BY <3>4, <3>5
  <2>4. QED
    BY <2>2, <2>3
<1>2. Became(a, s, <<>>) /\ News(<<>>)
  BY DEF Keep, Became, News
<1>3. IInv' /\ Entries' = [Entries EXCEPT ![a] = Entry(s)]
  BY <1>1, <1>2, BecameSound DEF Handled
<1>4. Registry!Age(a)
  BY <1>1, <1>3, EntriesRead DEF Registry!Age
<1>5. QED
  BY <1>3, <1>4 DEF Registry!Next

LEMMA LegacySound ==
    ASSUME IInv, NEW a \in Addr, LegacyNote(a) \/ LegacyHeartbeat(a)
    PROVE  IInv' /\ Registry!Next
<1>1. Heard(a) \in ServerRec /\ Heard(a).live
  BY HeardSound
<1>2. CASE LegacyNote(a)
  <2> DEFINE s == [Heard(a) EXCEPT !.legacy = TRUE]
  <2>1. s \in ServerRec /\ s.live /\ Heard(a).port \in Port
        /\ s = [Heard(a) EXCEPT !.legacy = TRUE, !.port = Heard(a).port]
    BY <1>1 DEF ServerRec
  <2>2. QED
    BY <1>2, <2>1, AgedSound DEF LegacyNote
<1>3. CASE LegacyHeartbeat(a)
  <2> DEFINE s == [Heard(a) EXCEPT !.legacy = TRUE, !.port = SourcePort]
  <2>1. s \in ServerRec /\ s.live
    BY <1>1 DEF ServerRec
  <2>2. Keep(a, s) /\ at' = "keys" /\ mail' = a
    BY <1>3 DEF LegacyHeartbeat, Handling
  <2>3. QED
    BY <2>1, <2>2, AgedSound
<1>4. QED
  BY <1>2, <1>3

\* An answer to the challenge lists a challenged entry, or changes nothing.
LEMMA ChallengeSound ==
    ASSUME IInv, NEW a \in Addr, NEW k \in Key, NEW right \in BOOLEAN, Challenge(a, k, right)
    PROVE  IInv' /\ [Registry!Next]_Entries
<1> DEFINE s == Heard(a)
           t == IF right /\ s.game # NoGame THEN [s EXCEPT !.registered = TRUE] ELSE s
           q == IF t.registered THEN pushServer(a, t) ELSE <<>>
<1>1. s \in ServerRec /\ s.live /\ Sound(s) /\ Entry(s) = Entry(server[a]) /\ ~s.legacy
  BY HeardSound DEF Challenge
<1>2. t \in ServerRec /\ Sound(t)
  BY <1>1 DEF ServerRec, Sound
<1>3. Became(a, t, q) /\ News(q)
  <2>1. News(pushServer(a, t)) /\ News(<<>>)
    BY <1>2, PushTypes
  <2>2. QED
    BY <2>1 DEF Challenge, Became
<1>4. IInv' /\ Entries' = [Entries EXCEPT ![a] = Entry(t)]
  <2>1. at' = "recv" /\ mail' = Nobody
    BY DEF Challenge, Handled
  <2> HIDE DEF t, q
  <2>2. QED
    BY <1>2, <1>3, <2>1, BecameSound
<1>5. CASE Entry(t) = Entry(s)
  BY <1>1, <1>4, <1>5, Unnoticed
<1>6. CASE Entry(t) # Entry(s)
  <2>1. t = [s EXCEPT !.registered = TRUE] /\ s.game # NoGame /\ s.challenged /\ ~s.registered
    BY <1>1, <1>6 DEF Sound, Entry, ServerRec
  <2>2. Entry(s).standing = "challenged" /\ Entry(t) = [Entry(s) EXCEPT !.standing = "listed"]
    BY <1>1, <2>1 DEF Entry, ServerRec
  <2>3. Registry!List(a)
    BY <1>1, <1>4, <2>2, EntriesRead DEF Registry!List
  <2>4. QED
    BY <1>4, <2>3 DEF Registry!Next
<1>7. QED
  BY <1>5, <1>6

\* The keys of a heartbeat: a first one that may stay is challenged.
LEMMA HeartbeatKeysSound ==
    ASSUME IInv, NEW a \in Addr, NEW g \in Game \union {NoGame}, NEW p \in Port,
           NEW leaving \in BOOLEAN, HeartbeatKeys(a, g, p, leaving)
    PROVE  IInv' /\ [Registry!Next]_Entries
<1> DEFINE s == server[a]
           named == [s EXCEPT !.port = p, !.game = IF @ = NoGame THEN g ELSE @]
           t == [named EXCEPT !.challenged = TRUE]
<1>1. s \in ServerRec /\ Sound(s) /\ s.live /\ ~s.legacy
  <2>1. s \in ServerRec /\ Sound(s) /\ s.live
    BY DEF IInv, TypeOK, Inside, HeartbeatKeys, Runs
  <2>2. QED
    BY <2>1 DEF HeartbeatKeys, ServerRec
<1>2. named \in ServerRec
  BY <1>1 DEF ServerRec
<1>3. at' = "recv" /\ mail' = Nobody
  BY DEF HeartbeatKeys, Handled
<1>4. CASE deleteClient(a, named)
  BY <1>2, <1>3, <1>4, DeleteSound
<1>5. CASE named.game # NoGame /\ named.game \notin Disabled /\ Keep(a, t)
  <2>1. t \in ServerRec /\ Sound(t)
    BY <1>1, <1>2, <1>5 DEF ServerRec, Sound
  <2>2. IInv' /\ Entries' = [Entries EXCEPT ![a] = Entry(t)]
    <3>1. Became(a, t, <<>>) /\ News(<<>>)
      BY <1>5 DEF Keep, Became, News
    <3> HIDE DEF t
    <3>2. QED
      BY <1>3, <2>1, <3>1, BecameSound
  <2>3. CASE s.game # NoGame
    <3>1. s.challenged
      BY <1>1, <2>3 DEF Sound
    <3>2. Entry(t) = Entry(s)
      BY <1>1, <2>3, <3>1 DEF Entry, ServerRec
    <3>3. QED
      BY <2>2, <3>2, Unnoticed
  <2>4. CASE s.game = NoGame
    <3>1. ~s.challenged /\ ~s.registered
      BY <1>1, <2>4 DEF Sound, ServerRec
    <3>2. named.game = g /\ g \in Game \ Disabled
      BY <1>1, <1>2, <1>5, <2>4 DEF ServerRec
    <3>3. /\ Entry(s).standing = "unknown" /\ Entry(s).speaks = "new"
          /\ Entry(t) = [standing |-> "challenged", game |-> g, speaks |-> "new"]
      BY <1>1, <2>4, <3>1, <3>2 DEF Entry, ServerRec
    <3>4. Registry!Challenge(a)
      BY <2>2, <3>2, <3>3, EntriesRead DEF Registry!Challenge
    <3>5. QED
      BY <2>2, <3>4 DEF Registry!Next
  <2>5. QED
    BY <2>3, <2>4
<1>6. QED
  BY <1>4, <1>5 DEF HeartbeatKeys

LEMMA LegacyKeysSound ==
    ASSUME IInv, NEW a \in Addr, NEW g \in Game \union {NoGame}, NEW p \in Port,
           NEW leaving \in BOOLEAN, LegacyHeartbeatKeys(a, g, p, leaving)
    PROVE  IInv' /\ [Registry!Next]_Entries
<1> DEFINE s == server[a]
           named == [s EXCEPT !.port = p, !.game = IF @ = NoGame THEN g ELSE @]
           t == [named EXCEPT !.registered = TRUE]
<1>1. s \in ServerRec /\ Sound(s) /\ s.live /\ s.legacy
  <2>1. s \in ServerRec /\ Sound(s) /\ s.live
    BY DEF IInv, TypeOK, Inside, LegacyHeartbeatKeys, Runs
  <2>2. QED
    BY <2>1 DEF LegacyHeartbeatKeys, ServerRec
<1>2. named \in ServerRec
  BY <1>1 DEF ServerRec
<1>3. at' = "recv" /\ mail' = Nobody
  BY DEF LegacyHeartbeatKeys, Handled
<1>4. CASE deleteClient(a, named)
  BY <1>2, <1>3, <1>4, DeleteSound
<1>5. CASE Keep(a, t)
  <2>1. t \in ServerRec /\ Sound(t)
    BY <1>1, <1>2 DEF ServerRec, Sound
  <2>2. IInv' /\ Entries' = [Entries EXCEPT ![a] = Entry(t)]
    <3>1. Became(a, t, <<>>) /\ News(<<>>)
      BY <1>5 DEF Keep, Became, News
    <3> HIDE DEF t
    <3>2. QED
      BY <1>3, <2>1, <3>1, BecameSound
  <2>3. PICK h \in Game \union {NoGame} : h = named.game /\ s.game \in {NoGame, h}
    BY <1>1, <1>2 DEF ServerRec
  <2>4. Entry(s).speaks = "old" /\ Entry(s).game = s.game
        /\ Entry(t) = [standing |-> "listed", game |-> h, speaks |-> "old"]
    BY <1>1, <2>3 DEF Entry, ServerRec
  <2>5. Registry!ListOldStyle(a)
    BY <2>2, <2>3, <2>4, EntriesRead DEF Registry!ListOldStyle
  <2>6. QED
    BY <2>2, <2>5 DEF Registry!Next
<1>6. QED
  BY <1>4, <1>5 DEF LegacyHeartbeatKeys

-----------------------------------------------------------------------------
(* The thread and the clock.                                               *)

LEMMA ExpireSound ==
    ASSUME IInv, NEW a \in Addr, Expire(a)
    PROVE  IInv' /\ Registry!Next
<1>1. server[a] \in ServerRec
  BY DEF IInv, TypeOK
<1>2. deleteClient(a, server[a]) /\ at' = "sweep" /\ mail' = mail
  BY DEF Expire, Runs
<1>3. QED
  BY <1>1, <1>2, DeleteSound

LEMMA TickSound ==
    ASSUME IInv, Tick
    PROVE  IInv' /\ Entries' = Entries
<1>1. server \in [Addr -> ServerRec]
  BY DEF IInv, TypeOK
<1>2. \A a \in Addr :
          /\ server'[a] \in ServerRec /\ Sound(server'[a])
          /\ server'[a].live = server[a].live
          /\ Entry(server'[a]) = Entry(server[a])
  <2> TAKE a \in Addr
  <2>1. server[a] \in ServerRec /\ Sound(server[a])
    BY DEF IInv, TypeOK
  <2>2. CASE server[a].live /\ server[a].age <= PingTime
    <3>1. server'[a] = [server[a] EXCEPT !.age = @ + 1]
      BY <2>2 DEF Tick
    <3>2. server[a].age + 1 \in 0..(PingTime + 1)
      BY <2>1, <2>2 DEF ServerRec
    <3>3. QED
      BY <2>1, <2>2, <3>1, <3>2 DEF ServerRec, Sound, Entry
  <2>3. CASE ~(server[a].live /\ server[a].age <= PingTime)
    <3>1. server'[a] = server[a]
      BY <2>3 DEF Tick
    <3>2. QED
      BY <2>1, <3>1
  <2>4. QED
    BY <2>2, <2>3
<1>3. server' \in [Addr -> ServerRec]
  <2>1. DOMAIN server' = Addr
        /\ server' = [a \in Addr |-> server'[a]]
    BY DEF Tick
  <2>2. QED
    BY <1>2, <2>1
<1>4. UNCHANGED <<at, mail, news>>
  BY DEF Tick
<1>5. QED
  BY <1>2, <1>3, <1>4 DEF IInv, TypeOK, Inside, Entries

LEMMA ThreadSound ==
    ASSUME IInv, Swept \/ Delivered \/ \E a \in Addr \union {Nobody} : Receive(a)
    PROVE  IInv' /\ Entries' = Entries
<1>1. news \in Seq(Push) /\ Len(news) <= 2 /\ mail \in Addr \union {Nobody}
  BY DEF IInv, TypeOK
<1>2. CASE Swept
  BY <1>1, <1>2, OthersSound DEF Swept, News
<1>3. CASE Delivered
  <2>1. Tail(news) \in Seq(Push) /\ Len(Tail(news)) <= 2
    BY <1>1, <1>3, HeadTailProperties DEF Delivered
  <2>2. QED
    BY <2>1, <1>3 DEF Delivered, IInv, TypeOK, Inside, Entries
<1>4. CASE \E a \in Addr \union {Nobody} : Receive(a)
  BY <1>1, <1>4, OthersSound DEF Receive, News
<1>5. QED
  BY <1>2, <1>3, <1>4

LEMMA InitSound == Init => IInv /\ Registry!Init
<1> SUFFICES ASSUME Init PROVE IInv /\ Registry!Init
  OBVIOUS
<1>1. TypeOK
  BY NoServerType DEF Init, TypeOK
<1>2. Entry(NoServer) = Registry!Unknown
  BY DEF Entry, NoServer, Registry!Unknown
<1>3. QED
  BY <1>1, <1>2, NoServerType DEF Init, IInv, Inside, Entries, Registry!Init

LEMMA NextSound == IInv /\ [Next]_vars => IInv' /\ [Registry!Next]_Entries
<1> SUFFICES ASSUME IInv, [Next]_vars PROVE IInv' /\ [Registry!Next]_Entries
  OBVIOUS
<1>1. CASE UNCHANGED vars
  BY <1>1 DEF vars, IInv, TypeOK, Inside, Entries
<1>2. CASE Tick
  BY <1>2, TickSound
<1>3. CASE Swept \/ Delivered \/ \E a \in Addr \union {Nobody} : Receive(a)
  BY <1>3, ThreadSound
<1>4. ASSUME NEW a \in Addr, Expire(a)
      PROVE  IInv' /\ [Registry!Next]_Entries
  BY <1>4, ExpireSound
<1>5. ASSUME NEW a \in Addr, handleIncoming(a)
      PROVE  IInv' /\ [Registry!Next]_Entries
  <2>1. CASE \E c \in BOOLEAN : Short(a, c)
    BY <2>1, ShortSound
  <2>2. CASE Answer(a)
    BY <2>2, AnswerSound
  <2>3. CASE \E k \in Key : Heartbeat(a, k)
    BY <2>3, HeartbeatSound
  <2>4. CASE \E k \in Key, right \in BOOLEAN : Challenge(a, k, right)
    BY <2>4, ChallengeSound
  <2>5. CASE \E g \in Game \union {NoGame}, p \in Port, leaving \in BOOLEAN :
               HeartbeatKeys(a, g, p, leaving)
    BY <2>5, HeartbeatKeysSound
  <2>6. CASE \E g \in Game \union {NoGame}, p \in Port, leaving \in BOOLEAN :
               LegacyHeartbeatKeys(a, g, p, leaving)
    BY <2>6, LegacyKeysSound
  <2>7. CASE LegacyNote(a) \/ LegacyHeartbeat(a)
    BY <2>7, LegacySound
  <2>8. QED
    BY <1>5, <2>1, <2>2, <2>3, <2>4, <2>5, <2>6, <2>7 DEF handleIncoming
<1>6. QED
  BY <1>1, <1>2, <1>3, <1>4, <1>5 DEF Next, Loop

-----------------------------------------------------------------------------
\* The invariant of the proofs: types, a live entry in the middle of a
\* heartbeat, and what an entry may be.
THEOREM Invariance == Spec => []IInv
<1>1. Init => IInv
  BY InitSound
<1>2. IInv /\ [Next]_vars => IInv'
  BY NextSound
<1>3. QED
  BY <1>1, <1>2, PTL DEF Spec

\* Types of the variables; serverbrowsing is told of one entry at a time,
\* twice at most for one datagram.
THEOREM TypeCorrect == Spec => []TypeOK
<1>1. IInv => TypeOK
  BY DEF IInv
<1>2. QED
  BY <1>1, Invariance, PTL

\* Nobody is listed who was not challenged, unless by the older protocol; an
\* entry's game is settled once; a disabled game's servers are not listed.
THEOREM Implementation == Spec => ImplementsRegistry
<1>1. Init => Registry!Init
  BY InitSound
<1>2. IInv /\ [Next]_vars => [Registry!Next]_Entries
  BY NextSound
<1>3. QED
  BY <1>1, <1>2, Invariance, PTL DEF Spec, ImplementsRegistry, Registry!Spec
=============================================================================
