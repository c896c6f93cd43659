---------------------------- MODULE Natneg_proofs ----------------------------
(* What holds of Natneg for every set of peers, cookies and thresholds.    *)
EXTENDS Natneg, TLAPS

\* What the handlers rely on about the objects: only the first socket's are
\* connected, and one that sent no INIT still has the cookie 0.
Clean(cl) ==
    \A p \in Peer : /\ cl[p].connected => cl[p].instance = 1
                    /\ ~cl[p].gotInit => cl[p].cookie = 0

\* cl2 differs from cl in connected, set or kept, and sentAge only.
Marks(cl, cl2) ==
    \A p \in Peer : /\ cl2[p].instance = cl[p].instance
                    /\ cl2[p].cookie = cl[p].cookie
                    /\ cl2[p].cindex = cl[p].cindex
                    /\ cl2[p].gotInit = cl[p].gotInit
                    /\ cl2[p].gotConnectAck = cl[p].gotConnectAck
                    /\ cl[p].connected => cl2[p].connected

\* What may be sent when the objects are left as in cl.
SoundSent(cl, S) ==
    /\ S \subseteq Datagram
    /\ \A d \in S : d.type = "CONNECT" /\ cl[d.to].connected
    /\ \A p, q \in Peer : Connect(p, q) \in S => p # q /\ Opposite(cl[p], cl[q])

LEMMA SendSound ==
    ASSUME NEW cl \in [Peer -> ClientRec], Clean(cl),
           NEW p \in Peer, NEW q \in Partners(cl, p), NEW other \in BOOLEAN,
           p # q, NEW res, res = SendConnectPacket(cl, p, q, other)
    PROVE  /\ res.client \in [Peer -> ClientRec]
           /\ Clean(res.client) /\ Marks(cl, res.client)
           /\ SoundSent(res.client, res.sent)
<1> DEFINE refused == \/ cl[p].instance # 1 \/ ~cl[p].gotInit
                      \/ cl[p].gotConnectAck \/ cl[q].gotConnectAck
           self == [cl EXCEPT ![p].connected = TRUE, ![p].sentAge = 0,
                              ![q].connected = TRUE]
           both == [self EXCEPT ![q].sentAge = 0]
<1>1. /\ q \in Peer /\ cl[q].cookie = cl[p].cookie /\ cl[q].instance = cl[p].instance
      /\ cl[q].cindex = IF cl[p].cindex = 1 THEN 0 ELSE 1
  BY DEF Partners, Matching, Listed
<1>2. cl[p] \in ClientRec /\ cl[q] \in ClientRec
  BY <1>1
<1>3. CASE refused
  BY <1>3 DEF SendConnectPacket, Unsent, Marks, SoundSent
<1>4. CASE ~refused
  <2>1. 0 \in Garbage \union 0..(ResendTime + 1)
    BY NatnegAssumption
  <2>2. self \in [Peer -> ClientRec] /\ both \in [Peer -> ClientRec]
    BY <1>1, <1>2, <2>1 DEF ClientRec
  <2>3. ASSUME NEW cl2, cl2 = self \/ cl2 = both
        PROVE  /\ cl2 \in [Peer -> ClientRec] /\ Marks(cl, cl2)
               /\ cl2[p].connected /\ cl2[q].connected
               /\ \A r \in Peer \ {p, q} : cl2[r] = cl[r]
    <3>1. CASE cl2 = self
      BY <1>1, <1>2, <2>2, <3>1 DEF Marks, ClientRec
    <3>2. CASE cl2 = both
      BY <1>1, <1>2, <2>2, <3>2 DEF Marks, ClientRec
    <3>3. QED
      BY <2>3, <3>1, <3>2
  <2>4. ASSUME NEW cl2, cl2 = self \/ cl2 = both
        PROVE  Clean(cl2) /\ Opposite(cl2[p], cl2[q]) /\ Opposite(cl2[q], cl2[p])
    <3> HIDE DEF self, both
    <3>1. Opposite(cl[p], cl[q]) /\ Opposite(cl[q], cl[p])
      BY <1>1, <1>2, <1>4 DEF Opposite, Clean, ClientRec
    <3>2. ASSUME NEW r \in Peer
          PROVE  /\ cl2[r].connected => cl2[r].instance = 1
                 /\ ~cl2[r].gotInit => cl2[r].cookie = 0
      BY <1>1, <1>4, <2>3, <2>4 DEF Clean, Marks
    <3>3. QED
      BY <1>1, <2>3, <2>4, <3>1, <3>2 DEF Opposite, Marks, Clean
  <2>5. res = [client |-> self, sent |-> {Connect(p, q)}]
        \/ res = [client |-> both, sent |-> {Connect(p, q), Connect(q, p)}]
    BY <1>4 DEF SendConnectPacket
  <2>6. ASSUME NEW cl2, cl2 = self \/ cl2 = both,
               NEW S, S = {Connect(p, q)} \/ S = {Connect(p, q), Connect(q, p)}
        PROVE  SoundSent(cl2, S)
    <3> HIDE DEF self, both
    <3>1. Connect(p, q) \in Datagram /\ Connect(q, p) \in Datagram
      BY <1>1 DEF Connect, Datagram
    <3>2. S \subseteq Datagram
      BY <2>6, <3>1
    <3>3. \A d \in S : d.type = "CONNECT" /\ cl2[d.to].connected
      BY <1>1, <2>3, <2>6 DEF Connect
    <3>4. ASSUME NEW a \in Peer, NEW b \in Peer, Connect(a, b) \in S
          PROVE  a # b /\ Opposite(cl2[a], cl2[b])
      <4>1. (a = p /\ b = q) \/ (a = q /\ b = p)
        BY <2>6, <3>4 DEF Connect
      <4>2. QED
        BY <2>4, <2>6, <4>1
    <3>5. QED
      BY <3>2, <3>3, <3>4 DEF SoundSent
  <2>7. QED
    <3> HIDE DEF self, both
    <3>1. /\ res.client = self \/ res.client = both
          /\ res.sent = {Connect(p, q)} \/ res.sent = {Connect(p, q), Connect(q, p)}
      BY <2>5
    <3>2. QED
      BY <2>3, <2>4, <2>6, <3>1
<1>5. QED
  BY <1>3, <1>4

LEMMA TrySound ==
    ASSUME NEW cl \in [Peer -> ClientRec], Clean(cl), NEW order,
           NEW p \in Peer, NEW other \in BOOLEAN,
           NEW res \in trySendConnect(cl, order, p, other)
    PROVE  /\ res.client \in [Peer -> ClientRec]
           /\ Clean(res.client) /\ Marks(cl, res.client)
           /\ SoundSent(res.client, res.sent)
<1>1. CASE res = Unsent(cl)
  BY <1>1 DEF Unsent, Marks, SoundSent
<1>2. ASSUME NEW q \in Oldest(order, Partners(cl, p)), p # q,
             res = SendConnectPacket(cl, p, q, other)
      PROVE  /\ res.client \in [Peer -> ClientRec]
             /\ Clean(res.client) /\ Marks(cl, res.client)
             /\ SoundSent(res.client, res.sent)
  <2>1. q \in Partners(cl, p)
    BY DEF Oldest
  <2>2. QED
    BY <1>2, <2>1, SendSound
<1>3. res = Unsent(cl) \/ \E q \in Oldest(order, Partners(cl, p)) :
                             p # q /\ res = SendConnectPacket(cl, p, q, other)
  BY DEF trySendConnect
<1>4. QED
  BY <1>1, <1>2, <1>3

-----------------------------------------------------------------------------

\* An object that was told anything counts as connected: SendConnectPacket
\* and sendDeadBeatNotice set the mark, and nothing clears it.
ToldIsConnected ==
    \A p \in Peer, kind \in {"CONNECT", "DEADBEAT"} :
        <<p, kind>> \in told => client[p].connected

IInv == TypeOK /\ Clean(client) /\ ToldIsConnected

\* The two action properties, as formulas about one step.
VerdictStep ==
    \A p \in Peer : DeadBeat(p) \in sent' => <<p, "CONNECT">> \notin told

OppositeStep ==
    \A p, q \in Peer :
        Connect(p, q) \in sent' => p # q /\ Opposite(client'[p], client'[q])

\* cl is what the server knows once it found or created the object of p.
Arrived(cl, p) ==
    /\ cl \in [Peer -> ClientRec] /\ Clean(cl)
    /\ Listed(cl) = Listed(client) \union {p}
    /\ \A q \in Peer : client[q].connected => cl[q].connected

LEMMA ArrivedSound ==
    ASSUME IInv, NEW i \in 1..NumInstances, NEW p \in Peer, NEW g \in Garbage
    PROVE  /\ Arrived(FindOrCreate(i, p, g), p)
           /\ Arrived(Touch(FindOrCreate(i, p, g), p), p)
           /\ Arrived(Acked(FindOrCreate(i, p, g), p), p)
           /\ \A cookie \in Cookie, index \in Index :
                 Arrived(Inited(FindOrCreate(i, p, g), p, cookie, index), p)
<1> DEFINE cl == FindOrCreate(i, p, g)
<1>1. client \in [Peer -> ClientRec] /\ Clean(client)
  BY DEF IInv, TypeOK
<1>2. i \in Nat \ {0} /\ i \in 0..NumInstances
  BY NatnegAssumption
<1>3. NewClient(i, g) \in ClientRec /\ NewClient(i, g).instance = i
      /\ NewClient(i, g).connected = FALSE /\ NewClient(i, g).cookie = 0
  <2>1. 0 \in 0..(PingTime + 1) /\ 0 \in 0..(DeadbeatTime + 1)
        /\ 0 \in 0..(ResendTime + 1) /\ 0 \in 0..NumInstances
    BY NatnegAssumption
  <2>2. NoClient \in ClientRec /\ ~NoClient.connected /\ NoClient.cookie = 0
    BY <2>1 DEF NoClient, ClientRec
  <2> HIDE DEF NoClient
  <2>3. QED
    BY <1>2, <2>2 DEF ClientRec, NewClient
<1>4. Arrived(cl, p)
  <2>1. CASE client[p].instance = 0
    <3>1. cl = [client EXCEPT ![p] = NewClient(i, g)]
      BY <2>1 DEF FindOrCreate
    <3>2. QED
      BY <1>1, <1>2, <1>3, <2>1, <3>1 DEF Arrived, Clean, Listed, ClientRec
  <2>2. CASE client[p].instance # 0
    <3>1. cl = client
      BY <2>2 DEF FindOrCreate
    <3>2. QED
      BY <1>1, <2>2, <3>1 DEF Arrived, Listed
  <2>3. QED
    BY <2>1, <2>2
<1> HIDE DEF cl
<1>5. cl \in [Peer -> ClientRec] /\ Clean(cl) /\ Listed(cl) = Listed(client) \union {p}
      /\ \A q \in Peer : client[q].connected => cl[q].connected
  BY <1>4 DEF Arrived
<1>6. 0 \in 0..(PingTime + 1)
  BY NatnegAssumption
<1>7. Arrived(Touch(cl, p), p)
  BY <1>5, <1>6 DEF Arrived, Clean, Listed, ClientRec, Touch
<1>8. Arrived(Acked(cl, p), p)
  <2> DEFINE tl == Touch(cl, p)
             r  == [tl[p] EXCEPT !.gotConnectAck = TRUE]
             al == [tl EXCEPT ![p] = r]
  <2> HIDE DEF tl
  <2>1. tl \in [Peer -> ClientRec] /\ Clean(tl) /\ Listed(tl) = Listed(client) \union {p}
        /\ \A q \in Peer : client[q].connected => tl[q].connected
    BY <1>7 DEF Arrived, tl
  <2>2. /\ r \in ClientRec /\ r.gotInit = tl[p].gotInit /\ r.cookie = tl[p].cookie
        /\ r.instance = tl[p].instance /\ r.connected = tl[p].connected
    <3>1. tl[p] \in ClientRec
      BY <2>1
    <3>2. QED
      BY <3>1 DEF ClientRec
  <2> HIDE DEF r
  <2>3. al \in [Peer -> ClientRec] /\ al[p] = r /\ \A q \in Peer \ {p} : al[q] = tl[q]
    BY <2>1, <2>2
  <2> HIDE DEF al
  <2>4. Arrived(al, p)
    BY <2>1, <2>2, <2>3 DEF Arrived, Clean, Listed
  <2>5. QED
    BY <2>4 DEF al, r, tl, Acked
<1>9. ASSUME NEW cookie \in Cookie, NEW index \in Index
      PROVE  Arrived(Inited(cl, p, cookie, index), p)
  <2> DEFINE tl == Touch(cl, p)
             r  == [tl[p] EXCEPT !.cookie = cookie, !.cindex = index, !.gotInit = TRUE]
             il == [tl EXCEPT ![p] = r]
  <2> HIDE DEF tl
  <2>1. tl \in [Peer -> ClientRec] /\ Clean(tl) /\ Listed(tl) = Listed(client) \union {p}
        /\ \A q \in Peer : client[q].connected => tl[q].connected
    BY <1>7 DEF Arrived, tl
  <2>2. /\ r \in ClientRec /\ r.gotInit
        /\ r.instance = tl[p].instance /\ r.connected = tl[p].connected
    <3>1. tl[p] \in ClientRec
      BY <2>1
    <3>2. QED
      BY <3>1 DEF ClientRec
  <2> HIDE DEF r
  <2>3. il \in [Peer -> ClientRec] /\ il[p] = r /\ \A q \in Peer \ {p} : il[q] = tl[q]
    BY <2>1, <2>2
  <2> HIDE DEF il
  <2>4. Arrived(il, p)
    BY <2>1, <2>2, <2>3 DEF Arrived, Clean, Listed
  <2>5. QED
    BY <2>4 DEF il, r, tl, Inited
<1>10. QED
  BY <1>4, <1>7, <1>8, <1>9 DEF cl

\* A datagram that was served keeps the invariant, and sent what it may.
LEMMA ServedSound ==
    ASSUME IInv, NEW i \in 1..NumInstances, NEW p \in Peer,
           NEW cl, Arrived(cl, p), NEW res, Served(i, p, res),
           res.client \in [Peer -> ClientRec], Clean(res.client),
           Marks(cl, res.client), SoundSent(res.client, res.sent)
    PROVE  IInv' /\ VerdictStep /\ OppositeStep
<1>1. TypeOK /\ ToldIsConnected
  BY DEF IInv
<1>2. /\ phase = i /\ phase' = i + 1 /\ before' = Appended(p)
      /\ client' = res.client /\ sent' = res.sent /\ todo' = todo
      /\ told' = told \union {<<d.to, d.type>> : d \in sent'}
  BY DEF Served, Remember
<1>3. Listed(client') = Listed(client) \union {p}
  BY <1>2 DEF Arrived, Marks, Listed
<1>4. SoundSent(client', sent')
  BY <1>2
<1>5. TypeOK'
  <2>1. before' \subseteq Listed(client') \X Listed(client')
    BY <1>1, <1>2, <1>3 DEF TypeOK, Appended
  <2>2. ASSUME NEW a \in Listed(client'), NEW b \in Listed(client'), a # b
        PROVE  <<a, b>> \in before' <=> <<b, a>> \notin before'
    <3>1. CASE client[p].instance = 0
      <4>1. before' = before \union (Listed(client) \X {p}) /\ p \notin Listed(client)
        BY <1>2, <3>1 DEF Appended, Listed
      <4>2. QED
        BY <1>1, <1>3, <2>2, <4>1 DEF TypeOK
    <3>2. CASE client[p].instance # 0
      <4>1. before' = before /\ Listed(client') = Listed(client)
        BY <1>2, <1>3, <3>2 DEF Appended, Listed
      <4>2. QED
        BY <1>1, <2>2, <4>1 DEF TypeOK
    <3>3. QED
      BY <3>1, <3>2
  <2>3. phase' \in 1..Lonely
    BY <1>2, NatnegAssumption DEF Lonely
  <2>4. todo' \subseteq Listed(client') /\ sent' \subseteq Datagram
    BY <1>1, <1>2, <1>3, <1>4 DEF TypeOK, SoundSent
  <2>5. told' \subseteq Listed(client') \X {"CONNECT", "DEADBEAT"}
    <3>1. ASSUME NEW d \in sent'
          PROVE  d.to \in Listed(client') /\ d.type \in {"CONNECT", "DEADBEAT"}
      <4>1. d \in Datagram /\ client'[d.to].connected /\ d.type = "CONNECT"
        BY <1>4 DEF SoundSent
      <4>2. d.to \in Peer
        BY <4>1 DEF Datagram
      <4>3. client'[d.to].instance = 1
        BY <1>2, <4>1, <4>2 DEF Clean
      <4>4. QED
        BY <4>1, <4>2, <4>3 DEF Listed
    <3>2. QED
      BY <1>1, <1>2, <1>3, <3>1 DEF TypeOK
  <2>6. client' \in [Peer -> ClientRec]
    BY <1>2
  <2>7. QED
    BY <2>1, <2>2, <2>3, <2>4, <2>5, <2>6 DEF TypeOK
<1>6. ToldIsConnected'
  <2>1. ASSUME NEW q \in Peer, NEW kind \in {"CONNECT", "DEADBEAT"}, <<q, kind>> \in told'
        PROVE  client'[q].connected
    <3>1. CASE <<q, kind>> \in told
      BY <1>1, <1>2, <3>1 DEF ToldIsConnected, Arrived, Marks
    <3>2. CASE \E d \in sent' : d.to = q
      BY <1>4, <3>2 DEF SoundSent
    <3>3. QED
      BY <1>2, <2>1, <3>1, <3>2
  <2>2. QED
    BY <2>1 DEF ToldIsConnected
<1>7. VerdictStep
  BY <1>4 DEF SoundSent, VerdictStep, DeadBeat
<1>8. OppositeStep
  BY <1>4 DEF SoundSent, OppositeStep
<1>9. QED
  BY <1>2, <1>5, <1>6, <1>7, <1>8 DEF IInv

LEMMA ConnectionSound ==
    ASSUME IInv, NEW i \in 1..NumInstances, NEW p \in Peer, handleConnection(i, p)
    PROVE  IInv' /\ VerdictStep /\ OppositeStep
<1>1. ASSUME NEW cl, Arrived(cl, p), Served(i, p, Unsent(cl))
      PROVE  IInv' /\ VerdictStep /\ OppositeStep
  <2>1. Unsent(cl).client = cl /\ Unsent(cl).sent = {}
    BY DEF Unsent
  <2>2. /\ Unsent(cl).client \in [Peer -> ClientRec] /\ Clean(Unsent(cl).client)
        /\ Marks(cl, Unsent(cl).client)
        /\ SoundSent(Unsent(cl).client, Unsent(cl).sent)
    BY <1>1, <2>1 DEF Arrived, Marks, SoundSent
  <2>3. QED
    BY <1>1, <2>2, ServedSound
<1>2. ASSUME NEW cookie \in Cookie, NEW index \in Index, handleInitPacket(i, p, cookie, index)
      PROVE  IInv' /\ VerdictStep /\ OppositeStep
  <2>1. PICK g \in Garbage :
          \E res \in trySendConnect(Inited(FindOrCreate(i, p, g), p, cookie, index),
                                    Appended(p), p, TRUE) : Served(i, p, res)
    BY <1>2 DEF handleInitPacket
  <2> DEFINE cl == Inited(FindOrCreate(i, p, g), p, cookie, index)
  <2>2. Arrived(cl, p)
    BY ArrivedSound
  <2> HIDE DEF cl
  <2>3. PICK res \in trySendConnect(cl, Appended(p), p, TRUE) : Served(i, p, res)
    BY <2>1 DEF cl
  <2>4. /\ res.client \in [Peer -> ClientRec] /\ Clean(res.client)
        /\ Marks(cl, res.client) /\ SoundSent(res.client, res.sent)
    BY <2>2, TrySound DEF Arrived
  <2>5. QED
    BY <2>2, <2>3, <2>4, ServedSound
<1>3. CASE handleConnectAck(i, p)
  BY <1>1, <1>3, ArrivedSound DEF handleConnectAck
<1>4. CASE handleOther(i, p)
  BY <1>1, <1>4, ArrivedSound DEF handleOther
<1>5. CASE handleNotNatneg(i, p)
  BY <1>1, <1>5, ArrivedSound DEF handleNotNatneg
<1>6. QED
  BY <1>2, <1>3, <1>4, <1>5 DEF handleConnection

\* A step that sends nothing and leaves the objects' marks alone.
LEMMA QuietSound ==
    ASSUME IInv, sent' = {}, client' = client, before' = before, told' = told,
           todo' \subseteq todo, phase' \in 1..Lonely
    PROVE  IInv' /\ VerdictStep /\ OppositeStep
  BY DEF IInv, TypeOK, Clean, ToldIsConnected, VerdictStep, OppositeStep, Listed

LEMMA ExpireSound ==
    ASSUME IInv, Expire
    PROVE  IInv' /\ VerdictStep /\ OppositeStep
<1>1. TypeOK /\ Clean(client) /\ ToldIsConnected
  BY DEF IInv
<1>2. NoClient \in ClientRec /\ ~NoClient.connected /\ NoClient.cookie = 0
      /\ NoClient.instance = 0
  <2>1. 0 \in 0..(PingTime + 1) /\ 0 \in 0..(DeadbeatTime + 1)
        /\ 0 \in 0..(ResendTime + 1) /\ 0 \in 0..NumInstances
    BY NatnegAssumption
  <2>2. QED
    BY <2>1 DEF NoClient, ClientRec
<1> HIDE DEF NoClient
<1>3. client' \in [Peer -> ClientRec] /\ Clean(client')
      /\ Listed(client') \subseteq Listed(client)
      /\ \A p \in Listed(client') : client'[p] = client[p]
  BY <1>1, <1>2 DEF Expire, TypeOK, Clean, Listed
<1>4. phase' \in 1..Lonely
  BY NatnegAssumption DEF Expire, Resending, Lonely
<1>5. before' = before \intersect (Listed(client') \X Listed(client'))
      /\ todo' = Listed(client') /\ sent' = {}
      /\ told' = told \intersect (Listed(client') \X {"CONNECT", "DEADBEAT"})
  BY DEF Expire
<1>6. TypeOK'
  BY <1>1, <1>3, <1>4, <1>5 DEF TypeOK
<1>7. ToldIsConnected'
  BY <1>1, <1>3, <1>5 DEF ToldIsConnected
<1>8. VerdictStep /\ OppositeStep
  BY <1>5 DEF VerdictStep, OppositeStep
<1>9. QED
  BY <1>3, <1>6, <1>7, <1>8 DEF IInv

LEMMA ResendSound ==
    ASSUME IInv, NEW p \in Peer, Resend(p)
    PROVE  IInv' /\ VerdictStep /\ OppositeStep
<1>1. TypeOK /\ Clean(client) /\ ToldIsConnected
  BY DEF IInv
<1>2. PICK res \in IF RetryDue(p) THEN trySendConnect(client, before, p, FALSE)
                                  ELSE {Unsent(client)} :
          client' = res.client /\ sent' = res.sent
  BY DEF Resend
<1>3. /\ client' \in [Peer -> ClientRec] /\ Clean(client')
      /\ Marks(client, client') /\ SoundSent(client', sent')
  <2>1. CASE RetryDue(p)
    BY <1>1, <1>2, <2>1, TrySound DEF TypeOK
  <2>2. CASE ~RetryDue(p)
    BY <1>1, <1>2, <2>2 DEF TypeOK, Unsent, Marks, SoundSent
  <2>3. QED
    BY <2>1, <2>2
<1>4. /\ before' = before /\ phase' = phase /\ todo' \subseteq todo
      /\ told' = told \union {<<d.to, d.type>> : d \in sent'}
  BY DEF Resend, Remember
<1>5. Listed(client') = Listed(client)
  BY <1>3 DEF Marks, Listed
<1>6. ASSUME NEW d \in sent'
      PROVE  /\ d.to \in Listed(client') /\ d.type \in {"CONNECT", "DEADBEAT"}
             /\ client'[d.to].connected
  <2>1. d \in Datagram /\ client'[d.to].connected /\ d.type = "CONNECT"
    BY <1>3 DEF SoundSent
  <2>2. d.to \in Peer
    BY <2>1 DEF Datagram
  <2>3. client'[d.to].instance = 1
    BY <1>3, <2>1, <2>2 DEF Clean
  <2>4. QED
    BY <2>1, <2>2, <2>3 DEF Listed
<1>7. told' \subseteq Listed(client') \X {"CONNECT", "DEADBEAT"}
  BY <1>1, <1>4, <1>5, <1>6 DEF TypeOK
<1>8. TypeOK'
  BY <1>1, <1>3, <1>4, <1>5, <1>7 DEF TypeOK, SoundSent
<1>9. ToldIsConnected'
  BY <1>1, <1>3, <1>4, <1>6 DEF ToldIsConnected, Marks
<1>10. VerdictStep /\ OppositeStep
  BY <1>3 DEF SoundSent, VerdictStep, OppositeStep, DeadBeat
<1>11. QED
  BY <1>3, <1>8, <1>9, <1>10 DEF IInv

LEMMA DeadBeatSound ==
    ASSUME IInv, sendDeadBeatNotices
    PROVE  IInv' /\ VerdictStep /\ OppositeStep
<1>1. TypeOK /\ Clean(client) /\ ToldIsConnected
  BY DEF IInv
<1>2. /\ client' = [p \in Peer |-> IF p \in Overdue
                                   THEN [client[p] EXCEPT !.connected = TRUE]
                                   ELSE client[p]]
      /\ sent' = {DeadBeat(p) : p \in Overdue}
      /\ phase' = 1 /\ before' = before /\ todo' = todo
      /\ told' = told \union {<<d.to, d.type>> : d \in sent'}
  BY DEF sendDeadBeatNotices, Remember
<1>3. ASSUME NEW p \in Overdue
      PROVE  p \in Listed(client) /\ ~client[p].connected /\ client[p].instance = 1
  BY DEF Overdue
<1>4. /\ client' \in [Peer -> ClientRec] /\ Marks(client, client')
      /\ \A p \in Overdue : client'[p].connected
      /\ \A p \in Peer : p \notin Overdue => client'[p] = client[p]
  <2>1. client \in [Peer -> ClientRec] /\ Overdue \subseteq Peer
    BY <1>1 DEF TypeOK, Overdue, Listed
  <2>2. ASSUME NEW p \in Peer
        PROVE  LET c == [client[p] EXCEPT !.connected = TRUE]
               IN /\ c \in ClientRec /\ c.connected
                  /\ c.instance = client[p].instance /\ c.cookie = client[p].cookie
                  /\ c.cindex = client[p].cindex /\ c.gotInit = client[p].gotInit
                  /\ c.gotConnectAck = client[p].gotConnectAck
    <3>1. client[p] \in ClientRec
      BY <2>1
    <3>2. QED
      BY <3>1 DEF ClientRec
  <2>3. QED
    BY <1>2, <2>1, <2>2 DEF Marks
<1>5. Listed(client') = Listed(client) /\ Clean(client')
  <2>1. Listed(client') = Listed(client)
    BY <1>4 DEF Marks, Listed
  <2>2. ASSUME NEW p \in Peer
        PROVE  /\ client'[p].connected => client'[p].instance = 1
               /\ ~client'[p].gotInit => client'[p].cookie = 0
    <3>1. CASE p \in Overdue
      BY <1>1, <1>3, <1>4, <3>1 DEF Marks, Clean
    <3>2. CASE p \notin Overdue
      <4>1. client'[p] = client[p]
        BY <1>4, <3>2
      <4>2. /\ client[p].connected => client[p].instance = 1
            /\ ~client[p].gotInit => client[p].cookie = 0
        BY <1>1 DEF Clean
      <4>3. QED
        BY <4>1, <4>2
    <3>3. QED
      BY <3>1, <3>2
  <2>3. QED
    BY <2>1, <2>2 DEF Clean
<1>6. ASSUME NEW d \in sent'
      PROVE  d.to \in Overdue /\ d.type = "DEADBEAT" /\ d \in Datagram
  <2>1. PICK p \in Overdue : d = DeadBeat(p)
    BY <1>2
  <2>2. p \in Peer
    BY <1>3 DEF Listed
  <2>3. QED
    BY <2>1, <2>2 DEF DeadBeat, Datagram
<1>7. TypeOK'
  <2>1. told' \subseteq Listed(client') \X {"CONNECT", "DEADBEAT"}
    <3>1. ASSUME NEW d \in sent'
          PROVE  <<d.to, d.type>> \in Listed(client') \X {"CONNECT", "DEADBEAT"}
      BY <1>3, <1>5, <1>6
    <3>2. told \subseteq Listed(client') \X {"CONNECT", "DEADBEAT"}
      BY <1>1, <1>5 DEF TypeOK
    <3>3. QED
      BY <1>2, <3>1, <3>2
  <2>2. phase' \in 1..Lonely
    BY <1>2, NatnegAssumption DEF Lonely
  <2>3. QED
    BY <1>1, <1>2, <1>4, <1>5, <1>6, <2>1, <2>2 DEF TypeOK
<1>8. ToldIsConnected'
  <2>1. ASSUME NEW p \in Peer, NEW kind \in {"CONNECT", "DEADBEAT"}, <<p, kind>> \in told'
        PROVE  client'[p].connected
    <3>1. CASE <<p, kind>> \in told
      BY <1>1, <1>4, <3>1 DEF ToldIsConnected, Marks
    <3>2. CASE \E d \in sent' : p = d.to
      BY <1>4, <1>6, <3>2
    <3>3. QED
      BY <1>2, <2>1, <3>1, <3>2
  <2>2. QED
    BY <2>1 DEF ToldIsConnected
<1>9. VerdictStep
  <2>1. ASSUME NEW p \in Peer, DeadBeat(p) \in sent'
        PROVE  <<p, "CONNECT">> \notin told
    <3>1. p \in Overdue
      <4>1. DeadBeat(p).to = p
        BY DEF DeadBeat
      <4> HIDE DEF DeadBeat
      <4>2. QED
        BY <1>6, <2>1, <4>1
    <3>2. QED
      BY <1>1, <1>3, <3>1 DEF ToldIsConnected
  <2>2. QED
    BY <2>1 DEF VerdictStep
<1>10. OppositeStep
  BY <1>6 DEF OppositeStep, Connect
<1>11. QED
  BY <1>5, <1>7, <1>8, <1>9, <1>10 DEF IInv

LEMMA TickSound ==
    ASSUME IInv, Tick
    PROVE  IInv' /\ VerdictStep /\ OppositeStep
<1>1. TypeOK /\ Clean(client) /\ ToldIsConnected
  BY DEF IInv
<1>2. ASSUME NEW c \in ClientRec
      PROVE  /\ Aged(c) \in ClientRec
             /\ Aged(c).instance = c.instance /\ Aged(c).connected = c.connected
             /\ Aged(c).gotInit = c.gotInit /\ Aged(c).cookie = c.cookie
  <2>1. /\ c.connectAge \in 0..(DeadbeatTime + 1) /\ c.packetAge \in 0..(PingTime + 1)
        /\ c.sentAge = Future \/ c.sentAge \in 0..(ResendTime + 1)
    BY NatnegAssumption DEF ClientRec, Garbage
  <2>2. /\ Older(c.connectAge, DeadbeatTime) \in 0..(DeadbeatTime + 1)
        /\ Older(c.packetAge, PingTime) \in 0..(PingTime + 1)
        /\ c.sentAge # Future => Older(c.sentAge, ResendTime) \in 0..(ResendTime + 1)
    BY <2>1, NatnegAssumption DEF Older
  <2>3. (IF c.sentAge = Future THEN Future ELSE Older(c.sentAge, ResendTime))
            \in Garbage \union 0..(ResendTime + 1)
    BY <2>2 DEF Garbage
  <2> HIDE DEF Older
  <2>4. QED
    BY <2>2, <2>3 DEF Aged, ClientRec
<1>3. client' \in [Peer -> ClientRec] /\ Clean(client') /\ Listed(client') = Listed(client)
      /\ \A p \in Peer : client'[p].connected = client[p].connected
  BY <1>1, <1>2 DEF Tick, TypeOK, Clean, Listed
<1>4. sent' = {} /\ UNCHANGED <<before, phase, todo, told>>
  BY DEF Tick
<1>5. QED
  BY <1>1, <1>3, <1>4
     DEF IInv, TypeOK, ToldIsConnected, VerdictStep, OppositeStep

-----------------------------------------------------------------------------

LEMMA InitSound == Init => IInv
<1> SUFFICES ASSUME Init PROVE IInv
  OBVIOUS
<1>1. 0 \in 0..(PingTime + 1) /\ 0 \in 0..(DeadbeatTime + 1)
      /\ 0 \in 0..(ResendTime + 1) /\ 0 \in 0..NumInstances /\ 1 \in 1..Lonely
  BY NatnegAssumption DEF Lonely
<1>2. NoClient \in ClientRec /\ ~NoClient.connected /\ NoClient.cookie = 0
      /\ NoClient.instance = 0
  BY <1>1 DEF NoClient, ClientRec
<1> HIDE DEF NoClient
<1>3. QED
  BY <1>1, <1>2 DEF Init, IInv, TypeOK, Clean, ToldIsConnected, Listed

LEMMA NextSound == IInv /\ [Next]_vars => IInv' /\ [VerdictStep /\ OppositeStep]_vars
<1> SUFFICES ASSUME IInv, [Next]_vars PROVE IInv' /\ [VerdictStep /\ OppositeStep]_vars
  OBVIOUS
<1>1. ASSUME NEW i \in 1..NumInstances, NEW p \in Peer, handleConnection(i, p)
      PROVE  IInv' /\ VerdictStep /\ OppositeStep
  BY <1>1, ConnectionSound
<1>2. ASSUME NEW i \in 1..NumInstances, NotReadable(i)
      PROVE  IInv' /\ VerdictStep /\ OppositeStep
  <2>1. phase' \in 1..Lonely
    BY <1>2, NatnegAssumption DEF NotReadable, Lonely
  <2>2. QED
    BY <1>2, <2>1, QuietSound DEF NotReadable
<1>3. CASE Expire
  BY <1>3, ExpireSound
<1>4. ASSUME NEW p \in Peer, Resend(p)
      PROVE  IInv' /\ VerdictStep /\ OppositeStep
  BY <1>4, ResendSound
<1>5. CASE Resent
  <2>1. phase' \in 1..Lonely
    BY <1>5, NatnegAssumption DEF Resent, Lonely
  <2>2. QED
    BY <1>5, <2>1, QuietSound DEF Resent
<1>6. CASE sendDeadBeatNotices
  BY <1>6, DeadBeatSound
<1>7. CASE Tick
  BY <1>7, TickSound
<1>8. CASE UNCHANGED vars
  BY <1>8 DEF vars, IInv, TypeOK, Clean, ToldIsConnected, Listed
<1>9. QED
  BY <1>1, <1>2, <1>3, <1>4, <1>5, <1>6, <1>7, <1>8 DEF Next, Loop, checkTimeouts

-----------------------------------------------------------------------------
(* The theorems.                                                           *)

\* The invariant of the proofs: shapes, the marks only the first socket's
\* objects have, and that whoever was told anything is marked.
THEOREM Invariance == Spec => []IInv
<1>1. Init => IInv
  BY InitSound
<1>2. IInv /\ [Next]_vars => IInv'
  BY NextSound
<1>3. QED
  BY <1>1, <1>2, PTL DEF Spec

\* Every variable keeps its shape, and the walks stay within client_list.
THEOREM TypeCorrect == Spec => []TypeOK
<1>1. IInv => TypeOK
  BY DEF IInv
<1>2. QED
  BY <1>1, Invariance, PTL

\* Objects of the other sockets are never marked as connected.
THEOREM FirstSocket == Spec => []FirstSocketOnly
<1>1. IInv => FirstSocketOnly
  BY DEF IInv, Clean, FirstSocketOnly
<1>2. QED
  BY <1>1, Invariance, PTL

\* Nobody is told of a missing partner after being told where it is.
THEOREM VerdictsStand == Spec => VerdictStands
<1>1. IInv /\ [Next]_vars =>
        [\A p \in Peer : DeadBeat(p) \in sent' => <<p, "CONNECT">> \notin told]_vars
  BY NextSound DEF VerdictStep
<1>2. QED
  BY <1>1, Invariance, PTL DEF Spec, VerdictStands

\* Every CONNECT joins two opposite sides of one negotiation.
THEOREM OppositesMeet == Spec => OnlyOppositesMeet
<1>1. IInv /\ [Next]_vars =>
        [\A p, q \in Peer : Connect(p, q) \in sent' =>
            p # q /\ Opposite(client'[p], client'[q])]_vars
  BY NextSound DEF OppositeStep
<1>2. QED
  BY <1>1, Invariance, PTL DEF Spec, OnlyOppositesMeet
=============================================================================
