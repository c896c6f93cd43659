-------------------------- MODULE UserModes_proofs --------------------------
(***************************************************************************)
(* The chat server as the holder of a copy of the database's tables, for   *)
(* any hosts, profiles, clients, database sessions and buffers: types,     *)
(* that rights follow the oper list, that a login reaches the client that  *)
(* asked for it, that a ban in force leaves nobody behind, and that the    *)
(* lists of user modes and of opers stay in step with the tables.          *)
(***************************************************************************)
EXTENDS UserModes, SequenceTheorems, FiniteSetTheorems, TLAPS

\* The pass visits clients that are there, one of which may have its turn; without
\* the loop there are no clients and nothing is received.
InPass ==
    /\ todo \subseteq Listed /\ turn \in Listed \union {NoSlot} /\ turn \notin todo
    /\ stage # "up" => Listed = {} /\ wire = <<>>

SdsDiffer == \A a, b \in Listed : client[a].sd = client[b].sd => a = b

\* The answer to a login will find the client that asked, which this pass over the
\* clients deletes no more, or is one that no server waits for.
Owed(msg) == msg # NoCall /\ msg.id = "AuthClient" /\ msg.key # NoProfile =>
    \/ msg.key \in strays
    \/ \E c \in Listed \ todo : client[c].sd = msg.sd /\ msg.key \in client[c].asked

Stray(msg) == msg # NoCall /\ msg.id = "AuthClient" => msg.key \in strays \union {NoProfile}

Answers ==
    /\ \A i \in DOMAIN wire : wire[i] # NoCall /\ Owed(wire[i])
    /\ Owed(pending["server"])
    /\ \A s \in Session \ {"server"} : Stray(pending[s])

Welcomes == \A c \in Listed : client[c].welcomed => client[c].registered

UInv ==
    /\ UserModesTypeOK /\ InPass /\ SdsDiffer /\ Answers /\ Welcomes
    /\ RightsAreCurrent /\ ProfileIsItsOwn /\ BannedAreGone

-----------------------------------------------------------------------------
(* Sequences.                                                              *)

LEMMA RemoveAtValue ==
    ASSUME NEW S, NEW q \in Seq(S), NEW i \in DOMAIN q
    PROVE  /\ RemoveAt(q, i) \in Seq(S) /\ DOMAIN RemoveAt(q, i) = 1..(Len(q) - 1)
           /\ \A j \in 1..(Len(q) - 1) : RemoveAt(q, i)[j] = IF j < i THEN q[j] ELSE q[j + 1]
<1> DEFINE a == SubSeq(q, 1, i - 1)
           b == SubSeq(q, i + 1, Len(q))
<1>1. i \in 1..Len(q) /\ Len(q) \in Nat /\ DOMAIN q = 1..Len(q)
  BY LenProperties
<1>2. /\ a \in Seq(S) /\ Len(a) = i - 1
      /\ \A j \in 1..(i - 1) : a[j] = q[j]
  <2>1. \A j \in 1..(i - 1) : q[j] \in S
    BY <1>1, ElementOfSeq
  <2>2. 1 \in Int /\ i - 1 \in Int
    BY <1>1
  <2>3. QED
    BY <1>1, <2>1, <2>2, SubSeqProperties
<1>3. /\ b \in Seq(S) /\ Len(b) = Len(q) - i
      /\ \A j \in 1..(Len(q) - i) : b[j] = q[i + j]
  <2>1. \A j \in (i + 1)..Len(q) : q[j] \in S
    BY <1>1, ElementOfSeq
  <2>2. i + 1 \in Int /\ Len(q) \in Int
    BY <1>1
  <2>3. QED
    BY <1>1, <2>1, <2>2, SubSeqProperties
<1> HIDE DEF a, b
<1>4. /\ a \o b \in Seq(S) /\ Len(a \o b) = Len(a) + Len(b)
      /\ \A j \in 1..(Len(a) + Len(b)) : (a \o b)[j] = IF j <= Len(a) THEN a[j] ELSE b[j - Len(a)]
  BY <1>2, <1>3, ConcatProperties
<1>5. RemoveAt(q, i) = a \o b
  BY DEF RemoveAt, a, b
<1>6. DOMAIN (a \o b) = 1..(Len(q) - 1)
  <2>1. Len(a \o b) = Len(q) - 1
    BY <1>1, <1>2, <1>3, <1>4
  <2>2. DOMAIN (a \o b) = 1..Len(a \o b)
    BY <1>4, LenProperties
  <2>3. QED
    BY <2>1, <2>2
<1>7. ASSUME NEW j \in 1..(Len(q) - 1)
      PROVE  (a \o b)[j] = IF j < i THEN q[j] ELSE q[j + 1]
  <2>1. j \in 1..(Len(a) + Len(b))
    BY <1>1, <1>2, <1>3
  <2>2. CASE j < i
    BY <1>1, <1>2, <1>4, <2>1, <2>2
  <2>3. CASE ~(j < i)
    <3>1. (a \o b)[j] = b[j - Len(a)]
      BY <1>1, <1>2, <1>4, <2>1, <2>3
    <3>2. j - Len(a) \in 1..(Len(q) - i) /\ i + (j - Len(a)) = j + 1
      BY <1>1, <1>2, <2>3
    <3>3. QED
      BY <1>3, <2>3, <3>1, <3>2
  <2>4. QED
    BY <2>2, <2>3
<1>8. QED
  BY <1>4, <1>5, <1>6, <1>7

LEMMA RemoveAtType ==
    ASSUME NEW S, NEW q \in Seq(S), NEW i \in DOMAIN q
    PROVE  /\ RemoveAt(q, i) \in Seq(S)
           /\ \A j \in DOMAIN RemoveAt(q, i) : \E k \in DOMAIN q : RemoveAt(q, i)[j] = q[k]
<1>1. DOMAIN q = 1..Len(q) /\ Len(q) \in Nat
  BY LenProperties
<1>2. \A j \in 1..(Len(q) - 1) : j \in DOMAIN q /\ j + 1 \in DOMAIN q
  BY <1>1
<1>3. QED
  BY <1>2, RemoveAtValue

LEMMA AppendForce ==
    ASSUME NEW list \in Seq(Entry), NEW e \in Entry
    PROVE  /\ Append(list, e) \in Seq(Entry)
           /\ InForce(Append(list, e)) = InForce(list) \union {e.um}
<1>1. /\ Append(list, e) \in Seq(Entry) /\ DOMAIN Append(list, e) = 1..(Len(list) + 1)
      /\ Len(list) \in Nat /\ DOMAIN list = 1..Len(list)
      /\ \A i \in 1..Len(list) : Append(list, e)[i] = list[i]
      /\ Append(list, e)[Len(list) + 1] = e
  BY LenProperties, AppendProperties
<1>2. 1..(Len(list) + 1) = 1..Len(list) \union {Len(list) + 1}
  BY <1>1
<1>3. QED
  BY <1>1, <1>2 DEF InForce

-----------------------------------------------------------------------------
(* What the steps make of a client.                                        *)

\* It is the same one, with the profile and the rights it had.
Later(a, b) ==
    /\ b.live = a.live /\ b.host = a.host /\ b.sd = a.sd
    /\ b.profile = a.profile /\ b.rights = a.rights /\ a.asked \subseteq b.asked
    /\ a.toquit => b.toquit
    /\ a.spared => b.spared

\* It has not registered meanwhile.
Calm(a, b) == Later(a, b) /\ b.registered = a.registered /\ b.welcomed = a.welcomed

\* The user modes that BannedAreGone is about, for a host.
Bans(um, h) == um.flags = {"b"} /\ um.host = h /\ um.profile = NoProfile

FewerBans(list, list1) ==
    \A h \in Host : (\E um \in InForce(list1) : Bans(um, h)) => \E um \in InForce(list) : Bans(um, h)

LEMMA NewClientType ==
    ASSUME NEW h \in Host, NEW d \in Sd
    PROVE  NewClient(h, d) \in ClientRec
BY MatrixAssumption DEF NewClient, ClientRec

LEMMA FreedType == Freed \in ClientRec /\ ~Freed.live
<1> DEFINE h == CHOOSE h \in Host : TRUE
           d == CHOOSE d \in Sd : TRUE
<1>1. h \in Host /\ d \in Sd
  BY UserModesAssumption
<1> HIDE DEF h, d
<1>2. NewClient(h, d) \in ClientRec
  BY <1>1, NewClientType
<1>3. Freed = [NewClient(h, d) EXCEPT !.live = FALSE]
  BY DEF Freed, h, d
<1>4. QED
  BY <1>2, <1>3 DEF ClientRec

LEMMA QuitType ==
    ASSUME NEW c \in ClientRec
    PROVE  quitUser(c) \in ClientRec /\ Calm(c, quitUser(c)) /\ quitUser(c).toquit
BY DEF quitUser, ClientRec, Calm, Later

\* A new ban makes whom it is for quit, or finds it exempt.
LEMMA AppliedType ==
    ASSUME NEW list, NEW um \in UserMode, NEW c \in ClientRec
    PROVE  /\ Applied(list, um, c) \in ClientRec
           /\ Calm(c, Applied(list, um, c))
           /\ Bans(um, c.host) => Applied(list, um, c).spared \/ Applied(list, um, c).toquit
<1> DEFINE exempt == isGlobalExcempt(list, c)
           spared == c.spared \/ exempt
           seen == [c EXCEPT !.spared = spared]
           gagged == seen.gagged \/ "g" \in um.flags
           toquit == seen.toquit \/ "b" \in um.flags
           hit == [seen EXCEPT !.gagged = gagged, !.toquit = toquit]
<1>1. spared \in BOOLEAN /\ (exempt => spared) /\ (c.spared => spared)
  OBVIOUS
<1>2. /\ seen \in ClientRec /\ Calm(c, seen) /\ (exempt => seen.spared)
      /\ seen.gagged = c.gagged /\ seen.toquit = c.toquit /\ seen.spared = spared
  <2> HIDE DEF spared, exempt
  <2>1. QED
    BY <1>1 DEF ClientRec, Calm, Later
<1>3. gagged \in BOOLEAN /\ toquit \in BOOLEAN /\ (seen.toquit => toquit)
      /\ ("b" \in um.flags => toquit)
  OBVIOUS
<1>4. hit \in ClientRec /\ Calm(c, hit) /\ ("b" \in um.flags => hit.toquit)
  <2> HIDE DEF seen, gagged, toquit
  <2>1. hit.toquit = toquit /\ hit \in ClientRec
    BY <1>2, <1>3 DEF ClientRec
  <2>2. Calm(seen, hit)
    BY <1>2, <1>3 DEF ClientRec, Calm, Later
  <2>3. QED
    BY <1>2, <1>3, <2>1, <2>2 DEF Calm, Later
<1>5. Applied(list, um, c) =
        IF exempt \/ ~usermodeMatches(c, um) \/ ("g" \in um.flags /\ c.gagged) THEN seen ELSE hit
  BY DEF Applied
<1>6. ASSUME Bans(um, c.host), ~exempt
      PROVE  Applied(list, um, c) = hit /\ "b" \in um.flags
  <2>1. usermodeMatches(c, um) /\ "g" \notin um.flags /\ "b" \in um.flags
    BY <1>6 DEF Bans, usermodeMatches
  <2> HIDE DEF seen, hit, exempt
  <2>2. QED
    BY <1>5, <1>6, <2>1
<1>7. QED
  <2> HIDE DEF seen, hit, exempt
  <2>1. QED
    BY <1>2, <1>4, <1>5, <1>6

\* Whom no user mode in force spares is not welcome where its host is banned.
LEMMA WelcomedType ==
    ASSUME usermodes_list \in Seq(Entry), NEW c \in ClientRec, c.welcomed => c.registered
    PROVE  /\ Welcomed(c) \in ClientRec /\ Later(c, Welcomed(c)) /\ Welcomed(c).registered
           /\ \/ Welcomed(c) = c
              \/ Welcomed(c).toquit \/ Welcomed(c).spared
              \/ ~\E um \in InForce(usermodes_list) : Bans(um, c.host)
<1> DEFINE exempt == isGlobalExcempt(usermodes_list, c)
           spared == c.spared \/ exempt
           seen == [c EXCEPT !.spared = spared, !.registered = TRUE]
           gags == \E um \in InForce(usermodes_list) : "g" \in um.flags /\ usermodeMatches(c, um)
           gagged == seen.gagged \/ (~exempt /\ gags)
           refused == [seen EXCEPT !.toquit = TRUE]
           taken == [seen EXCEPT !.welcomed = TRUE, !.gagged = gagged]
<1>1. CASE c.welcomed
  <2>1. Welcomed(c) = [c EXCEPT !.registered = TRUE] /\ c.registered = TRUE
    BY <1>1 DEF Welcomed, ClientRec
  <2>2. Welcomed(c) = c
    BY <2>1 DEF ClientRec
  <2>3. QED
    BY <2>1, <2>2 DEF Later
<1>2. CASE ~c.welcomed
  <2>1. spared \in BOOLEAN /\ (exempt => spared) /\ (c.spared => spared) /\ gagged \in BOOLEAN
    OBVIOUS
  <2>2. /\ seen \in ClientRec /\ Later(c, seen) /\ seen.registered
        /\ (exempt => seen.spared)
    <3> HIDE DEF spared, exempt
    <3>1. QED
      BY <2>1 DEF ClientRec, Later
  <2>3. /\ refused \in ClientRec /\ Later(c, refused) /\ refused.registered /\ refused.toquit
        /\ taken \in ClientRec /\ Later(c, taken) /\ taken.registered /\ (exempt => taken.spared)
    <3> HIDE DEF seen, gagged, exempt
    <3>1. QED
      BY <2>1, <2>2 DEF ClientRec, Later
  <2>4. Welcomed(c) =
          IF ~exempt /\ (isGlobalBanned(usermodes_list, c) \/ numUsersByIP(c.host) > MaxPerIp)
          THEN refused ELSE taken
    BY <1>2 DEF Welcomed
  <2>5. ASSUME NEW um \in InForce(usermodes_list), Bans(um, c.host)
        PROVE  isGlobalBanned(usermodes_list, c)
    BY <2>5 DEF isGlobalBanned, usermodeMatches, Bans
  <2>6. CASE ~exempt /\ (isGlobalBanned(usermodes_list, c) \/ numUsersByIP(c.host) > MaxPerIp)
    <3>1. Welcomed(c) = refused
      BY <2>4, <2>6
    <3> HIDE DEF refused, taken, exempt
    <3>2. QED
      BY <2>3, <3>1
  <2>7. CASE ~(~exempt /\ (isGlobalBanned(usermodes_list, c) \/ numUsersByIP(c.host) > MaxPerIp))
    <3>1. Welcomed(c) = taken
      BY <2>4, <2>7
    <3> HIDE DEF refused, taken, exempt
    <3>2. exempt \/ ~isGlobalBanned(usermodes_list, c)
      BY <2>7
    <3>3. QED
      BY <2>3, <2>5, <3>1, <3>2
  <2>8. QED
    BY <2>6, <2>7
<1>3. QED
  BY <1>1, <1>2

-----------------------------------------------------------------------------
(* Frames: what a step that leaves much as it is need not show again.      *)

\* Nothing but what the clients are is changed, and they stay who they were.
LEMMA LaterClients ==
    ASSUME UInv, client' \in [Slot -> ClientRec],
           \A c \in Slot : Later(client[c], client'[c])
    PROVE  /\ Listed' = Listed /\ SdsDiffer'
           /\ oper_list' = oper_list => RightsAreCurrent'
           /\ strays \subseteq strays' => ProfileIsItsOwn'
           /\ UNCHANGED <<todo, turn, stage, wire>> => InPass'
           /\ strays \subseteq strays' /\ todo' \subseteq todo =>
                \A msg : Owed(msg) => Owed(msg)'
<1>1. client \in [Slot -> ClientRec]
  BY DEF UInv, UserModesTypeOK
<1>2. Listed' = Listed
  BY DEF Listed, Later
<1>3. SdsDiffer'
  BY <1>2 DEF SdsDiffer, UInv, Listed, Later
<1>4. ASSUME oper_list' = oper_list
      PROVE  RightsAreCurrent'
  <2> SUFFICES ASSUME NEW c \in Listed', ~client'[c].toquit, client'[c].rights # {}
               PROVE  client'[c].profile # NoProfile
                      /\ oper_list'[client'[c].profile] = client'[c].rights
    BY DEF RightsAreCurrent
  <2>1. c \in Slot /\ c \in Listed /\ Later(client[c], client'[c])
    BY <1>2 DEF Listed
  <2>2. ~client[c].toquit /\ client[c].rights # {} /\ client'[c].profile = client[c].profile
        /\ client'[c].rights = client[c].rights
    BY <2>1 DEF Later
  <2>3. QED
    BY <1>4, <2>1, <2>2 DEF UInv, RightsAreCurrent
<1>5. ASSUME strays \subseteq strays'
      PROVE  ProfileIsItsOwn'
  BY <1>2, <1>5 DEF UInv, ProfileIsItsOwn, Later, Listed
<1>6. ASSUME UNCHANGED <<todo, turn, stage, wire>>
      PROVE  InPass'
  BY <1>2, <1>6 DEF UInv, InPass
<1>7. ASSUME strays \subseteq strays', todo' \subseteq todo, NEW msg, Owed(msg)
      PROVE  Owed(msg)'
  BY <1>2, <1>7 DEF Owed, Later, Listed
<1>8. QED
  BY <1>2, <1>3, <1>4, <1>5, <1>6, <1>7

\* Who was banned before is so still, and no new ban is in force.
LEMMA BansKept ==
    ASSUME UInv, client' \in [Slot -> ClientRec],
           FewerBans(usermodes_list, usermodes_list'),
           \A c \in Slot : Later(client[c], client'[c]) /\
               \/ client'[c].registered = client[c].registered
               \/ client'[c].toquit \/ client'[c].spared
               \/ ~\E um \in InForce(usermodes_list) : Bans(um, client[c].host)
    PROVE  BannedAreGone'
<1> SUFFICES ASSUME NEW c \in Listed', client'[c].registered, ~client'[c].toquit,
                    ~client'[c].spared,
                    NEW um \in InForce(usermodes_list'), Bans(um, client'[c].host)
             PROVE  FALSE
  BY DEF BannedAreGone, Bans
<1>1. c \in Slot /\ Later(client[c], client'[c]) /\ c \in Listed /\ client'[c] \in ClientRec
  BY DEF Listed, Later
<1>2. PICK um1 \in InForce(usermodes_list) : Bans(um1, client'[c].host)
  BY <1>1 DEF FewerBans, ClientRec
<1>3. client[c].registered /\ ~client[c].toquit /\ ~client[c].spared
      /\ client'[c].host = client[c].host
  BY <1>1, <1>2 DEF Later
<1>4. QED
  BY <1>1, <1>2, <1>3 DEF UInv, BannedAreGone, Bans

\* The usual step: everyone is as before, but that some have quit, are gagged or
\* found exempt.
LEMMA CalmStep ==
    ASSUME UInv, MatrixTypeOK', Answers', usermodes_list' \in Seq(Entry),
           FewerBans(usermodes_list, usermodes_list') \/ BannedAreGone',
           client' \in [Slot -> ClientRec], \A c \in Slot : Calm(client[c], client'[c]),
           UNCHANGED <<oper_list, todo, turn, stage, wire, strays>>,
           lines' \in 0 .. MaxLines, expiring' \in BOOLEAN
    PROVE  UInv'
<1>1. \A c \in Slot : Later(client[c], client'[c])
  BY DEF Calm
<1>2. Listed' = Listed /\ SdsDiffer' /\ RightsAreCurrent' /\ ProfileIsItsOwn' /\ InPass'
  BY <1>1, LaterClients
<1>3. BannedAreGone'
  BY <1>1, BansKept DEF Calm
<1>4. Welcomes'
  BY <1>2 DEF UInv, Welcomes, Calm, Listed
<1>5. UserModesTypeOK'
  BY DEF UInv, UserModesTypeOK
<1>6. QED
  BY <1>2, <1>3, <1>4, <1>5 DEF UInv

LEMMA SameBans ==
    ASSUME NEW list
    PROVE  FewerBans(list, list)
BY DEF FewerBans

LEMMA SameClients ==
    ASSUME client \in [Slot -> ClientRec]
    PROVE  \A c \in Slot : Calm(client[c], client[c])
BY DEF Calm, Later

-----------------------------------------------------------------------------
(* The database.                                                           *)

LEMMA ToldType ==
    ASSUME NEW msg \in Message \union {NoCall}
    PROVE  Told(msg) \subseteq Id \union Profile
BY DEF Told, Message

\* A procedure that tells of a table, in the session s.
LEMMA BeginType ==
    ASSUME MatrixTypeOK, NEW s \in Session, NEW msg \in Message, Begin(s, msg)
    PROVE  /\ pending' \in [Session -> Message \union {NoCall}] /\ pending'[s] = msg
           /\ \A other \in Session \ {s} : pending'[other] = pending[other]
           /\ astray' \subseteq Id \union Profile
           /\ pending[s] = NoCall
BY ToldType DEF MatrixTypeOK, Begin, Idle

\* What every procedure does that changes a table.
Procedure(s) ==
    \/ \E p \in Profile, r \in Mask : SetGlobalOper(s, p, r)
    \/ \E p \in Profile : DelGlobalOper(s, p)
    \/ \E um \in UserMode : SetUserMode(s, um)
    \/ \E n \in Id : DelUserMode(s, n)

LEMMA ProcedureType ==
    ASSUME MatrixTypeOK, NEW s \in Session, Procedure(s), UNCHANGED <<use, wire, stage>>
    PROVE  /\ MatrixTypeOK' /\ pending[s] = NoCall
           /\ pending'[s] \in Message /\ pending'[s].id # "AuthClient"
           /\ \A other \in Session \ {s} : pending'[other] = pending[other]
<1>1. CASE \E p \in Profile, r \in Mask : SetGlobalOper(s, p, r)
  <2>1. PICK p \in Profile, r \in Mask : SetGlobalOper(s, p, r)
    BY <1>1
  <2> DEFINE msg == [id |-> "AddOper", key |-> p, rights |-> r]
  <2>2. msg \in Message /\ msg.id # "AuthClient"
    BY DEF Message
  <2>3. Begin(s, msg) /\ globalopers' = [globalopers EXCEPT ![p] = r]
        /\ UNCHANGED <<chanusermodes, lastid>>
    BY <2>1 DEF SetGlobalOper
  <2> HIDE DEF msg
  <2>4. QED
    BY <2>2, <2>3, BeginType DEF MatrixTypeOK
<1>2. CASE \E p \in Profile : DelGlobalOper(s, p)
  <2>1. PICK p \in Profile : DelGlobalOper(s, p)
    BY <1>2
  <2> DEFINE msg == [id |-> "DelOper", key |-> p]
  <2>2. msg \in Message /\ msg.id # "AuthClient"
    BY DEF Message
  <2>3. Begin(s, msg) /\ globalopers' = [globalopers EXCEPT ![p] = NoOper]
        /\ UNCHANGED <<chanusermodes, lastid>>
    BY <2>1 DEF DelGlobalOper
  <2> HIDE DEF msg
  <2>4. QED
    BY <2>2, <2>3, BeginType DEF MatrixTypeOK
<1>3. CASE \E um \in UserMode : SetUserMode(s, um)
  <2>1. PICK um \in UserMode : SetUserMode(s, um)
    BY <1>3
  <2> DEFINE n == lastid + 1
             msg == [id |-> "SetUserMode", key |-> n, um |-> um]
  <2>2. n \in Id /\ n \in 1..n /\ lastid \in 0..MaxId /\ 1..lastid \subseteq 1..n
    <3>1. use.ids \in 0..MaxId
      BY MatrixAssumption DEF MatrixTypeOK
    <3>2. QED
      BY <2>1, <3>1, MatrixAssumption DEF SetUserMode, MatrixTypeOK, Id
  <2>3. msg \in Message /\ msg.id # "AuthClient"
    BY <2>2 DEF Message
  <2>4. Begin(s, msg) /\ lastid' = n
        /\ chanusermodes' = [k \in DOMAIN chanusermodes \union {n} |->
                                IF k = n THEN um ELSE chanusermodes[k]]
        /\ UNCHANGED globalopers
    BY <2>1 DEF SetUserMode
  <2> HIDE DEF msg, n
  <2>5. DOMAIN chanusermodes' \subseteq 1..n
        /\ \A k \in DOMAIN chanusermodes' : chanusermodes'[k] \in UserMode
    BY <2>2, <2>4 DEF MatrixTypeOK
  <2>6. QED
    BY <2>2, <2>3, <2>4, <2>5, BeginType DEF MatrixTypeOK, Id
<1>4. CASE \E n \in Id : DelUserMode(s, n)
  <2>1. PICK n \in Id : DelUserMode(s, n)
    BY <1>4
  <2> DEFINE msg == [id |-> "DelUserMode", key |-> n]
  <2>2. msg \in Message /\ msg.id # "AuthClient"
    BY DEF Message
  <2>3. Begin(s, msg)
        /\ chanusermodes' = [k \in DOMAIN chanusermodes \ {n} |-> chanusermodes[k]]
        /\ UNCHANGED <<lastid, globalopers>>
    BY <2>1 DEF DelUserMode
  <2> HIDE DEF msg
  <2>4. QED
    BY <2>2, <2>3, BeginType DEF MatrixTypeOK
<1>5. QED
  BY <1>1, <1>2, <1>3, <1>4 DEF Procedure

\* Datagrams about the tables do not concern the logins that are owed.
LEMMA ProcedureAnswers ==
    ASSUME UInv, NEW s \in Session, Procedure(s), UNCHANGED <<use, wire, stage>>,
           \A msg : Owed(msg) => Owed(msg)', strays' = strays
    PROVE  MatrixTypeOK' /\ Answers'
<1>1. /\ MatrixTypeOK' /\ pending'[s] \in Message /\ pending'[s].id # "AuthClient"
      /\ \A other \in Session \ {s} : pending'[other] = pending[other]
  BY ProcedureType DEF UInv, UserModesTypeOK
<1>2. ASSUME NEW i \in DOMAIN wire
      PROVE  wire[i] # NoCall /\ Owed(wire[i])'
  <2>1. wire[i] # NoCall /\ Owed(wire[i])
    BY DEF UInv, Answers
  <2>2. \A msg : msg = wire[i] => Owed(msg)'
    BY <2>1
  <2>3. QED
    BY <2>1, <2>2 DEF Owed
<1>3. Owed(pending["server"])'
  <2>1. CASE s = "server"
    BY <1>1, <2>1 DEF Owed
  <2>2. CASE s # "server"
    <3>1. pending'["server"] = pending["server"] /\ Owed(pending["server"])
      BY <1>1, <2>2 DEF UInv, Answers, Session
    <3>2. \A msg : msg = pending["server"] => Owed(msg)'
      BY <3>1
    <3>3. QED
      BY <3>1, <3>2 DEF Owed
  <2>3. QED
    BY <2>1, <2>2
<1>4. ASSUME NEW other \in Session \ {"server"}
      PROVE  Stray(pending[other])'
  BY <1>1 DEF UInv, Answers, Stray
<1>5. QED
  BY <1>1, <1>2, <1>3, <1>4 DEF Answers

-----------------------------------------------------------------------------
(* Start, end, and the network.                                            *)

\* Without clients there is nothing to be said of them.
LEMMA NobodyStep ==
    ASSUME Listed' = {}, InPass', Answers', UserModesTypeOK'
    PROVE  UInv'
BY DEF UInv, SdsDiffer, Welcomes, RightsAreCurrent, ProfileIsItsOwn, BannedAreGone

LEMMA AnswersKept ==
    ASSUME UInv, UNCHANGED <<wire, pending, strays>>, \A msg : Owed(msg) => Owed(msg)'
    PROVE  Answers'
<1>1. ASSUME NEW i \in DOMAIN wire
      PROVE  wire[i] # NoCall /\ Owed(wire[i])'
  <2>1. wire[i] # NoCall /\ Owed(wire[i])
    BY DEF UInv, Answers
  <2>2. \A msg : msg = wire[i] => Owed(msg)'
    BY <2>1
  <2>3. QED
    BY <2>1, <2>2 DEF Owed
<1>2. Owed(pending["server"])'
  <2>1. Owed(pending["server"])
    BY DEF UInv, Answers
  <2>2. \A msg : msg = pending["server"] => Owed(msg)'
    BY <2>1
  <2>3. QED
    BY <2>2 DEF Owed
<1>3. QED
  BY <1>1, <1>2 DEF UInv, Answers, Stray

LEMMA OwedKept ==
    ASSUME UInv, strays \subseteq strays', todo' \subseteq todo, client' = client
    PROVE  \A msg : Owed(msg) => Owed(msg)'
BY DEF Owed, Listed

LEMMA StartSound ==
    ASSUME UInv, start \/ loadUserModes \/ loadOpers \/ setupQueueListener
    PROVE  UInv'
<1> USE DEF serverVars, loop, tables
<1>1. /\ stage # "up" /\ stage' \in Stage
      /\ UNCHANGED <<use, tables, pending, wire, client, loop, strays>>
  BY DEF start, loadUserModes, loadOpers, setupQueueListener, Stage
<1>2. Listed = {} /\ Listed' = {} /\ InPass'
  BY <1>1 DEF UInv, InPass, Listed
<1>3. Answers'
  BY <1>1, AnswersKept, OwedKept
<1>4. astray' \subseteq Id \union Profile
  BY DEF UInv, UserModesTypeOK, MatrixTypeOK, start, loadUserModes, loadOpers, setupQueueListener
<1>5. MatrixTypeOK'
  BY <1>1, <1>4 DEF UInv, UserModesTypeOK, MatrixTypeOK
<1>6. usermodes_list' \in Seq(Entry)
  <2>1. CASE ~loadUserModes
    BY <2>1 DEF start, loadOpers, setupQueueListener, UInv, UserModesTypeOK
  <2>2. CASE loadUserModes
    <3> DEFINE D == DOMAIN chanusermodes
    <3>1. /\ D \subseteq 1..lastid /\ lastid \in 0..MaxId
          /\ \A n \in D : chanusermodes[n] \in UserMode
      BY DEF UInv, UserModesTypeOK, MatrixTypeOK
    <3>2. D \subseteq Id /\ IsFiniteSet(D)
      <4>1. lastid \in Int /\ 1 \in Int
        BY <3>1, MatrixAssumption
      <4>2. IsFiniteSet(1..lastid)
        BY <4>1, FS_Interval
      <4>3. QED
        BY <3>1, <4>2, FS_Subset, MatrixAssumption DEF Id
    <3>3. Cardinality(D) \in Nat
      BY <3>2, FS_CardinalityType
    <3>4. PICK ids \in SetToSeqs(D) :
            usermodes_list' = [i \in DOMAIN ids |->
                [id |-> ids[i], um |-> chanusermodes[ids[i]], isGlobal |-> TRUE]]
      BY <2>2 DEF loadUserModes
    <3>5. ids \in [1..Cardinality(D) -> D]
      BY <3>4 DEF SetToSeqs
    <3>6. \A i \in 1..Cardinality(D) :
            [id |-> ids[i], um |-> chanusermodes[ids[i]], isGlobal |-> TRUE] \in Entry
      BY <3>1, <3>2, <3>5 DEF Entry
    <3> HIDE DEF D
    <3>7. usermodes_list' \in [1..Cardinality(D) -> Entry]
      BY <3>4, <3>5, <3>6
    <3>8. QED
      BY <3>3, <3>7
  <2>3. QED
    BY <2>1, <2>2
<1>7. oper_list' \in [Profile -> Mask \union {NoOper}]
  BY DEF UInv, UserModesTypeOK, MatrixTypeOK, start, loadUserModes, loadOpers, setupQueueListener
<1>8. UserModesTypeOK'
  BY <1>1, <1>5, <1>6, <1>7 DEF UInv, UserModesTypeOK
<1>9. QED
  BY <1>2, <1>3, <1>8, NobodyStep

LEMMA CrashSound ==
    ASSUME UInv, crash
    PROVE  UInv'
<1>1. /\ stage' = "down" /\ wire' = <<>> /\ usermodes_list' = <<>>
      /\ oper_list' = [p \in Profile |-> NoOper] /\ client' = [c \in Slot |-> Freed]
      /\ todo' = {} /\ turn' = NoSlot /\ lines' = 0 /\ expiring' = FALSE
      /\ pending' = [pending EXCEPT !["old"] = pending["server"], !["server"] = NoCall]
      /\ UNCHANGED <<use, tables, astray>>
  BY DEF crash
<1>2. pending \in [Session -> Message \union {NoCall}] /\ strays \subseteq Profile
  BY DEF UInv, UserModesTypeOK, MatrixTypeOK
<1>3. Listed' = {}
  BY <1>1, FreedType DEF Listed
<1>4. InPass'
  BY <1>1, <1>3 DEF InPass
<1>5. strays \subseteq strays' /\ strays' \subseteq Profile
      /\ (pending["server"] # NoCall /\ pending["server"].id = "AuthClient" =>
             pending["server"].key \in strays' \union {NoProfile})
  <2>1. CASE Idle("server") \/ pending["server"].id # "AuthClient"
    BY <1>2, <2>1 DEF crash, Idle
  <2>2. CASE ~(Idle("server") \/ pending["server"].id # "AuthClient")
    <3>1. strays' = strays \union ({pending["server"].key} \ {NoProfile})
      BY <2>2 DEF crash
    <3>2. pending["server"] \in Message /\ pending["server"].id = "AuthClient"
      BY <1>2, <2>2 DEF Idle, Session
    <3>3. pending["server"].key \in Profile \union {NoProfile}
      BY <3>2 DEF Message
    <3>4. QED
      BY <1>2, <3>1, <3>3
  <2>3. QED
    BY <2>1, <2>2
<1>6. Answers'
  <2>1. pending'["server"] = NoCall /\ pending'["old"] = pending["server"]
        /\ \A s \in Session \ {"server", "old"} : pending'[s] = pending[s]
    BY <1>1, <1>2 DEF Session
  <2>2. DOMAIN wire' = {}
    BY <1>1
  <2>3. Owed(pending["server"])'
    BY <2>1 DEF Owed
  <2>4. ASSUME NEW s \in Session \ {"server"}
        PROVE  Stray(pending[s])'
    <3>1. CASE s = "old"
      BY <1>5, <2>1, <3>1 DEF Stray
    <3>2. CASE s # "old"
      BY <1>5, <2>1, <3>2 DEF Stray, UInv, Answers
    <3>3. QED
      BY <3>1, <3>2
  <2>5. QED
    BY <2>2, <2>3, <2>4 DEF Answers
<1>7. UserModesTypeOK'
  <2>1. pending' \in [Session -> Message \union {NoCall}]
    BY <1>1, <1>2 DEF Session
  <2>2. wire' \in Seq(Message) /\ Len(wire') <= MaxWire /\ usermodes_list' \in Seq(Entry)
    BY <1>1, MatrixAssumption
  <2>3. client' \in [Slot -> ClientRec] /\ stage' \in Stage
    BY <1>1, FreedType DEF Stage
  <2>4. lines' \in 0..MaxLines
    BY <1>1, UserModesAssumption
  <2>5. QED
    BY <1>1, <1>5, <2>1, <2>2, <2>3, <2>4 DEF UInv, UserModesTypeOK, MatrixTypeOK, tables
<1>8. QED
  BY <1>3, <1>4, <1>6, <1>7, NobodyStep

\* What is received was not idle, and is owed, by the server's session or another's.
LEMMA MatrixqueueSound ==
    ASSUME UInv, NEW s \in Session, matrixqueue(s), UNCHANGED serverVars
    PROVE  UInv'
<1>1. /\ pending \in [Session -> Message \union {NoCall}] /\ wire \in Seq(Message)
      /\ pending[s] \in Message /\ pending[s] # NoCall /\ Len(wire) <= MaxWire
      /\ pending' = [pending EXCEPT ![s] = NoCall]
      /\ UNCHANGED <<use, tables, stage>>
  BY DEF UInv, UserModesTypeOK, MatrixTypeOK, matrixqueue, Idle
<1>2. /\ UNCHANGED <<usermodes_list, oper_list, client, todo, turn, lines, expiring, strays>>
      /\ Listed' = Listed
  BY DEF serverVars, Listed
<1>3. \A msg : Owed(msg) <=> Owed(msg)'
  BY <1>2 DEF Owed
<1>4. Owed(pending[s])
  <2>1. CASE s = "server"
    BY <2>1 DEF UInv, Answers
  <2>2. CASE s # "server"
    BY <2>2 DEF UInv, Answers, Stray, Owed
  <2>3. QED
    BY <2>1, <2>2
<1>5. /\ wire' \in Seq(Message) /\ Len(wire') <= MaxWire /\ (stage' # "up" => wire' = wire)
      /\ \A i \in DOMAIN wire' : wire'[i] = pending[s] \/ (i \in DOMAIN wire /\ wire'[i] = wire[i])
  <2>1. CASE Received
    <3>1. wire' = Append(wire, pending[s]) /\ stage = "up" /\ Len(wire) < MaxWire
      BY <2>1 DEF matrixqueue, Received
    <3>2. /\ wire' \in Seq(Message) /\ Len(wire') = Len(wire) + 1
          /\ DOMAIN wire' = 1..(Len(wire) + 1) /\ DOMAIN wire = 1..Len(wire) /\ Len(wire) \in Nat
          /\ \A i \in 1..Len(wire) : wire'[i] = wire[i]
          /\ wire'[Len(wire) + 1] = pending[s]
      BY <1>1, <3>1, AppendProperties, LenProperties
    <3>3. Len(wire') <= MaxWire
      BY <3>1, <3>2, MatrixAssumption
    <3>4. QED
      BY <1>1, <3>1, <3>2, <3>3
  <2>2. CASE ~Received
    BY <1>1, <2>2 DEF matrixqueue
  <2>3. QED
    BY <2>1, <2>2
<1>6. Answers'
  <2>1. ASSUME NEW i \in DOMAIN wire'
        PROVE  (wire[i] # NoCall /\ Owed(wire[i]))'
    <3>1. PICK msg : msg = wire'[i] /\ msg # NoCall /\ Owed(msg)
      BY <1>1, <1>4, <1>5 DEF UInv, Answers
    <3>2. Owed(msg)'
      BY <1>3, <3>1
    <3>3. QED
      BY <3>1, <3>2 DEF Owed
  <2>2. Owed(pending["server"])'
    <3>1. CASE s = "server"
      BY <1>1, <3>1 DEF Owed, Session
    <3>2. CASE s # "server"
      <4>1. pending'["server"] = pending["server"]
        BY <1>1, <3>2 DEF Session
      <4>2. \A msg : msg = pending["server"] => Owed(msg)'
        BY <1>3 DEF UInv, Answers
      <4>3. QED
        BY <4>1, <4>2 DEF Owed
    <3>3. QED
      BY <3>1, <3>2
  <2>3. ASSUME NEW other \in Session \ {"server"}
        PROVE  Stray(pending[other])'
    BY <1>1, <1>2 DEF UInv, Answers, Stray
  <2>4. QED
    BY <2>1, <2>2, <2>3 DEF Answers
<1>7. MatrixTypeOK'
  <2>1. astray' \subseteq Id \union Profile
    BY <1>1, ToldType DEF matrixqueue, UInv, UserModesTypeOK, MatrixTypeOK
  <2>2. QED
    BY <1>1, <1>5, <2>1 DEF UInv, UserModesTypeOK, MatrixTypeOK, tables
<1>8. UserModesTypeOK'
  BY <1>2, <1>7 DEF UInv, UserModesTypeOK
<1>9. InPass'
  BY <1>1, <1>2, <1>5 DEF UInv, InPass
<1>10. SdsDiffer' /\ Welcomes' /\ RightsAreCurrent' /\ ProfileIsItsOwn' /\ BannedAreGone'
  BY <1>2 DEF UInv, SdsDiffer, Welcomes, RightsAreCurrent, ProfileIsItsOwn, BannedAreGone, Listed
<1>11. QED
  BY <1>6, <1>8, <1>9, <1>10 DEF UInv

LEMMA PanelSound ==
    ASSUME UInv, NEW s \in Panel, panel(s), UNCHANGED serverVars
    PROVE  UInv'
<1>1. /\ UNCHANGED <<usermodes_list, oper_list, client, todo, turn, lines, expiring, strays>>
      /\ UNCHANGED <<use, wire, stage>>
  BY DEF serverVars, panel
<1>2. s \in Session /\ Procedure(s)
  <2>1. /\ use.forms \subseteq UserMode /\ use.rights \subseteq Mask /\ 1..lastid \subseteq Id
    BY MatrixAssumption DEF UInv, UserModesTypeOK, MatrixTypeOK, Id
  <2>2. QED
    BY <2>1 DEF panel, Procedure, Session
<1>3. \A msg : Owed(msg) => Owed(msg)'
  BY <1>1, OwedKept
<1>4. MatrixTypeOK' /\ Answers'
  BY <1>1, <1>2, <1>3, ProcedureAnswers
<1>5. client' \in [Slot -> ClientRec] /\ \A c \in Slot : Calm(client[c], client'[c])
  BY <1>1, SameClients DEF UInv, UserModesTypeOK
<1>6. FewerBans(usermodes_list, usermodes_list')
  BY <1>1, SameBans
<1>7. QED
  BY <1>1, <1>4, <1>5, <1>6, CalmStep DEF UInv, UserModesTypeOK

-----------------------------------------------------------------------------
(* The queue.                                                              *)

LEMMA SomeQuit ==
    ASSUME client \in [Slot -> ClientRec], NEW p, resetByProfileID(p)
    PROVE  /\ client' \in [Slot -> ClientRec]
           /\ \A c \in Slot : Calm(client[c], client'[c])
           /\ \A c \in Listed : client[c].profile = p => client'[c].toquit
<1>1. \A c \in Slot : client'[c] = IF client[c].live /\ client[c].profile = p
                                   THEN quitUser(client[c]) ELSE client[c]
  BY DEF resetByProfileID
<1>2. \A c \in Slot : client'[c] \in ClientRec /\ Calm(client[c], client'[c])
  BY <1>1, QuitType, SameClients
<1>3. QED
  BY <1>1, <1>2, QuitType DEF resetByProfileID, Listed

\* Whoever has rights from the list's entry is made to quit when it changes.
LEMMA OperSound ==
    ASSUME UInv, NEW msg \in Message, addOper(msg) \/ delOper(msg),
           UNCHANGED <<strays, todo, turn>>
    PROVE  /\ client' \in [Slot -> ClientRec] /\ \A c \in Slot : Calm(client[c], client'[c])
           /\ oper_list' \in [Profile -> Mask \union {NoOper}] /\ usermodes_list' = usermodes_list
           /\ RightsAreCurrent'
<1> DEFINE p == msg.key
           new == IF msg.id = "AddOper" THEN msg.rights ELSE NoOper
<1>1. /\ client \in [Slot -> ClientRec] /\ oper_list \in [Profile -> Mask \union {NoOper}]
  BY DEF UInv, UserModesTypeOK
<1>2. p \in Profile /\ new \in Mask \union {NoOper}
  BY DEF addOper, delOper, Message
<1>3. oper_list' = [oper_list EXCEPT ![p] = new] /\ usermodes_list' = usermodes_list
  BY DEF addOper, delOper
<1>4. IF oper_list[p] = NoOper THEN UNCHANGED client ELSE resetByProfileID(p)
  BY DEF addOper, delOper
<1> HIDE DEF p, new
<1>5. /\ client' \in [Slot -> ClientRec] /\ \A c \in Slot : Calm(client[c], client'[c])
      /\ oper_list[p] # NoOper => \A c \in Listed : client[c].profile = p => client'[c].toquit
  BY <1>1, <1>4, SomeQuit, SameClients
<1>6. RightsAreCurrent'
  <2> SUFFICES ASSUME NEW c \in Listed', ~client'[c].toquit, client'[c].rights # {}
               PROVE  client'[c].profile # NoProfile
                      /\ oper_list'[client'[c].profile] = client'[c].rights
    BY DEF RightsAreCurrent
  <2>1. /\ c \in Listed /\ ~client[c].toquit /\ client[c].profile = client'[c].profile
        /\ client[c].rights = client'[c].rights /\ client[c] \in ClientRec
    BY <1>1, <1>5 DEF Listed, Calm, Later
  <2>2. client[c].profile # NoProfile /\ oper_list[client[c].profile] = client[c].rights
    BY <2>1 DEF UInv, RightsAreCurrent
  <2>3. client[c].rights # NoOper /\ client[c].profile \in Profile
    BY <2>1, <2>2, MatrixAssumption DEF ClientRec
  <2>4. client[c].profile # p
    BY <1>5, <2>1, <2>2, <2>3
  <2>5. QED
    BY <1>1, <1>2, <1>3, <2>1, <2>2, <2>3, <2>4
<1>7. QED
  BY <1>1, <1>2, <1>3, <1>5, <1>6

LEMMA DropType ==
    ASSUME UInv, NEW e, Drop(e)
    PROVE  /\ client' \in [Slot -> ClientRec] /\ \A c \in Slot : Calm(client[c], client'[c])
           /\ usermodes_list' \in Seq(Entry) /\ FewerBans(usermodes_list, usermodes_list')
<1>1. client \in [Slot -> ClientRec] /\ usermodes_list \in Seq(Entry)
  BY DEF UInv, UserModesTypeOK
<1>2. PICK i \in DOMAIN usermodes_list : usermodes_list' = RemoveAt(usermodes_list, i)
  BY DEF Drop
<1>3. usermodes_list' \in Seq(Entry)
      /\ \A j \in DOMAIN usermodes_list' :
            \E k \in DOMAIN usermodes_list : usermodes_list'[j] = usermodes_list[k]
  BY <1>1, <1>2, RemoveAtType
<1>4. InForce(usermodes_list') \subseteq InForce(usermodes_list)
  BY <1>3 DEF InForce
<1>5. FewerBans(usermodes_list, usermodes_list')
  BY <1>4 DEF FewerBans
<1>6. client' \in [Slot -> ClientRec] /\ \A c \in Slot : Calm(client[c], client'[c])
  <2>1. CASE Listed = {}
    BY <1>1, <2>1, SameClients DEF Drop
  <2>2. CASE Listed # {}
    <3>1. PICK c \in Listed :
            client' = [client EXCEPT ![c].gagged =
                          @ /\ ~("g" \in e.um.flags /\ usermodeMatches(client[c], e.um))]
      BY <2>2 DEF Drop
    <3> DEFINE x == client[c].gagged /\ ~("g" \in e.um.flags /\ usermodeMatches(client[c], e.um))
               k == [client[c] EXCEPT !.gagged = x]
    <3>2. client' = [client EXCEPT ![c] = k] /\ x \in BOOLEAN
      BY <3>1
    <3>3. c \in Slot /\ client[c] \in ClientRec
      BY <1>1 DEF Listed
    <3>4. k \in ClientRec /\ Calm(client[c], k)
      <4> HIDE DEF x
      <4>1. QED
        BY <3>2, <3>3 DEF ClientRec, Calm, Later
    <3> HIDE DEF k
    <3>5. QED
      BY <1>1, <3>2, <3>3, <3>4, SameClients
  <2>3. QED
    BY <2>1, <2>2
<1>7. QED
  BY <1>3, <1>5, <1>6

\* A user mode is put on the list and applied to everyone.
LEMMA NewModeSound ==
    ASSUME UInv, NEW e \in Entry, usermodes_list' = Append(usermodes_list, e),
           applyUserMode(usermodes_list', e.um)
    PROVE  /\ client' \in [Slot -> ClientRec] /\ \A c \in Slot : Calm(client[c], client'[c])
           /\ usermodes_list' \in Seq(Entry) /\ BannedAreGone'
<1>1. client \in [Slot -> ClientRec] /\ usermodes_list \in Seq(Entry) /\ e.um \in UserMode
  BY DEF UInv, UserModesTypeOK, Entry
<1>2. usermodes_list' \in Seq(Entry) /\ InForce(usermodes_list') = InForce(usermodes_list) \union {e.um}
  BY <1>1, AppendForce
<1>3. PICK list : list = usermodes_list'
  OBVIOUS
<1>4. client' = [c \in Slot |-> IF client[c].live THEN Applied(list, e.um, client[c]) ELSE client[c]]
  BY <1>3 DEF applyUserMode
<1>5. ASSUME NEW c \in Slot
      PROVE  /\ client'[c] \in ClientRec /\ Calm(client[c], client'[c])
             /\ client[c].live /\ Bans(e.um, client[c].host) => client'[c].spared \/ client'[c].toquit
  BY <1>1, <1>4, AppliedType, SameClients
<1>6. client' \in [Slot -> ClientRec]
  BY <1>4, <1>5
<1>7. BannedAreGone'
  <2> SUFFICES ASSUME NEW c \in Listed', client'[c].registered, ~client'[c].toquit,
                      ~client'[c].spared,
                      NEW um \in InForce(usermodes_list'), Bans(um, client'[c].host)
               PROVE  FALSE
    BY DEF BannedAreGone, Bans
  <2>1. /\ c \in Slot /\ c \in Listed /\ client[c].live /\ client[c].host = client'[c].host
        /\ client[c].registered /\ ~client[c].toquit /\ ~client[c].spared
    BY <1>5 DEF Listed, Calm, Later
  <2>2. um # e.um
    BY <1>5, <2>1
  <2>3. um \in InForce(usermodes_list)
    BY <1>2, <2>2
  <2>4. QED
    BY <2>1, <2>3 DEF UInv, BannedAreGone, Bans
<1>8. QED
  BY <1>2, <1>5, <1>6, <1>7

\* The descriptor is that of the client that asked, or the login is a stray one.
LEMMA AuthSound ==
    ASSUME UInv, NEW msg \in Message, msg # NoCall, Owed(msg), authClient(msg),
           UNCHANGED <<strays, todo>>
    PROVE  /\ client' \in [Slot -> ClientRec] /\ Listed' = Listed /\ SdsDiffer'
           /\ RightsAreCurrent' /\ ProfileIsItsOwn' /\ BannedAreGone' /\ Welcomes'
           /\ \A m : Owed(m) => Owed(m)'
<1> DEFINE p == msg.key
           rights == IF oper_list[p] = NoOper THEN {} ELSE oper_list[p]
           hit(c) == client[c].live /\ client[c].sd = msg.sd /\ p # NoProfile
<1>1. /\ client \in [Slot -> ClientRec] /\ oper_list \in [Profile -> Mask \union {NoOper}]
      /\ p \in Profile \union {NoProfile} /\ msg.id = "AuthClient"
      /\ UNCHANGED <<usermodes_list, oper_list>>
  BY DEF UInv, UserModesTypeOK, authClient, Message
<1>2. p # NoProfile => rights \in Mask /\ (rights # {} => oper_list[p] = rights)
  BY <1>1, MatrixAssumption
<1>3. ASSUME NEW c \in Slot
      PROVE  /\ hit(c) => client'[c] = [client[c] EXCEPT !.profile = p, !.rights = rights]
             /\ ~hit(c) => client'[c] = client[c]
  BY DEF authClient
<1> HIDE DEF p, rights
<1>4. ASSUME NEW c \in Slot
      PROVE  /\ client'[c] \in ClientRec
             /\ client'[c].live = client[c].live /\ client'[c].sd = client[c].sd
             /\ client'[c].host = client[c].host /\ client'[c].asked = client[c].asked
             /\ client'[c].toquit = client[c].toquit /\ client'[c].spared = client[c].spared
             /\ client'[c].registered = client[c].registered
             /\ client'[c].welcomed = client[c].welcomed
             /\ hit(c) => client'[c].profile = p /\ client'[c].rights = rights
  <2>1. client[c] \in ClientRec
    BY <1>1
  <2>2. CASE hit(c)
    <3>1. /\ client'[c] = [client[c] EXCEPT !.profile = p, !.rights = rights]
          /\ p \in Profile \union {NoProfile} /\ rights \in Mask
      BY <1>1, <1>2, <1>3, <2>2
    <3>2. PICK k : k = client[c]
      OBVIOUS
    <3>3. [k EXCEPT !.profile = p, !.rights = rights] \in ClientRec
      BY <2>1, <3>1, <3>2 DEF ClientRec
    <3>4. QED
      BY <2>1, <3>1, <3>2, <3>3 DEF ClientRec
  <2>3. CASE ~hit(c)
    BY <1>3, <2>1, <2>3
  <2>4. QED
    BY <2>2, <2>3
<1>5. client' \in [Slot -> ClientRec]
  BY <1>4 DEF authClient
<1>6. Listed' = Listed
  BY <1>4 DEF Listed
<1>7. SdsDiffer' /\ Welcomes'
  BY <1>4, <1>6 DEF UInv, SdsDiffer, Welcomes, Listed
<1>8. BannedAreGone'
  BY <1>1, <1>4, <1>6 DEF UInv, BannedAreGone, Listed
<1>9. \A m : Owed(m) => Owed(m)'
  BY <1>4, <1>6 DEF Owed, Listed
<1>10. RightsAreCurrent'
  <2> SUFFICES ASSUME NEW c \in Listed', ~client'[c].toquit, client'[c].rights # {}
               PROVE  client'[c].profile # NoProfile
                      /\ oper_list'[client'[c].profile] = client'[c].rights
    BY DEF RightsAreCurrent
  <2>1. c \in Slot /\ c \in Listed
    BY <1>6 DEF Listed
  <2>2. CASE hit(c)
    BY <1>1, <1>2, <1>4, <2>1, <2>2
  <2>3. CASE ~hit(c)
    BY <1>1, <1>3, <2>1, <2>3 DEF UInv, RightsAreCurrent
  <2>4. QED
    BY <2>2, <2>3
<1>11. ProfileIsItsOwn'
  <2> SUFFICES ASSUME NEW c \in Listed'
               PROVE  client'[c].profile \in client'[c].asked \union strays' \union {NoProfile}
    BY DEF ProfileIsItsOwn
  <2>1. c \in Slot /\ c \in Listed
    BY <1>6 DEF Listed
  <2>2. CASE hit(c)
    <3>1. client'[c].profile = p /\ p # NoProfile /\ client[c].sd = msg.sd
      BY <1>4, <2>1, <2>2
    <3>2. p \in strays \/ \E d \in Listed \ todo : client[d].sd = msg.sd /\ p \in client[d].asked
      BY <1>1, <3>1 DEF Owed, p
    <3>3. p \in strays \/ p \in client[c].asked
      BY <2>1, <3>1, <3>2 DEF UInv, SdsDiffer
    <3>4. QED
      BY <1>4, <2>1, <3>1, <3>3
  <2>3. CASE ~hit(c)
    BY <1>3, <1>4, <2>1, <2>3 DEF UInv, ProfileIsItsOwn
  <2>4. QED
    BY <2>2, <2>3
<1>12. QED
  BY <1>5, <1>6, <1>7, <1>8, <1>9, <1>10, <1>11

\* The datagram at the head of the queue has been taken off.
LEMMA QueueSound ==
    ASSUME UInv, processQueue
    PROVE  UInv'
<1> DEFINE msg == Head(wire)
<1>1. /\ wire \in Seq(Message) /\ wire # <<>> /\ wire' = Tail(wire) /\ stage = "up"
      /\ usermodes_list \in Seq(Entry) /\ client \in [Slot -> ClientRec]
      /\ oper_list \in [Profile -> Mask \union {NoOper}] /\ Len(wire) <= MaxWire
      /\ UNCHANGED <<use, tables, pending, stage, astray, todo, turn, lines, expiring, strays>>
  BY DEF UInv, UserModesTypeOK, MatrixTypeOK, processQueue, loop, Between, Running
<1>2. /\ msg \in Message /\ msg = wire[1] /\ wire' \in Seq(Message)
      /\ Len(wire) \in Nat /\ Len(wire') = Len(wire) - 1 /\ 1 \in DOMAIN wire
      /\ \A i \in DOMAIN wire' : i + 1 \in DOMAIN wire /\ wire'[i] = wire[i + 1]
  BY <1>1, HeadTailProperties, LenProperties, EmptySeq
<1>3. msg # NoCall /\ Owed(msg)
  <2>1. wire[1] # NoCall /\ Owed(wire[1])
    BY <1>2 DEF UInv, Answers
  <2>2. QED
    BY <1>2, <2>1
<1>4. addOper(msg) \/ delOper(msg) \/ setUserMode(msg) \/ delUserMode(msg) \/ authClient(msg)
  BY DEF processQueue
<1> HIDE DEF msg
<1>5. MatrixTypeOK'
  BY <1>1, <1>2, MatrixAssumption DEF UInv, UserModesTypeOK, MatrixTypeOK, tables
<1>6. ASSUME \A m : Owed(m) => Owed(m)'
      PROVE  Answers'
  <2>1. ASSUME NEW i \in DOMAIN wire'
        PROVE  (wire[i] # NoCall /\ Owed(wire[i]))'
    <3>1. PICK m : m = wire'[i] /\ m # NoCall /\ Owed(m)
      BY <1>2 DEF UInv, Answers
    <3>2. Owed(m)'
      BY <1>6, <3>1
    <3>3. QED
      BY <3>1, <3>2 DEF Owed
  <2>2. Owed(pending["server"])'
    <3>1. \A m : m = pending["server"] => Owed(m)'
      BY <1>6 DEF UInv, Answers
    <3>2. QED
      BY <1>1, <3>1 DEF Owed
  <2>3. \A s \in Session \ {"server"} : Stray(pending[s])'
    BY <1>1 DEF UInv, Answers, Stray
  <2>4. QED
    BY <2>1, <2>2, <2>3 DEF Answers
<1>7. ASSUME Listed' = Listed
      PROVE  InPass'
  BY <1>1, <1>7 DEF UInv, InPass
<1>8. ASSUME client' \in [Slot -> ClientRec], usermodes_list' \in Seq(Entry),
             oper_list' \in [Profile -> Mask \union {NoOper}]
      PROVE  UserModesTypeOK'
  BY <1>1, <1>5, <1>8 DEF UInv, UserModesTypeOK
<1>9. ASSUME client' \in [Slot -> ClientRec], \A c \in Slot : Calm(client[c], client'[c]),
             usermodes_list' \in Seq(Entry), oper_list' \in [Profile -> Mask \union {NoOper}],
             RightsAreCurrent' \/ oper_list' = oper_list,
             BannedAreGone' \/ FewerBans(usermodes_list, usermodes_list')
      PROVE  UInv'
  <2>1. \A c \in Slot : Later(client[c], client'[c])
    BY <1>9 DEF Calm
  <2>2. /\ Listed' = Listed /\ SdsDiffer' /\ RightsAreCurrent' /\ ProfileIsItsOwn'
        /\ \A m : Owed(m) => Owed(m)'
    BY <1>1, <1>9, <2>1, LaterClients
  <2>3. BannedAreGone'
    BY <1>9, <2>1, BansKept DEF Calm
  <2>4. Welcomes'
    BY <1>9, <2>2 DEF UInv, Welcomes, Calm, Listed
  <2>5. QED
    BY <1>6, <1>7, <1>8, <1>9, <2>2, <2>3, <2>4 DEF UInv
<1>10. CASE addOper(msg) \/ delOper(msg)
  BY <1>1, <1>2, <1>9, <1>10, OperSound, SameBans
<1>11. CASE setUserMode(msg)
  <2>1. oper_list' = oper_list
    BY <1>11 DEF setUserMode
  <2>2. CASE WithId(msg.key) # {}
    BY <1>1, <1>9, <1>11, <2>1, <2>2, SameClients, SameBans DEF setUserMode
  <2>3. CASE WithId(msg.key) = {}
    <3> DEFINE e == [id |-> msg.key, um |-> msg.um, isGlobal |-> TRUE]
    <3>1. e \in Entry /\ e.um = msg.um
      BY <1>2, <1>11 DEF setUserMode, Message, Entry
    <3>2. usermodes_list' = Append(usermodes_list, e) /\ applyUserMode(usermodes_list', e.um)
      BY <1>11, <2>3 DEF setUserMode
    <3> HIDE DEF e
    <3>3. QED
      BY <1>1, <1>9, <2>1, <3>1, <3>2, NewModeSound
  <2>4. QED
    BY <2>2, <2>3
<1>12. CASE delUserMode(msg)
  <2>1. oper_list' = oper_list
    BY <1>12 DEF delUserMode
  <2>2. CASE WithId(msg.key) = {}
    BY <1>1, <1>9, <1>12, <2>1, <2>2, SameClients, SameBans DEF delUserMode
  <2>3. CASE WithId(msg.key) # {}
    <3>1. PICK e \in WithId(msg.key) : Drop(e)
      BY <1>12, <2>3 DEF delUserMode
    <3>2. QED
      BY <1>1, <1>9, <2>1, <3>1, DropType
  <2>4. QED
    BY <2>2, <2>3
<1>13. CASE authClient(msg)
  <2>1. UNCHANGED <<usermodes_list, oper_list>>
    BY <1>13 DEF authClient
  <2>2. /\ client' \in [Slot -> ClientRec] /\ Listed' = Listed /\ SdsDiffer'
        /\ RightsAreCurrent' /\ ProfileIsItsOwn' /\ BannedAreGone' /\ Welcomes'
        /\ \A m : Owed(m) => Owed(m)'
    BY <1>1, <1>2, <1>3, <1>13, AuthSound
  <2>3. QED
    BY <1>1, <1>6, <1>7, <1>8, <2>1, <2>2 DEF UInv
<1>14. QED
  BY <1>4, <1>10, <1>11, <1>12, <1>13

-----------------------------------------------------------------------------
(* The loop.                                                               *)

\* The usual step with or without a procedure of the chat server's session.
LEMMA CalmProcedure ==
    ASSUME UInv, Procedure("server") \/ UNCHANGED <<tables, pending, astray>>,
           UNCHANGED <<use, wire, stage, oper_list, todo, turn, strays>>,
           usermodes_list' \in Seq(Entry),
           FewerBans(usermodes_list, usermodes_list') \/ BannedAreGone',
           client' \in [Slot -> ClientRec], \A c \in Slot : Calm(client[c], client'[c]),
           lines' \in 0 .. MaxLines, expiring' \in BOOLEAN
    PROVE  UInv'
<1>1. \A c \in Slot : Later(client[c], client'[c])
  BY DEF Calm
<1>2. \A msg : Owed(msg) => Owed(msg)'
  BY <1>1, LaterClients
<1>3. MatrixTypeOK' /\ Answers'
  <2>1. CASE Procedure("server")
    BY <1>2, <2>1, ProcedureAnswers DEF Session
  <2>2. CASE UNCHANGED <<tables, pending, astray>>
    <3>1. Answers'
      BY <1>2, <2>2, AnswersKept
    <3>2. MatrixTypeOK'
      BY <2>2 DEF UInv, UserModesTypeOK, MatrixTypeOK, tables
    <3>3. QED
      BY <3>1, <3>2
  <2>3. QED
    BY <2>1, <2>2
<1>4. QED
  BY <1>3, CalmStep

\* Only where the loop is has changed.
LEMMA LoopSound ==
    ASSUME UInv, endLines \/ endExpiry \/ \E c \in Slot : startLines(c)
    PROVE  UInv'
<1>1. /\ UNCHANGED <<use, tables, pending, wire, stage, astray>>
      /\ UNCHANGED <<usermodes_list, oper_list, client, strays>>
  BY DEF endLines, endExpiry, startLines, matrixVars
<1>2. /\ todo' \subseteq todo /\ turn' \in Listed \union {NoSlot} /\ turn' \notin todo'
      /\ lines' \in 0 .. MaxLines /\ expiring' \in BOOLEAN
  <2>1. /\ todo \subseteq Listed /\ turn \in Listed \union {NoSlot} /\ turn \notin todo
        /\ lines \in 0 .. MaxLines /\ expiring \in BOOLEAN /\ NoSlot \notin Listed
    BY UserModesAssumption DEF UInv, UserModesTypeOK, InPass, Listed
  <2>2. 0 \in 0 .. MaxLines /\ MaxLines \in 0 .. MaxLines
    BY UserModesAssumption
  <2>3. QED
    BY <2>1, <2>2 DEF endLines, endExpiry, startLines, Visited
<1>3. Listed' = Listed
  BY <1>1 DEF Listed
<1>4. \A msg : Owed(msg) => Owed(msg)'
  BY <1>1, <1>2, OwedKept
<1>5. Answers'
  BY <1>1, <1>4, AnswersKept
<1>6. InPass'
  BY <1>1, <1>2, <1>3 DEF UInv, InPass
<1>7. UserModesTypeOK'
  BY <1>1, <1>2 DEF UInv, UserModesTypeOK, MatrixTypeOK, tables, Listed
<1>8. SdsDiffer' /\ Welcomes' /\ RightsAreCurrent' /\ ProfileIsItsOwn' /\ BannedAreGone'
  BY <1>1, <1>3 DEF UInv, SdsDiffer, Welcomes, RightsAreCurrent, ProfileIsItsOwn, BannedAreGone
<1>9. QED
  BY <1>5, <1>6, <1>7, <1>8 DEF UInv

\* No login is owed any more: the queue is empty and no procedure runs.
LEMMA StartPassSound ==
    ASSUME UInv, startPass
    PROVE  UInv'
<1>1. /\ UNCHANGED <<use, tables, pending, wire, stage, astray>>
      /\ UNCHANGED <<usermodes_list, oper_list, client, turn, lines, strays>>
      /\ wire = <<>> /\ pending["server"] = NoCall /\ turn = NoSlot
      /\ todo' = Listed /\ expiring' = TRUE
  BY DEF startPass, matrixVars, Between, Running, Idle
<1>2. Listed' = Listed
  BY <1>1 DEF Listed
<1>3. Answers'
  <2>1. DOMAIN wire' = {}
    BY <1>1
  <2>2. Owed(pending["server"])'
    BY <1>1 DEF Owed
  <2>3. \A s \in Session \ {"server"} : Stray(pending[s])'
    BY <1>1 DEF UInv, Answers, Stray
  <2>4. QED
    BY <2>1, <2>2, <2>3 DEF Answers
<1>4. InPass'
  BY <1>1, <1>2, UserModesAssumption DEF UInv, InPass, Listed
<1>5. UserModesTypeOK'
  BY <1>1 DEF UInv, UserModesTypeOK, MatrixTypeOK, tables, Listed
<1>6. SdsDiffer' /\ Welcomes' /\ RightsAreCurrent' /\ ProfileIsItsOwn' /\ BannedAreGone'
  BY <1>1, <1>2 DEF UInv, SdsDiffer, Welcomes, RightsAreCurrent, ProfileIsItsOwn, BannedAreGone
<1>7. QED
  BY <1>3, <1>4, <1>5, <1>6 DEF UInv

\* Whoever is owed a login has been visited already, and is not deleted now.
LEMMA DeleteSound ==
    ASSUME UInv, NEW c \in Slot, deleteClient(c)
    PROVE  UInv'
<1>1. /\ UNCHANGED <<use, tables, pending, wire, stage, astray>>
      /\ UNCHANGED <<usermodes_list, oper_list, turn, lines, expiring, strays>>
      /\ client' = [client EXCEPT ![c] = Freed] /\ c \in todo /\ todo' = todo \ {c}
      /\ turn = NoSlot
  BY DEF deleteClient, matrixVars, Visited
<1>2. client \in [Slot -> ClientRec]
  BY DEF UInv, UserModesTypeOK
<1>3. client' \in [Slot -> ClientRec] /\ \A d \in Slot \ {c} : client'[d] = client[d]
  BY <1>1, <1>2, FreedType
<1>4. Listed' = Listed \ {c}
  BY <1>1, <1>2, <1>3, FreedType DEF Listed
<1>5. \A d \in Listed' : d \in Listed /\ client'[d] = client[d]
  BY <1>3, <1>4 DEF Listed
<1>6. \A msg : Owed(msg) => Owed(msg)'
  BY <1>1, <1>4, <1>5 DEF Owed
<1>7. Answers'
  BY <1>1, <1>6, AnswersKept
<1>8. InPass'
  BY <1>1, <1>4 DEF UInv, InPass
<1>9. UserModesTypeOK'
  BY <1>1, <1>3 DEF UInv, UserModesTypeOK, MatrixTypeOK, tables
<1>10. SdsDiffer' /\ Welcomes' /\ RightsAreCurrent' /\ ProfileIsItsOwn' /\ BannedAreGone'
  BY <1>1, <1>5 DEF UInv, SdsDiffer, Welcomes, RightsAreCurrent, ProfileIsItsOwn, BannedAreGone
<1>11. QED
  BY <1>7, <1>8, <1>9, <1>10 DEF UInv

\* A new client has a descriptor of its own, no profile and no rights.
LEMMA AcceptSound ==
    ASSUME UInv, NEW c \in Slot, accept(c)
    PROVE  UInv'
<1>1. /\ UNCHANGED <<use, tables, pending, wire, stage, astray>>
      /\ UNCHANGED <<usermodes_list, oper_list, todo, turn, lines, expiring, strays>>
      /\ c \notin Listed /\ todo = {} /\ turn = NoSlot /\ stage = "up"
  BY DEF accept, matrixVars, Between, Running, loop
<1>2. PICK h \in Host, d \in Free : client' = [client EXCEPT ![c] = NewClient(h, d)]
  BY DEF accept
<1>3. d \in Sd /\ \A b \in Listed : client[b].sd # d
  BY DEF Free
<1>4. PICK k : k = NewClient(h, d)
  OBVIOUS
<1>5. /\ k \in ClientRec /\ k.live /\ k.sd = d /\ k.profile = NoProfile /\ k.rights = {}
      /\ ~k.registered /\ ~k.welcomed
  BY <1>3, <1>4, NewClientType DEF NewClient
<1>6. client \in [Slot -> ClientRec]
  BY DEF UInv, UserModesTypeOK
<1>7. /\ client' \in [Slot -> ClientRec] /\ client'[c] = k
      /\ \A b \in Slot \ {c} : client'[b] = client[b]
  BY <1>2, <1>4, <1>5, <1>6
<1>8. Listed' = Listed \union {c} /\ \A b \in Listed : client'[b] = client[b]
  BY <1>1, <1>5, <1>7 DEF Listed
<1>9. \A msg : Owed(msg) => Owed(msg)'
  BY <1>1, <1>8 DEF Owed
<1>10. Answers'
  BY <1>1, <1>9, AnswersKept
<1>11. InPass'
  BY <1>1, <1>8 DEF UInv, InPass
<1>12. UserModesTypeOK'
  BY <1>1, <1>7 DEF UInv, UserModesTypeOK, MatrixTypeOK, tables
<1>13. SdsDiffer' /\ Welcomes'
  BY <1>3, <1>5, <1>7, <1>8 DEF UInv, SdsDiffer, Welcomes
<1>14. RightsAreCurrent' /\ ProfileIsItsOwn' /\ BannedAreGone'
  BY <1>1, <1>5, <1>7, <1>8 DEF UInv, RightsAreCurrent, ProfileIsItsOwn, BannedAreGone
<1>15. QED
  BY <1>10, <1>11, <1>12, <1>13, <1>14 DEF UInv

-----------------------------------------------------------------------------
(* Lines of a client.                                                      *)

LEMMA LineFacts ==
    ASSUME UInv, NEW c \in Slot, NEW word, Line(c, word)
    PROVE  /\ c \in Listed \ todo /\ stage = "up" /\ pending["server"] = NoCall
           /\ lines' \in 0 .. MaxLines /\ UNCHANGED <<turn, todo, expiring, strays>>
           /\ expiring' \in BOOLEAN
<1>1. lines - 1 \in 0 .. MaxLines
  BY UserModesAssumption DEF UInv, UserModesTypeOK, Line
<1>2. turn = c /\ c # NoSlot
  BY UserModesAssumption DEF Line
<1>3. QED
  BY <1>1, <1>2 DEF UInv, UserModesTypeOK, InPass, Line, Running, Idle

\* A client has quit, or been made to.
LEMMA OneQuit ==
    ASSUME UInv, NEW t \in Slot, client' = [client EXCEPT ![t] = quitUser(@)]
    PROVE  client' \in [Slot -> ClientRec] /\ \A c \in Slot : Calm(client[c], client'[c])
<1>1. client \in [Slot -> ClientRec]
  BY DEF UInv, UserModesTypeOK
<1>2. PICK k : k = quitUser(client[t])
  OBVIOUS
<1>3. k \in ClientRec /\ Calm(client[t], k)
  BY <1>1, <1>2, QuitType
<1>4. client' = [client EXCEPT ![t] = k]
  BY <1>2
<1>5. QED
  BY <1>1, <1>3, <1>4, SameClients

\* A local mode is put on the list, a global one given to the database.
LEMMA AddType ==
    ASSUME UInv, NEW um \in UserMode, NEW isGlobal \in BOOLEAN, addUserMode(um, isGlobal)
    PROVE  /\ isGlobal => Procedure("server") /\ usermodes_list' = usermodes_list
           /\ ~isGlobal => /\ UNCHANGED <<tables, pending, astray>>
                           /\ \E e \in Entry : e.um = um /\ usermodes_list' = Append(usermodes_list, e)
<1>1. CASE isGlobal
  BY <1>1 DEF addUserMode, Procedure
<1>2. CASE ~isGlobal
  <2>1. PICK n \in LocalId :
          usermodes_list' = Append(usermodes_list, [id |-> n, um |-> um, isGlobal |-> FALSE])
    BY <1>2 DEF addUserMode
  <2>2. [id |-> n, um |-> um, isGlobal |-> FALSE] \in Entry
    BY DEF Entry
  <2>3. UNCHANGED <<tables, pending, astray>>
    BY <1>2 DEF addUserMode
  <2>4. QED
    BY <1>2, <2>1, <2>2, <2>3
<1>3. QED
  BY <1>1, <1>2

\* A row is deleted and its mode marked, or the mode goes off the list.
LEMMA RemoveType ==
    ASSUME UInv, NEW e \in ToSet(usermodes_list), removeUsermode(e)
    PROVE  /\ client' \in [Slot -> ClientRec] /\ \A c \in Slot : Calm(client[c], client'[c])
           /\ usermodes_list' \in Seq(Entry) /\ FewerBans(usermodes_list, usermodes_list')
           /\ Procedure("server") \/ UNCHANGED <<tables, pending, astray>>
<1>1. client \in [Slot -> ClientRec] /\ usermodes_list \in Seq(Entry)
  BY DEF UInv, UserModesTypeOK
<1>2. PICK i \in DOMAIN usermodes_list : e = usermodes_list[i]
  BY DEF ToSet
<1>3. e \in Entry
  BY <1>1, <1>2, ElementOfSeq
<1>4. CASE ~e.isGlobal
  BY <1>4, DropType DEF removeUsermode
<1>5. CASE e.isGlobal
  <2>1. /\ DelUserMode("server", e.id) /\ client' = client
        /\ usermodes_list' = [j \in DOMAIN usermodes_list |->
               IF usermodes_list[j] = e THEN Lapsed(e) ELSE usermodes_list[j]]
    BY <1>5 DEF removeUsermode
  <2>2. e.id \in Id
    BY <1>3, <1>5 DEF Entry
  <2>3. Procedure("server")
    BY <2>1, <2>2 DEF Procedure
  <2>4. PICK um : um = e.um
    OBVIOUS
  <2>5. PICK um1 : um1 = [um EXCEPT !.expires = FALSE]
    OBVIOUS
  <2>6. um \in UserMode /\ um1 \in UserMode /\ \A h : Bans(um1, h) => Bans(um, h)
    BY <1>3, <2>4, <2>5 DEF Entry, UserMode, Bans
  <2>7. Lapsed(e) = [e EXCEPT !.um = um1]
    BY <2>4, <2>5 DEF Lapsed
  <2>8. PICK l : l = Lapsed(e)
    OBVIOUS
  <2>9. l \in Entry /\ l.um = um1
    BY <1>3, <2>6, <2>7, <2>8 DEF Entry
  <2>10. usermodes_list' \in Seq(Entry)
    <3>1. DOMAIN usermodes_list = 1..Len(usermodes_list) /\ Len(usermodes_list) \in Nat
      BY <1>1, LenProperties
    <3>2. \A j \in 1..Len(usermodes_list) : usermodes_list[j] \in Entry
      BY <1>1, ElementOfSeq
    <3>3. usermodes_list' \in [1..Len(usermodes_list) -> Entry]
      BY <2>1, <2>8, <2>9, <3>1, <3>2
    <3>4. QED
      BY <3>1, <3>3
  <2>11. ASSUME NEW h \in Host, NEW um2 \in InForce(usermodes_list'), Bans(um2, h)
         PROVE  \E um3 \in InForce(usermodes_list) : Bans(um3, h)
    <3>1. PICK j \in DOMAIN usermodes_list : um2 = usermodes_list'[j].um
      BY <2>1 DEF InForce
    <3>2. CASE usermodes_list[j] = e
      <4>1. um2 = um1
        BY <2>1, <2>8, <2>9, <3>1, <3>2
      <4>2. um \in InForce(usermodes_list)
        BY <2>4, <3>2 DEF InForce
      <4>3. QED
        BY <2>6, <2>11, <4>1, <4>2
    <3>3. CASE usermodes_list[j] # e
      BY <2>1, <2>11, <3>1, <3>3 DEF InForce
    <3>4. QED
      BY <3>2, <3>3
  <2>12. FewerBans(usermodes_list, usermodes_list')
    BY <2>11 DEF FewerBans
  <2>13. QED
    BY <1>1, <2>1, <2>3, <2>10, <2>12, SameClients
<1>6. QED
  BY <1>4, <1>5

LEMMA UserSound ==
    ASSUME UInv, NEW c \in Slot, cmd_user(c)
    PROVE  UInv'
<1>1. /\ UNCHANGED <<use, tables, pending, wire, stage, astray, usermodes_list, oper_list>>
      /\ Line(c, "USER") /\ client' = [client EXCEPT ![c] = Welcomed(client[c])]
  BY DEF cmd_user, matrixVars
<1>2. /\ c \in Listed /\ lines' \in 0 .. MaxLines /\ expiring' \in BOOLEAN
      /\ UNCHANGED <<turn, todo, expiring, strays>>
  BY <1>1, LineFacts
<1>3. client \in [Slot -> ClientRec] /\ usermodes_list \in Seq(Entry)
  BY DEF UInv, UserModesTypeOK
<1>4. PICK k : k = Welcomed(client[c])
  OBVIOUS
<1>5. /\ k \in ClientRec /\ Later(client[c], k) /\ k.registered
      /\ \/ k = client[c] \/ k.toquit \/ k.spared
         \/ ~\E um \in InForce(usermodes_list) : Bans(um, client[c].host)
  BY <1>2, <1>3, <1>4, WelcomedType DEF UInv, Welcomes
<1>6. client' \in [Slot -> ClientRec] /\ client'[c] = k
      /\ \A d \in Slot \ {c} : client'[d] = client[d]
  BY <1>1, <1>3, <1>4, <1>5
<1>7. \A d \in Slot : Later(client[d], client'[d])
  BY <1>3, <1>5, <1>6, SameClients DEF Calm
<1>8. /\ Listed' = Listed /\ SdsDiffer' /\ RightsAreCurrent' /\ ProfileIsItsOwn' /\ InPass'
      /\ \A msg : Owed(msg) => Owed(msg)'
  BY <1>1, <1>2, <1>6, <1>7, LaterClients
<1>9. Answers'
  BY <1>1, <1>2, <1>8, AnswersKept
<1>10. BannedAreGone'
  <2>1. FewerBans(usermodes_list, usermodes_list')
    BY <1>1, SameBans
  <2>2. \A d \in Slot : Later(client[d], client'[d]) /\
               \/ client'[d].registered = client[d].registered
               \/ client'[d].toquit \/ client'[d].spared
               \/ ~\E um \in InForce(usermodes_list) : Bans(um, client[d].host)
    BY <1>5, <1>6, <1>7
  <2>3. QED
    BY <1>6, <2>1, <2>2, BansKept
<1>11. Welcomes'
  BY <1>5, <1>6, <1>8 DEF UInv, Welcomes, Listed
<1>12. UserModesTypeOK'
  BY <1>1, <1>2, <1>6 DEF UInv, UserModesTypeOK, MatrixTypeOK, tables
<1>13. QED
  BY <1>8, <1>9, <1>10, <1>11, <1>12 DEF UInv

\* The client that asks is visited now, so it is not deleted before the answer.
LEMMA LoginSound ==
    ASSUME UInv, NEW c \in Slot, cmd_login(c)
    PROVE  UInv'
<1>1. PICK p \in Profile \union {NoProfile} :
        /\ Line(c, "LOGIN")
        /\ AuthClientCall("server", client[c].sd, p)
        /\ client' = [client EXCEPT ![c].asked = @ \union ({p} \ {NoProfile})]
        /\ UNCHANGED <<use, wire, stage, usermodes_list, oper_list>>
  BY DEF cmd_login
<1>2. /\ c \in Listed \ todo /\ lines' \in 0 .. MaxLines /\ expiring' \in BOOLEAN
      /\ UNCHANGED <<turn, todo, expiring, strays>>
  BY <1>1, LineFacts
<1>3. client \in [Slot -> ClientRec] /\ usermodes_list \in Seq(Entry) /\ MatrixTypeOK
  BY DEF UInv, UserModesTypeOK
<1>4. PICK asked : asked = client[c].asked \union ({p} \ {NoProfile})
  OBVIOUS
<1>5. PICK k : k = [client[c] EXCEPT !.asked = asked]
  OBVIOUS
<1>6. client' = [client EXCEPT ![c] = k]
  BY <1>1, <1>4, <1>5
<1>7. /\ k \in ClientRec /\ Calm(client[c], k) /\ (p # NoProfile => p \in k.asked)
      /\ k.sd = client[c].sd /\ k.live
  <2>1. client[c] \in ClientRec /\ asked \in SUBSET Profile /\ client[c].asked \subseteq asked
        /\ client[c].live
    BY <1>2, <1>3, <1>4 DEF ClientRec, Listed
  <2>2. QED
    BY <1>4, <1>5, <2>1 DEF ClientRec, Calm, Later
<1>8. /\ client' \in [Slot -> ClientRec] /\ client'[c] = k
      /\ \A d \in Slot : Calm(client[d], client'[d])
  BY <1>3, <1>6, <1>7, SameClients
<1>9. Listed' = Listed /\ \A msg : Owed(msg) => Owed(msg)'
  BY <1>2, <1>8, LaterClients DEF Calm
<1> DEFINE msg == [id |-> "AuthClient", sd |-> client[c].sd, key |-> p]
<1>10. msg \in Message /\ msg.id = "AuthClient" /\ msg.sd = client[c].sd /\ msg.key = p
  BY <1>3 DEF Message, ClientRec
<1>11. Begin("server", msg) /\ UNCHANGED tables
  BY <1>1 DEF AuthClientCall
<1>12. PICK m : m = msg
  OBVIOUS
<1> HIDE DEF msg
<1>13. /\ pending' \in [Session -> Message \union {NoCall}] /\ pending'["server"] = m
       /\ \A other \in Session \ {"server"} : pending'[other] = pending[other]
       /\ astray' \subseteq Id \union Profile
  BY <1>3, <1>10, <1>11, <1>12, BeginType DEF Session
<1>14. MatrixTypeOK'
  BY <1>1, <1>3, <1>11, <1>13 DEF MatrixTypeOK, tables
<1>15. Answers'
  <2>1. ASSUME NEW i \in DOMAIN wire'
        PROVE  (wire[i] # NoCall /\ Owed(wire[i]))'
    <3>1. PICK w : w = wire'[i] /\ w # NoCall /\ Owed(w)
      BY <1>1 DEF UInv, Answers
    <3>2. Owed(w)'
      BY <1>9, <3>1
    <3>3. QED
      BY <3>1, <3>2 DEF Owed
  <2>2. Owed(pending["server"])'
    <3>1. c \in Listed' \ todo'
      BY <1>2, <1>9
    <3>2. p # NoProfile => client'[c].sd = m.sd /\ m.key \in client'[c].asked
      BY <1>7, <1>8, <1>10, <1>12
    <3>3. QED
      BY <1>10, <1>12, <1>13, <3>1, <3>2 DEF Owed
  <2>3. \A s \in Session \ {"server"} : Stray(pending[s])'
    BY <1>2, <1>13 DEF UInv, Answers, Stray
  <2>4. QED
    BY <2>1, <2>2, <2>3 DEF Answers
<1>16. FewerBans(usermodes_list, usermodes_list')
  BY <1>1, SameBans
<1>17. QED
  BY <1>1, <1>2, <1>3, <1>8, <1>14, <1>15, <1>16, CalmStep

LEMMA SetSound ==
    ASSUME UInv, NEW c \in Slot, cmd_setusermode(c)
    PROVE  UInv'
<1>1. PICK um \in use.forms, isGlobal \in BOOLEAN :
        /\ Line(c, "SETUSERMODE")
        /\ addUserMode(um, isGlobal)
        /\ IF isGlobal THEN UNCHANGED client ELSE applyUserMode(usermodes_list', um)
        /\ UNCHANGED <<use, wire, stage, oper_list>>
  BY DEF cmd_setusermode
<1>2. /\ lines' \in 0 .. MaxLines /\ expiring' \in BOOLEAN
      /\ UNCHANGED <<turn, todo, expiring, strays>>
  BY <1>1, LineFacts
<1>3. um \in UserMode /\ client \in [Slot -> ClientRec] /\ usermodes_list \in Seq(Entry)
  BY MatrixAssumption DEF UInv, UserModesTypeOK, MatrixTypeOK
<1>4. CASE isGlobal
  <2>1. Procedure("server") /\ usermodes_list' = usermodes_list /\ client' = client
    BY <1>1, <1>3, <1>4, AddType
  <2>2. client' \in [Slot -> ClientRec] /\ \A d \in Slot : Calm(client[d], client'[d])
    BY <1>3, <2>1, SameClients
  <2>3. FewerBans(usermodes_list, usermodes_list')
    BY <2>1, SameBans
  <2>4. QED
    BY <1>1, <1>2, <1>3, <2>1, <2>2, <2>3, CalmProcedure
<1>5. CASE ~isGlobal
  <2>1. /\ UNCHANGED <<tables, pending, astray>>
        /\ \E e \in Entry : e.um = um /\ usermodes_list' = Append(usermodes_list, e)
    BY <1>1, <1>3, <1>5, AddType
  <2>2. PICK e \in Entry : e.um = um /\ usermodes_list' = Append(usermodes_list, e)
    BY <2>1
  <2>3. PICK list : list = usermodes_list'
    OBVIOUS
  <2>4. applyUserMode(usermodes_list', e.um)
    BY <1>1, <1>5, <2>2, <2>3
  <2>5. /\ client' \in [Slot -> ClientRec] /\ \A d \in Slot : Calm(client[d], client'[d])
        /\ usermodes_list' \in Seq(Entry) /\ BannedAreGone'
    BY <2>2, <2>4, NewModeSound
  <2>6. QED
    BY <1>1, <1>2, <2>1, <2>5, CalmProcedure
<1>6. QED
  BY <1>4, <1>5

LEMMA RemoveSound ==
    ASSUME UInv, checkExpiry \/ \E c \in Slot : cmd_delusermode(c)
    PROVE  UInv'
<1>1. PICK e \in ToSet(usermodes_list) :
        /\ removeUsermode(e) /\ UNCHANGED <<use, wire, stage, oper_list>>
        /\ \/ UNCHANGED <<loop, strays>>
           \/ \E c \in Slot : Line(c, "DELUSERMODE")
  BY DEF checkExpiry, cmd_delusermode
<1>2. /\ lines' \in 0 .. MaxLines /\ expiring' \in BOOLEAN
      /\ UNCHANGED <<turn, todo, expiring, strays>>
  BY <1>1, LineFacts DEF loop, UInv, UserModesTypeOK
<1>3. QED
  BY <1>1, <1>2, RemoveType, CalmProcedure

\* The host of a client, or one that is named, is banned by a global mode.
LEMMA BanSound ==
    ASSUME UInv, NEW c \in Slot, cmd_quit(c) \/ cmd_kill(c) \/ cmd_kline(c)
    PROVE  UInv'
<1>1. client \in [Slot -> ClientRec] /\ usermodes_list \in Seq(Entry)
  BY DEF UInv, UserModesTypeOK
<1>2. /\ client' \in [Slot -> ClientRec] /\ \A d \in Slot : Calm(client[d], client'[d])
      /\ \E word : Line(c, word)
      /\ UNCHANGED <<use, wire, stage, oper_list>>
  <2>1. CASE cmd_quit(c)
    BY <2>1, OneQuit DEF cmd_quit, matrixVars
  <2>2. CASE cmd_kill(c)
    BY <2>2, OneQuit DEF cmd_kill, Listed
  <2>3. CASE cmd_kline(c)
    BY <1>1, <2>3, SameClients DEF cmd_kline
  <2>4. QED
    BY <2>1, <2>2, <2>3
<1>3. /\ lines' \in 0 .. MaxLines /\ expiring' \in BOOLEAN
      /\ UNCHANGED <<turn, todo, expiring, strays>>
  BY <1>2, LineFacts
<1>4. /\ usermodes_list' = usermodes_list
      /\ Procedure("server") \/ UNCHANGED <<tables, pending, astray>>
  <2>1. ASSUME NEW h \in Host, Banned(c, h)
        PROVE  /\ usermodes_list' = usermodes_list
               /\ Procedure("server") \/ UNCHANGED <<tables, pending, astray>>
    <3>1. killed(h) \in UserMode
      BY DEF killed, UserMode
    <3>2. QED
      BY <2>1, <3>1, AddType DEF Banned
  <2>2. \A t \in Slot : client[t].host \in Host
    BY <1>1 DEF ClientRec
  <2>3. QED
    BY <2>1, <2>2 DEF cmd_quit, cmd_kill, cmd_kline, matrixVars, Listed
<1>5. FewerBans(usermodes_list, usermodes_list')
  BY <1>4, SameBans
<1>6. QED
  BY <1>1, <1>2, <1>3, <1>4, <1>5, CalmProcedure

-----------------------------------------------------------------------------
(* Theorems.                                                               *)

LEMMA UInit == UserModesInit => UInv
<1> SUFFICES ASSUME UserModesInit PROVE UInv
  OBVIOUS
<1> USE DEF UserModesInit, MatrixInit
<1>1. Listed = {}
  BY FreedType DEF Listed
<1>2. InPass
  BY <1>1 DEF InPass
<1>3. Answers
  <2>1. pending["server"] = NoCall /\ \A s \in Session : pending[s] = NoCall
    BY DEF Session
  <2>2. DOMAIN wire = {}
    OBVIOUS
  <2>3. QED
    BY <2>1, <2>2 DEF Answers, Owed, Stray
<1>4. MatrixTypeOK
  <2>1. wire \in Seq(Message) /\ Len(wire) <= MaxWire
    BY MatrixAssumption
  <2>2. lastid \in 0..MaxId /\ DOMAIN chanusermodes = {} /\ stage \in Stage
    BY MatrixAssumption DEF Stage
  <2>3. globalopers \in [Profile -> Mask \union {NoOper}]
    BY MatrixAssumption
  <2>4. QED
    BY <2>1, <2>2, <2>3 DEF MatrixTypeOK
<1>5. UserModesTypeOK
  <2>1. client \in [Slot -> ClientRec]
    BY FreedType
  <2>2. lines \in 0 .. MaxLines
    BY UserModesAssumption
  <2>3. usermodes_list \in Seq(Entry) /\ oper_list \in [Profile -> Mask \union {NoOper}]
    OBVIOUS
  <2>4. /\ todo \subseteq Slot /\ turn \in Slot \union {NoSlot} /\ expiring \in BOOLEAN
        /\ strays \subseteq Profile
    OBVIOUS
  <2>5. QED
    BY <1>4, <2>1, <2>2, <2>3, <2>4 DEF UserModesTypeOK
<1>6. SdsDiffer /\ Welcomes /\ RightsAreCurrent /\ ProfileIsItsOwn /\ BannedAreGone
  BY <1>1 DEF SdsDiffer, Welcomes, RightsAreCurrent, ProfileIsItsOwn, BannedAreGone
<1>7. QED
  BY <1>2, <1>3, <1>5, <1>6 DEF UInv

LEMMA UStutter ==
    ASSUME UInv, UNCHANGED vars
    PROVE  UInv'
<1>1. /\ UNCHANGED <<use, tables, pending, wire, stage, astray>>
      /\ UNCHANGED <<usermodes_list, oper_list, client, todo, turn, lines, expiring, strays>>
  BY DEF vars, matrixVars, serverVars
<1>2. /\ client' \in [Slot -> ClientRec] /\ \A d \in Slot : Calm(client[d], client'[d])
      /\ usermodes_list' \in Seq(Entry) /\ lines' \in 0 .. MaxLines /\ expiring' \in BOOLEAN
  BY <1>1, SameClients DEF UInv, UserModesTypeOK
<1>3. FewerBans(usermodes_list, usermodes_list')
  BY <1>1, SameBans
<1>4. QED
  BY <1>1, <1>2, <1>3, CalmProcedure

\* The strengthened invariant: beside the properties, that nothing is deleted
\* that a login is owed to.
THEOREM UserModesInvariance == UserModesSpec => []UInv
<1>1. ASSUME UInv, UserModesNext
      PROVE  UInv'
  <2>1. CASE start \/ loadUserModes \/ loadOpers \/ setupQueueListener
    BY <1>1, <2>1, StartSound
  <2>2. CASE crash
    BY <1>1, <2>2, CrashSound
  <2>3. CASE processQueue
    BY <1>1, <2>3, QueueSound
  <2>4. CASE startPass
    BY <1>1, <2>4, StartPassSound
  <2>5. CASE endLines \/ endExpiry \/ \E c \in Slot : startLines(c)
    BY <1>1, <2>5, LoopSound
  <2>6. CASE checkExpiry \/ \E c \in Slot : cmd_delusermode(c)
    BY <1>1, <2>6, RemoveSound
  <2>7. ASSUME NEW c \in Slot,
               \/ accept(c) \/ deleteClient(c) \/ cmd_user(c) \/ cmd_login(c)
               \/ cmd_setusermode(c) \/ cmd_quit(c) \/ cmd_kill(c) \/ cmd_kline(c)
        PROVE  UInv'
    BY <1>1, <2>7, AcceptSound, DeleteSound, UserSound, LoginSound, SetSound, BanSound
  <2>8. CASE \E s \in Session : matrixqueue(s) /\ UNCHANGED serverVars
    BY <1>1, <2>8, MatrixqueueSound
  <2>9. CASE \E s \in Panel : panel(s) /\ UNCHANGED serverVars
    BY <1>1, <2>9, PanelSound
  <2>10. QED
    BY <1>1, <2>1, <2>2, <2>3, <2>4, <2>5, <2>6, <2>7, <2>8, <2>9 DEF UserModesNext, mainLoop
<1>2. UInv /\ [UserModesNext]_vars => UInv'
  BY <1>1, UStutter
<1>3. QED
  BY <1>2, UInit, PTL DEF UserModesSpec

\* Every variable stays in its type (the tables, the datagrams, the lists and the
\* clients of the chat server).
THEOREM UserModesTypeCorrect == UserModesSpec => []UserModesTypeOK
<1>1. UInv => UserModesTypeOK
  BY DEF UInv
<1>2. QED
  BY <1>1, UserModesInvariance, PTL

\* Rights are those of the oper list of now, or their holder is made to quit
\* (logUserIn, addOper, delOper).
THEOREM RightsFollowTheList == UserModesSpec => []RightsAreCurrent
<1>1. UInv => RightsAreCurrent
  BY DEF UInv
<1>2. QED
  BY <1>1, UserModesInvariance, PTL

\* A login, found by its descriptor, is given to the client that asked for it
\* (processQueue before processClients; authClient).
THEOREM LoginsAreNotMixed == UserModesSpec => []ProfileIsItsOwn
<1>1. UInv => ProfileIsItsOwn
  BY DEF UInv
<1>2. QED
  BY <1>1, UserModesInvariance, PTL

\* A ban in force leaves nobody of its host behind that was not exempt
\* (sendWelcome, applyUserMode).
THEOREM BansReachEverybody == UserModesSpec => []BannedAreGone
<1>1. UInv => BannedAreGone
  BY DEF UInv
<1>2. QED
  BY <1>1, UserModesInvariance, PTL

-----------------------------------------------------------------------------
(* The copies of the tables.  What the server holds is in step with them:  *)
(* two invariants more, one for the user modes and one for the opers, that *)
(* say so whatever is still to be sent or read.                            *)

\* A datagram that brings, or takes away, the user mode n.
Sets(msg, n) == msg # NoCall /\ msg.id = "SetUserMode" /\ msg.key = n
Dels(msg, n) == msg # NoCall /\ msg.id = "DelUserMode" /\ msg.key = n

SetSent(n) == \E i \in DOMAIN wire : Sets(wire[i], n)
DelSent(n) == \E i \in DOMAIN wire : Dels(wire[i], n)
SetDue(n)  == \E s \in Session : Sets(pending[s], n)
DelDue(n)  == \E s \in Session : Dels(pending[s], n)
OnList(n)  == \E i \in DOMAIN usermodes_list : usermodes_list[i].id = n

\* Ids are given out once, so that a row that is deleted does not come back.
KnownId(n) == SetSent(n) \/ SetDue(n) \/ DelSent(n) \/ DelDue(n) \/ OnList(n) => n <= lastid
Erased(n)  == DelSent(n) \/ DelDue(n) => n \notin DOMAIN chanusermodes

ModesRead == stage \in {"modes", "opers", "up"}

\* Since the table was read: a mode with a row is on the list or will be; one
\* without goes off it by a datagram that comes after any that puts it there.
InStep(n) ==
    /\ SetDue(n) => n \in DOMAIN chanusermodes
    /\ ModesRead =>
         IF n \in DOMAIN chanusermodes THEN OnList(n) \/ SetSent(n) \/ SetDue(n)
         ELSE /\ OnList(n) => DelSent(n) \/ DelDue(n)
              /\ \A i \in DOMAIN wire : Sets(wire[i], n) =>
                    DelDue(n) \/ \E j \in DOMAIN wire : j > i /\ Dels(wire[j], n)

Mode(n) == KnownId(n) /\ Erased(n) /\ (n \notin astray => InStep(n))

ModesInv == NoTwins /\ \A n \in Id : Mode(n)

\* What is next to be done about p's rights, or stands on the list, is r.
Says(p, r) ==
    \/ About(p) = {} /\ r = oper_list[p]
    \/ \E i \in About(p) : (\A j \in About(p) : j <= i) /\ r = Verdict(wire[i])

OpersRead == stage \in {"opers", "up"}

\* One session at most is to tell of p, and tells what the table has; without
\* one the last datagram has it.
Oper(p) ==
    /\ \A s, t \in Session : p \in Told(pending[s]) /\ p \in Told(pending[t]) => s = t
    /\ \A s \in Session : p \in Told(pending[s]) => globalopers[p] = Verdict(pending[s])
    /\ OpersRead /\ p \notin Unsent => Says(p, globalopers[p])

OpersInv == \A p \in Profile \ astray : Oper(p)

-----------------------------------------------------------------------------
(* The list of user modes by ids.                                          *)

\* A mode that goes off the list takes its id with it.
LEMMA DropIds ==
    ASSUME usermodes_list \in Seq(Entry), NoTwins, NEW e, Drop(e)
    PROVE  NoTwins' /\ OnList(e.id) /\ \A n : OnList(n)' <=> OnList(n) /\ n # e.id
<1> DEFINE q == usermodes_list
           m == Len(q)
<1>1. PICK i \in DOMAIN q : q[i] = e /\ usermodes_list' = RemoveAt(q, i)
  BY DEF Drop
<1>2. /\ DOMAIN usermodes_list' = 1..(m - 1)
      /\ \A j \in 1..(m - 1) : usermodes_list'[j] = IF j < i THEN q[j] ELSE q[j + 1]
  BY <1>1, RemoveAtValue
<1>3. DOMAIN q = 1..m /\ m \in Nat /\ i \in 1..m
  BY LenProperties
<1>4. \A j, k \in 1..m : q[j].id = q[k].id => j = k
  BY <1>3 DEF NoTwins
<1>5. NoTwins'
  <2> SUFFICES ASSUME NEW j \in 1..(m - 1), NEW k \in 1..(m - 1),
                      usermodes_list'[j].id = usermodes_list'[k].id
               PROVE  j = k
    BY <1>2 DEF NoTwins
  <2> DEFINE at(n) == IF n < i THEN n ELSE n + 1
  <2>1. /\ at(j) \in 1..m /\ usermodes_list'[j] = q[at(j)]
        /\ at(k) \in 1..m /\ usermodes_list'[k] = q[at(k)]
    BY <1>2, <1>3
  <2>2. at(j) = at(k)
    BY <1>4, <2>1
  <2>3. QED
    BY <1>3, <2>2
<1>6. ASSUME NEW n
      PROVE  OnList(n)' <=> OnList(n) /\ n # e.id
  <2>1. ASSUME NEW j \in 1..(m - 1), usermodes_list'[j].id = n
        PROVE  OnList(n) /\ n # e.id
    <3> DEFINE k == IF j < i THEN j ELSE j + 1
    <3>1. k \in 1..m /\ k # i /\ usermodes_list'[j] = q[k]
      BY <1>2, <1>3
    <3>2. QED
      BY <1>1, <1>3, <1>4, <2>1, <3>1 DEF OnList
  <2>2. ASSUME NEW k \in 1..m, q[k].id = n, n # e.id
        PROVE  OnList(n)'
    <3> DEFINE j == IF k < i THEN k ELSE k - 1
    <3>1. j \in 1..(m - 1) /\ usermodes_list'[j] = q[k]
      BY <1>1, <1>2, <1>3, <2>2
    <3>2. QED
      BY <1>2, <2>2, <3>1 DEF OnList
  <2>3. QED
    BY <1>2, <1>3, <2>1, <2>2 DEF OnList
<1>7. QED
  BY <1>1, <1>5, <1>6 DEF OnList

\* A mode with an id that the list does not have is put on it.
LEMMA AppendIds ==
    ASSUME usermodes_list \in Seq(Entry), NoTwins, NEW e \in Entry, WithId(e.id) = {},
           usermodes_list' = Append(usermodes_list, e)
    PROVE  NoTwins' /\ \A n : OnList(n)' <=> OnList(n) \/ n = e.id
<1> DEFINE q == usermodes_list
<1>1. /\ DOMAIN usermodes_list' = 1..(Len(q) + 1)
      /\ Len(q) \in Nat /\ DOMAIN q = 1..Len(q)
      /\ \A i \in 1..Len(q) : usermodes_list'[i] = q[i]
      /\ usermodes_list'[Len(q) + 1] = e
  BY LenProperties, AppendProperties
<1>2. 1..(Len(q) + 1) = 1..Len(q) \union {Len(q) + 1}
  BY <1>1
<1>3. \A i \in DOMAIN q : q[i].id # e.id
  BY DEF WithId, ToSet
<1>4. NoTwins'
  BY <1>1, <1>2, <1>3 DEF NoTwins
<1>5. ASSUME NEW n
      PROVE  OnList(n)' <=> OnList(n) \/ n = e.id
  BY <1>1, <1>2 DEF OnList
<1>6. QED
  BY <1>4, <1>5

LEMMA WithIdOnList ==
    ASSUME NEW n
    PROVE  WithId(n) # {} <=> OnList(n)
BY DEF WithId, OnList, ToSet

-----------------------------------------------------------------------------
(* The table of user modes and its copy.                                   *)

SameIds == NoTwins' /\ \A n \in Id : OnList(n)' <=> OnList(n)

\* What a session has yet to send when a procedure has begun in it.
LEMMA BeginDue ==
    ASSUME MatrixTypeOK, NEW s \in Session, NEW msg \in Message, Begin(s, msg)
    PROVE  /\ \A n : SetDue(n)' <=> SetDue(n) \/ Sets(msg, n)
           /\ \A n : DelDue(n)' <=> DelDue(n) \/ Dels(msg, n)
           /\ Unsent' = Unsent \union Told(msg)
           /\ astray' = astray \union (Told(msg) \intersect Unsent)
<1>1. /\ pending'[s] = msg /\ pending[s] = NoCall
      /\ \A t \in Session \ {s} : pending'[t] = pending[t]
  BY BeginType
<1>2. \A n : ~Sets(NoCall, n) /\ ~Dels(NoCall, n)
  BY DEF Sets, Dels
<1>3. ASSUME NEW n
      PROVE  SetDue(n)' <=> SetDue(n) \/ Sets(msg, n)
  <2>1. ASSUME NEW t \in Session, Sets(pending'[t], n)
        PROVE  SetDue(n) \/ Sets(msg, n)
    BY <1>1, <2>1 DEF SetDue
  <2>2. ASSUME NEW t \in Session, Sets(pending[t], n)
        PROVE  Sets(pending'[t], n)
    BY <1>1, <1>2, <2>2
  <2>3. QED
    BY <1>1, <2>1, <2>2 DEF SetDue, Sets
<1>4. ASSUME NEW n
      PROVE  DelDue(n)' <=> DelDue(n) \/ Dels(msg, n)
  <2>1. ASSUME NEW t \in Session, Dels(pending'[t], n)
        PROVE  DelDue(n) \/ Dels(msg, n)
    BY <1>1, <2>1 DEF DelDue
  <2>2. ASSUME NEW t \in Session, Dels(pending[t], n)
        PROVE  Dels(pending'[t], n)
    BY <1>1, <1>2, <2>2
  <2>3. QED
    BY <1>1, <2>1, <2>2 DEF DelDue, Dels
<1>5. Unsent' = Unsent \union Told(msg)
  <2>1. Told(NoCall) = {} /\ Told(msg)' = Told(msg)
    BY DEF Told
  <2>2. \A t \in Session : Told(pending'[t]) = IF t = s THEN Told(msg) ELSE Told(pending[t])
    BY <1>1
  <2>3. Unsent' = UNION {Told(pending'[t]) : t \in Session}
    BY DEF Unsent, Told
  <2>4. ASSUME NEW x
        PROVE  x \in Unsent' <=> x \in Unsent \/ x \in Told(msg)
    BY <1>1, <2>1, <2>2, <2>3 DEF Unsent
  <2>5. QED
    BY <2>4
<1>6. QED
  BY <1>3, <1>4, <1>5 DEF Begin

\* A session that tells of a mode is one of Unsent.
LEMMA DueUnsent ==
    ASSUME NEW n, SetDue(n) \/ DelDue(n)
    PROVE  n \in Unsent
BY DEF SetDue, DelDue, Sets, Dels, Unsent, Told

\* A step that neither the table nor the datagrams about it are changed by.
LEMMA SameModes ==
    ASSUME ModesInv, SameIds, UNCHANGED <<chanusermodes, lastid, wire>>,
           \A n \in Id : /\ SetDue(n)' <=> SetDue(n)
                         /\ DelDue(n)' <=> DelDue(n)
                         /\ n \in astray => n \in astray',
           ModesRead' => ModesRead
    PROVE  ModesInv'
<1> SUFFICES ASSUME NEW n \in Id
             PROVE  Mode(n)'
  BY DEF ModesInv, SameIds
<1>1. Mode(n) /\ (OnList(n)' <=> OnList(n)) /\ (SetSent(n)' <=> SetSent(n)) /\ (DelSent(n)' <=> DelSent(n))
  BY DEF ModesInv, SameIds, SetSent, DelSent, Sets, Dels
<1>2. KnownId(n)' /\ Erased(n)'
  BY <1>1 DEF Mode, KnownId, Erased
<1>3. ASSUME n \notin astray'
      PROVE  InStep(n)'
  <2>1. InStep(n)
    BY <1>1, <1>3 DEF Mode
  <2>2. \A i \in DOMAIN wire : wire'[i] = wire[i]
    OBVIOUS
  <2>3. QED
    BY <1>1, <2>1 DEF InStep, Sets, Dels
<1>4. QED
  BY <1>2, <1>3 DEF Mode

LEMMA SetUserModeInStep ==
    ASSUME UInv, ModesInv, SameIds, NEW s \in Session, NEW um \in UserMode, SetUserMode(s, um),
           UNCHANGED <<use, wire, stage>>
    PROVE  ModesInv'
<1> DEFINE k == lastid + 1
           msg == [id |-> "SetUserMode", key |-> k, um |-> um]
<1>1. /\ lastid \in 0..MaxId /\ lastid < use.ids /\ use.ids \in 0..MaxId /\ MaxId \in Nat
      /\ DOMAIN chanusermodes \subseteq 1..lastid
  BY MatrixAssumption DEF UInv, UserModesTypeOK, MatrixTypeOK, SetUserMode
<1>2. k \in Id /\ lastid' = k /\ DOMAIN chanusermodes' = DOMAIN chanusermodes \union {k}
  BY <1>1 DEF SetUserMode, Id
<1>3. msg \in Message /\ Begin(s, msg)
  BY <1>2 DEF Message, SetUserMode
<1>4. \A n : (Sets(msg, n) <=> n = k) /\ ~Dels(msg, n)
  <2>1. msg # NoCall /\ msg.id = "SetUserMode" /\ msg.key = k
    BY <1>3, MatrixAssumption
  <2>2. QED
    BY <2>1 DEF Sets, Dels
<1> HIDE DEF msg
<1>5. /\ \A n : SetDue(n)' <=> SetDue(n) \/ n = k
      /\ \A n : DelDue(n)' <=> DelDue(n)
      /\ astray \subseteq astray'
  BY <1>3, <1>4, BeginDue DEF UInv, UserModesTypeOK
<1> SUFFICES ASSUME NEW n \in Id
             PROVE  Mode(n)'
  BY DEF ModesInv, SameIds
<1>6. /\ Mode(n) /\ (OnList(n)' <=> OnList(n)) /\ (SetSent(n)' <=> SetSent(n))
      /\ (DelSent(n)' <=> DelSent(n)) /\ (ModesRead' <=> ModesRead)
  BY DEF ModesInv, SameIds, SetSent, DelSent, Sets, Dels, ModesRead
<1>7. n \in Int /\ (n <= lastid => n # k /\ n <= k)
  BY <1>1 DEF Id
<1>8. KnownId(n)' /\ Erased(n)'
  BY <1>1, <1>2, <1>5, <1>6, <1>7 DEF Mode, KnownId, Erased
<1>9. ASSUME n \notin astray'
      PROVE  InStep(n)'
  <2>1. InStep(n)
    BY <1>5, <1>6, <1>9 DEF Mode
  <2>2. CASE n = k
    BY <1>2, <1>5, <2>2 DEF InStep
  <2>3. CASE n # k
    BY <1>2, <1>5, <1>6, <2>1, <2>3 DEF InStep, Sets, Dels
  <2>4. QED
    BY <2>2, <2>3
<1>10. QED
  BY <1>8, <1>9 DEF Mode

LEMMA DelUserModeInStep ==
    ASSUME UInv, ModesInv, SameIds, NEW s \in Session, NEW k \in Id, k <= lastid,
           DelUserMode(s, k), UNCHANGED <<use, wire, stage>>
    PROVE  ModesInv'
<1> DEFINE msg == [id |-> "DelUserMode", key |-> k]
<1>1. lastid' = lastid /\ DOMAIN chanusermodes' = DOMAIN chanusermodes \ {k}
  BY DEF DelUserMode
<1>2. msg \in Message /\ Begin(s, msg)
  BY DEF Message, DelUserMode
<1>3. (\A n : (Dels(msg, n) <=> n = k) /\ ~Sets(msg, n)) /\ Told(msg) = {k}
  <2>1. msg # NoCall /\ msg.id = "DelUserMode" /\ msg.key = k
    BY <1>2, MatrixAssumption
  <2>2. QED
    BY <2>1 DEF Sets, Dels, Told
<1> HIDE DEF msg
<1>4. /\ \A n : SetDue(n)' <=> SetDue(n)
      /\ \A n : DelDue(n)' <=> DelDue(n) \/ n = k
      /\ astray \subseteq astray' /\ (k \in Unsent => k \in astray')
  BY <1>2, <1>3, BeginDue DEF UInv, UserModesTypeOK
<1> SUFFICES ASSUME NEW n \in Id
             PROVE  Mode(n)'
  BY DEF ModesInv, SameIds
<1>5. /\ Mode(n) /\ (OnList(n)' <=> OnList(n)) /\ (SetSent(n)' <=> SetSent(n))
      /\ (DelSent(n)' <=> DelSent(n)) /\ (ModesRead' <=> ModesRead)
  BY DEF ModesInv, SameIds, SetSent, DelSent, Sets, Dels, ModesRead
<1>6. KnownId(n)' /\ Erased(n)'
  BY <1>1, <1>4, <1>5 DEF Mode, KnownId, Erased
<1>7. ASSUME n \notin astray'
      PROVE  InStep(n)'
  <2>1. InStep(n)
    BY <1>4, <1>5, <1>7 DEF Mode
  <2>2. CASE n = k
    <3>1. ~SetDue(n)
      BY <1>4, <1>7, <2>2, DueUnsent
    <3>2. QED
      BY <1>1, <1>4, <2>2, <3>1 DEF InStep
  <2>3. CASE n # k
    BY <1>1, <1>4, <1>5, <2>1, <2>3 DEF InStep, Sets, Dels
  <2>4. QED
    BY <2>2, <2>3
<1>8. QED
  BY <1>6, <1>7 DEF Mode

\* Procedures about the opers, and logins.
LEMMA OthersInStep ==
    ASSUME UInv, ModesInv, SameIds, NEW s \in Session, NEW msg \in Message, Begin(s, msg),
           msg.id \notin {"SetUserMode", "DelUserMode"},
           UNCHANGED <<chanusermodes, lastid, wire, stage>>
    PROVE  ModesInv'
<1>1. \A n : ~Sets(msg, n) /\ ~Dels(msg, n)
  BY DEF Sets, Dels
<1>2. /\ \A n : (SetDue(n)' <=> SetDue(n)) /\ (DelDue(n)' <=> DelDue(n))
      /\ astray \subseteq astray'
  BY <1>1, BeginDue DEF UInv, UserModesTypeOK
<1>3. QED
  BY <1>2, SameModes DEF ModesRead

\* What is sent is not due any more, and is the last of the buffer if received.
LEMMA QueuedDue ==
    ASSUME MatrixTypeOK, NEW s \in Session, matrixqueue(s)
    PROVE  /\ pending[s] \in Message
           /\ \A n : /\ SetDue(n) <=> SetDue(n)' \/ Sets(pending[s], n)
                     /\ DelDue(n) <=> DelDue(n)' \/ Dels(pending[s], n)
           /\ Unsent = Unsent' \union Told(pending[s])
<1>1. /\ pending \in [Session -> Message \union {NoCall}] /\ pending[s] # NoCall
      /\ pending' = [pending EXCEPT ![s] = NoCall]
  BY DEF MatrixTypeOK, matrixqueue, Idle
<1>2. pending'[s] = NoCall /\ \A t \in Session \ {s} : pending'[t] = pending[t]
  BY <1>1
<1>3. \A n : ~Sets(NoCall, n) /\ ~Dels(NoCall, n)
  BY DEF Sets, Dels
<1>4. ASSUME NEW n
      PROVE  SetDue(n) <=> SetDue(n)' \/ Sets(pending[s], n)
  <2>1. ASSUME NEW t \in Session, Sets(pending[t], n), ~Sets(pending[s], n)
        PROVE  Sets(pending'[t], n)
    BY <1>2, <2>1
  <2>2. ASSUME NEW t \in Session, Sets(pending'[t], n)
        PROVE  Sets(pending[t], n)
    BY <1>2, <1>3, <2>2
  <2>3. QED
    BY <2>1, <2>2 DEF SetDue, Sets
<1>5. ASSUME NEW n
      PROVE  DelDue(n) <=> DelDue(n)' \/ Dels(pending[s], n)
  <2>1. ASSUME NEW t \in Session, Dels(pending[t], n), ~Dels(pending[s], n)
        PROVE  Dels(pending'[t], n)
    BY <1>2, <2>1
  <2>2. ASSUME NEW t \in Session, Dels(pending'[t], n)
        PROVE  Dels(pending[t], n)
    BY <1>2, <1>3, <2>2
  <2>3. QED
    BY <2>1, <2>2 DEF DelDue, Dels
<1>6. Unsent = Unsent' \union Told(pending[s])
  <2>1. Told(NoCall) = {}
    BY DEF Told
  <2>2. \A t \in Session : Told(pending'[t]) = IF t = s THEN {} ELSE Told(pending[t])
    BY <1>2, <2>1
  <2>3. Unsent' = UNION {Told(pending'[t]) : t \in Session}
    BY DEF Unsent, Told
  <2>4. ASSUME NEW x
        PROVE  x \in Unsent <=> x \in Unsent' \/ x \in Told(pending[s])
    BY <2>2, <2>3 DEF Unsent
  <2>5. QED
    BY <2>4
<1>7. QED
  BY <1>1, <1>4, <1>5, <1>6

LEMMA MatrixqueueInStep ==
    ASSUME UInv, ModesInv, NEW s \in Session, matrixqueue(s), UNCHANGED serverVars
    PROVE  ModesInv'
<1> DEFINE msg == pending[s]
<1>1. /\ msg \in Message /\ wire \in Seq(Message)
      /\ \A n : /\ SetDue(n) <=> SetDue(n)' \/ Sets(msg, n)
                /\ DelDue(n) <=> DelDue(n)' \/ Dels(msg, n)
  BY QueuedDue DEF UInv, UserModesTypeOK, MatrixTypeOK
<1>2. /\ UNCHANGED <<chanusermodes, lastid, stage, usermodes_list>>
      /\ IF Received THEN wire' = Append(wire, msg) /\ astray' = astray
                     ELSE wire' = wire /\ astray' = astray \union Told(msg)
  BY DEF matrixqueue, tables, serverVars
<1>3. \A n : Sets(msg, n) \/ Dels(msg, n) => n \in Told(msg)
  BY DEF Sets, Dels, Told
<1> HIDE DEF msg
<1> SUFFICES ASSUME NEW n \in Id
             PROVE  Mode(n)'
  BY <1>2 DEF ModesInv, NoTwins
<1>4. Mode(n) /\ (OnList(n)' <=> OnList(n)) /\ (ModesRead' <=> ModesRead)
  BY <1>2 DEF ModesInv, OnList, ModesRead
<1>5. CASE Received
  <2>1. /\ DOMAIN wire' = DOMAIN wire \union {Len(wire) + 1}
        /\ wire'[Len(wire) + 1] = msg
        /\ \A i \in DOMAIN wire : wire'[i] = wire[i] /\ i < Len(wire) + 1
    <3>1. /\ DOMAIN wire' = 1..(Len(wire) + 1) /\ DOMAIN wire = 1..Len(wire) /\ Len(wire) \in Nat
          /\ \A i \in 1..Len(wire) : wire'[i] = wire[i]
          /\ wire'[Len(wire) + 1] = msg
      BY <1>1, <1>2, <1>5, AppendProperties, LenProperties
    <3>2. QED
      BY <3>1
  <2>2. (SetSent(n)' <=> SetSent(n) \/ Sets(msg, n)) /\ (DelSent(n)' <=> DelSent(n) \/ Dels(msg, n))
    BY <2>1 DEF SetSent, DelSent, Sets, Dels
  <2>3. KnownId(n)' /\ Erased(n)'
    BY <1>1, <1>2, <1>4, <2>2 DEF Mode, KnownId, Erased
  <2>4. ASSUME n \notin astray'
        PROVE  InStep(n)'
    <3>1. InStep(n)
      BY <1>2, <1>4, <1>5, <2>4 DEF Mode
    <3>2. CASE n \in DOMAIN chanusermodes
      BY <1>1, <1>2, <1>4, <2>2, <3>1, <3>2 DEF InStep
    <3>3. CASE n \notin DOMAIN chanusermodes
      <4>1. ~Sets(msg, n) /\ ~SetDue(n)'
        BY <1>1, <3>1, <3>3 DEF InStep
      <4>2. ASSUME ModesRead, NEW i \in DOMAIN wire', Sets(wire'[i], n), ~DelDue(n)'
            PROVE  \E j \in DOMAIN wire' : j > i /\ Dels(wire'[j], n)
        <5>1. i \in DOMAIN wire /\ Sets(wire[i], n)
          BY <2>1, <4>1, <4>2
        <5>2. DelDue(n) \/ \E j \in DOMAIN wire : j > i /\ Dels(wire[j], n)
          BY <3>1, <3>3, <4>2, <5>1 DEF InStep
        <5>3. CASE Dels(msg, n)
          <6>1. Len(wire) + 1 \in DOMAIN wire' /\ Len(wire) + 1 > i /\ wire'[Len(wire) + 1] = msg
            <7>1. Len(wire) \in Nat /\ i \in 1..Len(wire)
              BY <1>1, <5>1, LenProperties
            <7>2. QED
              BY <2>1, <7>1
          <6>2. QED
            BY <5>3, <6>1
        <5>4. CASE ~Dels(msg, n)
          BY <1>1, <2>1, <4>2, <5>2, <5>4
        <5>5. QED
          BY <5>3, <5>4
      <4>3. ModesRead => (OnList(n)' => DelSent(n)' \/ DelDue(n)')
        BY <1>1, <1>4, <2>2, <3>1, <3>3 DEF InStep
      <4>4. QED
        BY <1>2, <1>4, <3>3, <4>1, <4>2, <4>3 DEF InStep, Sets, Dels
    <3>4. QED
      BY <3>2, <3>3
  <2>5. QED
    BY <2>3, <2>4 DEF Mode
<1>6. CASE ~Received
  <2>1. (SetSent(n)' <=> SetSent(n)) /\ (DelSent(n)' <=> DelSent(n))
    BY <1>2, <1>6 DEF SetSent, DelSent, Sets, Dels
  <2>2. KnownId(n)' /\ Erased(n)'
    BY <1>1, <1>2, <1>4, <2>1 DEF Mode, KnownId, Erased
  <2>3. ASSUME n \notin astray'
        PROVE  InStep(n)'
    <3>1. InStep(n) /\ ~Sets(msg, n) /\ ~Dels(msg, n)
      BY <1>2, <1>3, <1>4, <1>6, <2>3 DEF Mode
    <3>2. \A i \in DOMAIN wire : wire'[i] = wire[i]
      BY <1>2, <1>6
    <3>3. QED
      BY <1>1, <1>2, <1>4, <1>6, <2>1, <3>1, <3>2 DEF InStep, Sets, Dels
  <2>4. QED
    BY <2>2, <2>3 DEF Mode
<1>7. QED
  BY <1>5, <1>6

\* A datagram is read: it puts its mode on the list, or takes it off.
LEMMA ReadInStep ==
    ASSUME UInv, ModesInv, NoTwins', wire # <<>>, wire' = Tail(wire),
           UNCHANGED <<chanusermodes, lastid, pending, stage, astray>>,
           \A n \in Id : OnList(n)' <=> (OnList(n) \/ Sets(Head(wire), n)) /\ ~Dels(Head(wire), n)
    PROVE  ModesInv'
<1> DEFINE msg == wire[1]
           m == Len(wire)
<1>1. /\ m \in Nat \ {0} /\ DOMAIN wire = 1..m /\ msg = Head(wire)
      /\ DOMAIN wire' = 1..(m - 1) /\ \A i \in 1..(m - 1) : wire'[i] = wire[i + 1]
  <2>1. wire \in Seq(Message)
    BY DEF UInv, UserModesTypeOK, MatrixTypeOK
  <2>2. m \in Nat /\ DOMAIN wire = 1..m /\ m # 0
    BY <2>1, LenProperties, EmptySeq
  <2>3. QED
    BY <2>1, <2>2, HeadTailProperties, LenProperties
<1> SUFFICES ASSUME NEW n \in Id
             PROVE  Mode(n)'
  BY DEF ModesInv
<1>2. /\ Mode(n) /\ (ModesRead' <=> ModesRead) /\ (SetDue(n)' <=> SetDue(n)) /\ (DelDue(n)' <=> DelDue(n))
      /\ OnList(n)' <=> (OnList(n) \/ Sets(msg, n)) /\ ~Dels(msg, n)
  BY <1>1 DEF ModesInv, ModesRead, SetDue, DelDue, Sets, Dels
<1>3. (SetSent(n) <=> SetSent(n)' \/ Sets(msg, n)) /\ (DelSent(n) <=> DelSent(n)' \/ Dels(msg, n))
  <2>1. \A i \in 1..m : i = 1 \/ (i - 1 \in 1..(m - 1) /\ wire[i] = wire'[i - 1])
    BY <1>1
  <2>2. \A i \in 1..(m - 1) : i + 1 \in 1..m /\ wire'[i] = wire[i + 1]
    BY <1>1
  <2>3. 1 \in 1..m
    BY <1>1
  <2>4. SetSent(n) <=> SetSent(n)' \/ Sets(msg, n)
    <3>1. ASSUME NEW i \in 1..m, Sets(wire[i], n), i # 1
          PROVE  i - 1 \in 1..(m - 1) /\ Sets(wire'[i - 1], n)
      <4>1. i - 1 \in 1..(m - 1) /\ wire'[i - 1] = wire[i]
        BY <2>1, <3>1
      <4>2. QED
        BY <3>1, <4>1
    <3>0. SetSent(n) => SetSent(n)' \/ Sets(msg, n)
      BY <1>1, <3>1 DEF SetSent, Sets
    <3>2. SetSent(n)' \/ Sets(msg, n) => SetSent(n)
      BY <1>1, <2>2, <2>3 DEF SetSent, Sets
    <3>3. QED
      BY <3>0, <3>2
  <2>5. DelSent(n) <=> DelSent(n)' \/ Dels(msg, n)
    <3>1. ASSUME NEW i \in 1..m, Dels(wire[i], n), i # 1
          PROVE  i - 1 \in 1..(m - 1) /\ Dels(wire'[i - 1], n)
      <4>1. i - 1 \in 1..(m - 1) /\ wire'[i - 1] = wire[i]
        BY <2>1, <3>1
      <4>2. QED
        BY <3>1, <4>1
    <3>0. DelSent(n) => DelSent(n)' \/ Dels(msg, n)
      BY <1>1, <3>1 DEF DelSent, Dels
    <3>2. DelSent(n)' \/ Dels(msg, n) => DelSent(n)
      BY <1>1, <2>2, <2>3 DEF DelSent, Dels
    <3>3. QED
      BY <3>0, <3>2
  <2>6. QED
    BY <2>4, <2>5
<1>4. KnownId(n)' /\ Erased(n)'
  BY <1>2, <1>3 DEF Mode, KnownId, Erased
<1>5. ASSUME n \notin astray'
      PROVE  InStep(n)'
  <2>1. InStep(n) /\ Erased(n)
    BY <1>2, <1>5 DEF Mode
  <2>2. CASE n \in DOMAIN chanusermodes
    <3>1. ~Dels(msg, n)
      BY <1>3, <2>1, <2>2 DEF Erased
    <3>2. QED
      BY <1>2, <1>3, <2>1, <2>2, <3>1 DEF InStep
  <2>3. CASE n \notin DOMAIN chanusermodes
    <3>1. ASSUME ModesRead, NEW i \in 1..m, Sets(wire[i], n), ~DelDue(n)
          PROVE  \E j \in 1..(m - 1) : j > i - 1 /\ Dels(wire'[j], n)
      <4>1. PICK j \in 1..m : j > i /\ Dels(wire[j], n)
        BY <1>1, <2>1, <2>3, <3>1 DEF InStep
      <4>2. j - 1 \in 1..(m - 1) /\ j - 1 > i - 1 /\ wire'[j - 1] = wire[j]
        BY <1>1, <4>1
      <4>3. QED
        BY <4>1, <4>2
    <3>2. ModesRead /\ OnList(n)' => DelSent(n)' \/ DelDue(n)'
      <4>1. CASE Sets(msg, n)
        <5>1. 1 \in 1..m
          BY <1>1
        <5>2. ModesRead /\ ~DelDue(n) => \E j \in 1..(m - 1) : Dels(wire'[j], n)
          BY <3>1, <4>1, <5>1
        <5>3. ModesRead /\ ~DelDue(n) => DelSent(n)'
          BY <1>1, <5>2 DEF DelSent, Dels
        <5>4. QED
          BY <1>2, <5>3
      <4>2. CASE ~Sets(msg, n)
        BY <1>2, <1>3, <2>1, <2>3, <4>2 DEF InStep
      <4>3. QED
        BY <4>1, <4>2
    <3>3. ASSUME ModesRead, NEW i \in 1..(m - 1), Sets(wire'[i], n), ~DelDue(n)
          PROVE  \E j \in 1..(m - 1) : j > i /\ Dels(wire'[j], n)
      <4>1. i + 1 \in 1..m /\ wire[i + 1] = wire'[i] /\ (i + 1) - 1 = i
        BY <1>1
      <4>2. \E j \in 1..(m - 1) : j > (i + 1) - 1 /\ Dels(wire'[j], n)
        BY <3>1, <3>3, <4>1
      <4>3. QED
        BY <4>1, <4>2
    <3>4. ~SetDue(n)
      BY <2>1, <2>3 DEF InStep
    <3>5. (ModesRead => \A i \in DOMAIN wire : Sets(wire[i], n) =>
                            DelDue(n) \/ \E j \in DOMAIN wire : j > i /\ Dels(wire[j], n))'
      <4>1. ASSUME ModesRead', NEW i \in DOMAIN wire', Sets(wire'[i], n), ~DelDue(n)'
            PROVE  \E j \in DOMAIN wire' : j > i /\ Dels(wire'[j], n)
        BY <1>1, <1>2, <3>3, <4>1
      <4>2. QED
        BY <4>1 DEF Sets, Dels
    <3>6. n \notin DOMAIN chanusermodes' /\ ~SetDue(n)'
      BY <1>2, <2>3, <3>4
    <3>7. QED
      BY <1>2, <3>2, <3>5, <3>6 DEF InStep
  <2>4. QED
    BY <2>2, <2>3
<1>6. QED
  BY <1>4, <1>5 DEF Mode

\* The list is another, with the same ids of rows.
LEMMA SameListInStep ==
    ASSUME ModesInv, UNCHANGED <<usermodes_list, chanusermodes, lastid, pending, wire, astray>>,
           ModesRead' => ModesRead
    PROVE  ModesInv'
<1>1. SameIds
  BY DEF SameIds, ModesInv, NoTwins, OnList
<1>2. \A n : (SetDue(n)' <=> SetDue(n)) /\ (DelDue(n)' <=> DelDue(n))
  BY DEF SetDue, DelDue, Sets, Dels
<1>3. QED
  BY <1>1, <1>2, SameModes

LEMMA QueueInStep ==
    ASSUME UInv, ModesInv, processQueue
    PROVE  ModesInv'
<1> DEFINE msg == Head(wire)
<1>1. /\ wire \in Seq(Message) /\ wire # <<>> /\ wire' = Tail(wire)
      /\ usermodes_list \in Seq(Entry) /\ NoTwins
      /\ UNCHANGED <<chanusermodes, lastid, pending, stage, astray>>
  BY DEF UInv, UserModesTypeOK, MatrixTypeOK, processQueue, tables, ModesInv
<1>2. msg \in Message /\ msg # NoCall
  BY <1>1, HeadTailProperties, MatrixAssumption
<1>3. addOper(msg) \/ delOper(msg) \/ setUserMode(msg) \/ delUserMode(msg) \/ authClient(msg)
  BY DEF processQueue
<1> HIDE DEF msg
<1>4. ASSUME NoTwins', \A n \in Id : OnList(n)' <=> (OnList(n) \/ Sets(msg, n)) /\ ~Dels(msg, n)
      PROVE  ModesInv'
  BY <1>1, <1>4, ReadInStep DEF msg
<1>5. CASE addOper(msg) \/ delOper(msg) \/ authClient(msg)
  <2>1. usermodes_list' = usermodes_list /\ msg.id \in {"AddOper", "DelOper", "AuthClient"}
    BY <1>5 DEF addOper, delOper, authClient
  <2>2. \A n \in Id : ~Sets(msg, n) /\ ~Dels(msg, n)
    BY <2>1 DEF Sets, Dels
  <2>3. NoTwins' /\ \A n \in Id : OnList(n)' <=> OnList(n)
    BY <1>1, <2>1 DEF NoTwins, OnList
  <2>4. QED
    BY <1>4, <2>2, <2>3
<1>6. CASE setUserMode(msg)
  <2>1. \A n \in Id : (Sets(msg, n) <=> n = msg.key) /\ ~Dels(msg, n)
    BY <1>2, <1>6 DEF setUserMode, Sets, Dels
  <2>2. CASE WithId(msg.key) # {}
    <3>1. usermodes_list' = usermodes_list /\ OnList(msg.key)
      BY <1>6, <2>2, WithIdOnList DEF setUserMode
    <3>2. NoTwins' /\ \A n \in Id : OnList(n)' <=> OnList(n)
      BY <1>1, <3>1 DEF NoTwins, OnList
    <3>3. QED
      BY <1>4, <2>1, <3>1, <3>2
  <2>3. CASE WithId(msg.key) = {}
    <3>1. PICK e : e = [id |-> msg.key, um |-> msg.um, isGlobal |-> TRUE]
      OBVIOUS
    <3>2. e \in Entry /\ e.id = msg.key
      BY <1>2, <1>6, <3>1 DEF setUserMode, Message, Entry
    <3>3. usermodes_list' = Append(usermodes_list, e)
      BY <1>6, <2>3, <3>1 DEF setUserMode
    <3>4. NoTwins' /\ \A n : OnList(n)' <=> OnList(n) \/ n = msg.key
      BY <1>1, <2>3, <3>2, <3>3, AppendIds
    <3>5. QED
      BY <1>4, <2>1, <3>4
  <2>4. QED
    BY <2>2, <2>3
<1>7. CASE delUserMode(msg)
  <2>1. \A n \in Id : (Dels(msg, n) <=> n = msg.key) /\ ~Sets(msg, n)
    BY <1>2, <1>7 DEF delUserMode, Sets, Dels
  <2>2. CASE WithId(msg.key) = {}
    <3>1. usermodes_list' = usermodes_list /\ ~OnList(msg.key)
      BY <1>7, <2>2, WithIdOnList DEF delUserMode
    <3>2. NoTwins' /\ \A n \in Id : OnList(n)' <=> OnList(n)
      BY <1>1, <3>1 DEF NoTwins, OnList
    <3>3. QED
      BY <1>4, <2>1, <3>1, <3>2
  <2>3. CASE WithId(msg.key) # {}
    <3>1. PICK e \in WithId(msg.key) : Drop(e)
      BY <1>7, <2>3 DEF delUserMode
    <3>2. e.id = msg.key
      BY <3>1 DEF WithId
    <3>3. NoTwins' /\ \A n : OnList(n)' <=> OnList(n) /\ n # msg.key
      BY <1>1, <3>1, <3>2, DropIds
    <3>4. QED
      BY <1>4, <2>1, <3>3
  <2>4. QED
    BY <2>2, <2>3
<1>8. QED
  BY <1>3, <1>5, <1>6, <1>7

\* The rows in any order: each has its place on the list, and one only.
LEMMA RowsInOrder ==
    ASSUME NEW D, IsFiniteSet(D), NEW ids \in SetToSeqs(D)
    PROVE  /\ \A i, j \in DOMAIN ids : ids[i] = ids[j] => i = j
           /\ \A n : n \in D <=> \E i \in DOMAIN ids : ids[i] = n
<1> DEFINE C == Cardinality(D)
<1>1. C \in Nat
  BY FS_CardinalityType
<1>2. ids \in [1..C -> D] /\ \A i, j \in 1..C : i # j => ids[i] # ids[j]
  BY DEF SetToSeqs
<1>3. IsFiniteSet(1..C) /\ Cardinality(1..C) = C
  <2>1. 1 \in Int /\ C \in Int
    BY <1>1
  <2>2. IsFiniteSet(1..C) /\ Cardinality(1..C) = IF 1 > C THEN 0 ELSE C - 1 + 1
    BY <2>1, FS_Interval
  <2>3. QED
    BY <1>1, <2>2
<1>4. ids \in Injection(1..C, D)
  BY <1>2 DEF Injection, IsInjective
<1>5. ids \in Surjection(1..C, D)
  BY <1>3, <1>4, FS_Injection
<1>6. \A n \in D : \E i \in 1..C : ids[i] = n
  BY <1>5 DEF Surjection
<1>7. QED
  BY <1>2, <1>6

\* The table is read: its rows are the list.
LEMMA LoadInStep ==
    ASSUME UInv, ModesInv, loadUserModes
    PROVE  ModesInv'
<1> DEFINE D == DOMAIN chanusermodes
<1>1. /\ stage = "started" /\ stage' = "modes" /\ wire = <<>>
      /\ UNCHANGED <<chanusermodes, lastid, pending, wire>>
      /\ astray' = astray \ (Id \ Unsent)
  BY DEF loadUserModes, UInv, InPass, tables
<1>2. D \subseteq 1..lastid /\ lastid \in Nat
  BY MatrixAssumption DEF UInv, UserModesTypeOK, MatrixTypeOK
<1>3. IsFiniteSet(D)
  <2>1. IsFiniteSet(1..lastid)
    <3>1. 1 \in Int /\ lastid \in Int
      BY <1>2
    <3>2. QED
      BY <3>1, FS_Interval
  <2>2. QED
    BY <1>2, <2>1, FS_Subset
<1>4. PICK ids \in SetToSeqs(D) :
         usermodes_list' = [i \in DOMAIN ids |->
             [id |-> ids[i], um |-> chanusermodes[ids[i]], isGlobal |-> TRUE]]
  BY DEF loadUserModes
<1>5. NoTwins' /\ \A n : OnList(n)' <=> n \in D
  <2>1. DOMAIN usermodes_list' = DOMAIN ids /\ \A i \in DOMAIN ids : usermodes_list'[i].id = ids[i]
    BY <1>4
  <2>2. /\ \A i, j \in DOMAIN ids : ids[i] = ids[j] => i = j
        /\ \A n : n \in D <=> \E i \in DOMAIN ids : ids[i] = n
    BY <1>3, RowsInOrder
  <2>3. NoTwins'
    BY <2>1, <2>2 DEF NoTwins
  <2>4. ASSUME NEW n
        PROVE  OnList(n)' <=> n \in D
    BY <2>1, <2>2 DEF OnList
  <2>5. QED
    BY <2>3, <2>4
<1> SUFFICES ASSUME NEW n \in Id
             PROVE  Mode(n)'
  BY <1>5 DEF ModesInv
<1>6. /\ Mode(n) /\ (SetDue(n)' <=> SetDue(n)) /\ (DelDue(n)' <=> DelDue(n))
      /\ (SetSent(n)' <=> SetSent(n)) /\ (DelSent(n)' <=> DelSent(n))
  BY <1>1 DEF ModesInv, SetDue, DelDue, SetSent, DelSent, Sets, Dels
<1>7. n \in D => n <= lastid
  BY <1>2
<1>8. KnownId(n)' /\ Erased(n)'
  BY <1>1, <1>5, <1>6, <1>7 DEF Mode, KnownId, Erased
<1>9. ASSUME n \notin astray'
      PROVE  InStep(n)'
  <2>1. SetDue(n) => n \in D
    BY <1>1, <1>6, <1>9, DueUnsent DEF Mode, InStep
  <2>2. DOMAIN wire' = {}
    BY <1>1
  <2>3. QED
    BY <1>1, <1>5, <1>6, <2>1, <2>2 DEF InStep
<1>10. QED
  BY <1>8, <1>9 DEF Mode

\* The list and the buffer are gone, and the database carries on.
LEMMA CrashInStep ==
    ASSUME UInv, ModesInv, crash
    PROVE  ModesInv'
<1>1. /\ wire' = <<>> /\ usermodes_list' = <<>> /\ stage' = "down" /\ pending["old"] = NoCall
      /\ pending' = [pending EXCEPT !["old"] = pending["server"], !["server"] = NoCall]
      /\ UNCHANGED <<chanusermodes, lastid, astray>>
      /\ pending \in [Session -> Message \union {NoCall}]
  BY DEF crash, tables, Idle, UInv, UserModesTypeOK, MatrixTypeOK
<1>2. /\ pending'["old"] = pending["server"] /\ pending'["server"] = NoCall
      /\ \A s \in Session \ {"server", "old"} : pending'[s] = pending[s]
      /\ "server" \in Session /\ "old" \in Session
  BY <1>1 DEF Session
<1>3. ASSUME NEW n
      PROVE  (SetDue(n)' <=> SetDue(n)) /\ (DelDue(n)' <=> DelDue(n))
  <2>1. ~Sets(NoCall, n) /\ ~Dels(NoCall, n)
    BY DEF Sets, Dels
  <2>2. SetDue(n)' <=> \E s \in Session : Sets(pending'[s], n)
    BY DEF SetDue, Sets
  <2>3. DelDue(n)' <=> \E s \in Session : Dels(pending'[s], n)
    BY DEF DelDue, Dels
  <2>4. ASSUME NEW s \in Session
        PROVE  \E t \in Session : pending'[t] = pending[s] \/ pending[s] = NoCall
    BY <1>1, <1>2
  <2>5. ASSUME NEW s \in Session
        PROVE  \E t \in Session : pending[t] = pending'[s] \/ pending'[s] = NoCall
    BY <1>1, <1>2
  <2>6. SetDue(n)' <=> SetDue(n)
    BY <1>1, <1>2, <2>1, <2>2 DEF SetDue
  <2>7. DelDue(n)' <=> DelDue(n)
    BY <1>1, <1>2, <2>1, <2>3 DEF DelDue
  <2>8. QED
    BY <2>6, <2>7
<1>4. DOMAIN wire' = {} /\ DOMAIN usermodes_list' = {}
  BY <1>1
<1>5. NoTwins'
  BY <1>4 DEF NoTwins
<1> SUFFICES ASSUME NEW n \in Id
             PROVE  Mode(n)'
  BY <1>5 DEF ModesInv
<1>6. Mode(n) /\ ~SetSent(n)' /\ ~DelSent(n)' /\ ~OnList(n)' /\ ~ModesRead'
  BY <1>1, <1>4 DEF ModesInv, SetSent, DelSent, OnList, ModesRead
<1>7. QED
  BY <1>1, <1>3, <1>6 DEF Mode, KnownId, Erased, InStep

LEMMA LocalIds == Id \intersect LocalId = {}
BY MatrixAssumption, UserModesAssumption DEF Id, LocalId

\* A local mode goes on the list, a global one into the table.
LEMMA AddInStep ==
    ASSUME UInv, ModesInv, NEW um \in UserMode, NEW isGlobal \in BOOLEAN, addUserMode(um, isGlobal),
           UNCHANGED <<use, wire, stage>>
    PROVE  ModesInv'
<1>1. CASE isGlobal
  <2>1. SetUserMode("server", um) /\ usermodes_list' = usermodes_list
    BY <1>1 DEF addUserMode
  <2>2. SameIds
    BY <2>1 DEF SameIds, ModesInv, NoTwins, OnList
  <2>3. "server" \in Session
    BY DEF Session
  <2>4. QED
    BY <2>1, <2>2, <2>3, SetUserModeInStep
<1>2. CASE ~isGlobal
  <2>1. PICK n \in LocalId : /\ WithId(n) = {}
                             /\ usermodes_list' = Append(usermodes_list, [id |-> n, um |-> um, isGlobal |-> FALSE])
    BY <1>2 DEF addUserMode
  <2>2. UNCHANGED <<chanusermodes, lastid, pending, astray>>
    BY <1>2 DEF addUserMode, tables
  <2>3. PICK e : e = [id |-> n, um |-> um, isGlobal |-> FALSE]
    OBVIOUS
  <2>4. e \in Entry /\ e.id = n
    BY <2>3 DEF Entry
  <2>5. NoTwins' /\ \A k : OnList(k)' <=> OnList(k) \/ k = n
    BY <2>1, <2>3, <2>4, AppendIds DEF UInv, UserModesTypeOK, ModesInv
  <2>6. SameIds
    BY <2>5, LocalIds DEF SameIds
  <2>7. \A k : (SetDue(k)' <=> SetDue(k)) /\ (DelDue(k)' <=> DelDue(k))
    BY <2>2 DEF SetDue, DelDue, Sets, Dels
  <2>8. QED
    BY <2>2, <2>6, <2>7, SameModes DEF ModesRead
<1>3. QED
  BY <1>1, <1>2

\* A local mode goes off the list, the row of a global one out of the table.
LEMMA RemoveInStep ==
    ASSUME UInv, ModesInv, NEW e \in ToSet(usermodes_list), removeUsermode(e),
           UNCHANGED <<use, wire, stage>>
    PROVE  ModesInv'
<1>1. usermodes_list \in Seq(Entry) /\ NoTwins
  BY DEF UInv, UserModesTypeOK, ModesInv
<1>2. PICK i \in DOMAIN usermodes_list : e = usermodes_list[i]
  BY DEF ToSet
<1>3. e \in Entry /\ OnList(e.id)
  BY <1>1, <1>2, ElementOfSeq DEF OnList
<1>4. CASE ~e.isGlobal
  <2>1. Drop(e) /\ UNCHANGED <<chanusermodes, lastid, pending, astray>>
    BY <1>4 DEF removeUsermode, tables
  <2>2. NoTwins' /\ \A n : OnList(n)' <=> OnList(n) /\ n # e.id
    BY <1>1, <2>1, DropIds
  <2>3. e.id \in LocalId
    BY <1>3, <1>4 DEF Entry
  <2>4. SameIds
    BY <2>2, <2>3, LocalIds DEF SameIds
  <2>5. \A k : (SetDue(k)' <=> SetDue(k)) /\ (DelDue(k)' <=> DelDue(k))
    BY <2>1 DEF SetDue, DelDue, Sets, Dels
  <2>6. QED
    BY <2>1, <2>4, <2>5, SameModes DEF ModesRead
<1>5. CASE e.isGlobal
  <2>1. /\ DelUserMode("server", e.id)
        /\ usermodes_list' = [j \in DOMAIN usermodes_list |->
               IF usermodes_list[j] = e THEN Lapsed(e) ELSE usermodes_list[j]]
    BY <1>5 DEF removeUsermode
  <2>2. e.id \in Id
    BY <1>3, <1>5 DEF Entry
  <2>3. PICK l : l = Lapsed(e)
    OBVIOUS
  <2>4. l.id = e.id
    <3>1. PICK um1 : um1 = [e.um EXCEPT !.expires = FALSE]
      OBVIOUS
    <3>2. l = [e EXCEPT !.um = um1]
      BY <2>3, <3>1 DEF Lapsed
    <3>3. QED
      BY <1>3, <3>2 DEF Entry
  <2>5. DOMAIN usermodes_list' = DOMAIN usermodes_list
    BY <2>1
  <2>6. \A j \in DOMAIN usermodes_list : usermodes_list'[j].id = usermodes_list[j].id
    BY <2>1, <2>3, <2>4
  <2>7. SameIds
    BY <1>1, <2>5, <2>6 DEF SameIds, NoTwins, OnList
  <2>8. e.id <= lastid
    BY <1>3, <2>2 DEF ModesInv, Mode, KnownId
  <2>9. "server" \in Session
    BY DEF Session
  <2>10. QED
    BY <2>1, <2>2, <2>7, <2>8, <2>9, DelUserModeInStep
<1>6. QED
  BY <1>4, <1>5

\* A web page of the staff calls a procedure.
LEMMA PanelInStep ==
    ASSUME UInv, ModesInv, NEW s \in Panel, panel(s), UNCHANGED serverVars
    PROVE  ModesInv'
<1>1. UNCHANGED <<use, wire, stage, usermodes_list>> /\ s \in Session /\ use \in Uses
  BY DEF panel, serverVars, Session, UInv, UserModesTypeOK, MatrixTypeOK
<1>2. SameIds
  BY <1>1 DEF SameIds, ModesInv, NoTwins, OnList
<1>3. ASSUME NEW p \in Profile, NEW r \in use.rights, SetGlobalOper(s, p, r)
      PROVE  ModesInv'
  <2>1. PICK msg : msg = [id |-> "AddOper", key |-> p, rights |-> r]
    OBVIOUS
  <2>2. r \in Mask
    BY <1>1, MatrixAssumption
  <2>3. msg \in Message /\ msg.id = "AddOper" /\ Begin(s, msg)
    BY <1>3, <2>1, <2>2 DEF Message, SetGlobalOper
  <2>4. QED
    BY <1>1, <1>2, <1>3, <2>3, OthersInStep DEF SetGlobalOper
<1>4. ASSUME NEW p \in Profile, DelGlobalOper(s, p)
      PROVE  ModesInv'
  <2>1. PICK msg : msg = [id |-> "DelOper", key |-> p]
    OBVIOUS
  <2>2. msg \in Message /\ msg.id = "DelOper" /\ Begin(s, msg)
    BY <1>4, <2>1 DEF Message, DelGlobalOper
  <2>3. QED
    BY <1>1, <1>2, <1>4, <2>2, OthersInStep DEF DelGlobalOper
<1>5. ASSUME NEW um \in use.forms, SetUserMode(s, um)
      PROVE  ModesInv'
  BY <1>1, <1>2, <1>5, MatrixAssumption, SetUserModeInStep
<1>6. ASSUME NEW n \in 1..lastid, DelUserMode(s, n)
      PROVE  ModesInv'
  <2>1. n \in Id /\ n <= lastid
    BY MatrixAssumption DEF UInv, UserModesTypeOK, MatrixTypeOK, Id
  <2>2. QED
    BY <1>1, <1>2, <1>6, <2>1, DelUserModeInStep
<1>7. QED
  BY <1>3, <1>4, <1>5, <1>6 DEF panel

\* What the loop does beside: it reads and writes clients.
LEMMA LoopInStep ==
    ASSUME UInv, ModesInv,
           \/ start \/ loadOpers \/ setupQueueListener \/ startPass \/ endLines \/ endExpiry
           \/ \E c \in Slot : accept(c) \/ deleteClient(c) \/ startLines(c) \/ cmd_user(c) \/ cmd_quit(c)
           \/ UNCHANGED vars
    PROVE  ModesInv'
<1>1. CASE loadOpers
  <2>1. /\ UNCHANGED <<usermodes_list, chanusermodes, lastid, pending, wire>>
        /\ stage = "modes" /\ astray' = astray \ (Profile \ Unsent)
    BY <1>1 DEF loadOpers, tables
  <2>2. SameIds
    BY <2>1 DEF SameIds, ModesInv, NoTwins, OnList
  <2>3. \A n : (SetDue(n)' <=> SetDue(n)) /\ (DelDue(n)' <=> DelDue(n))
    BY <2>1 DEF SetDue, DelDue, Sets, Dels
  <2>4. \A n \in Id : n \in astray => n \in astray'
    BY <2>1, MatrixAssumption
  <2>5. QED
    BY <2>1, <2>2, <2>3, <2>4, SameModes DEF ModesRead
<1>2. CASE start \/ setupQueueListener
  <2>1. /\ UNCHANGED <<usermodes_list, chanusermodes, lastid, pending, wire, astray>>
        /\ ModesRead' => ModesRead
    BY <1>2 DEF start, setupQueueListener, tables, serverVars, ModesRead
  <2>2. QED
    BY <2>1, SameListInStep
<1>3. CASE startPass \/ endLines \/ endExpiry \/ UNCHANGED vars
  <2>1. /\ UNCHANGED <<usermodes_list, chanusermodes, lastid, pending, wire, astray, stage>>
    BY <1>3 DEF startPass, endLines, endExpiry, vars, matrixVars, tables, serverVars
  <2>2. QED
    BY <2>1, SameListInStep DEF ModesRead
<1>4. ASSUME NEW c \in Slot,
             accept(c) \/ deleteClient(c) \/ startLines(c) \/ cmd_user(c) \/ cmd_quit(c)
      PROVE  ModesInv'
  <2>1. /\ UNCHANGED <<usermodes_list, chanusermodes, lastid, pending, wire, astray, stage>>
    BY <1>4 DEF accept, deleteClient, startLines, cmd_user, cmd_quit, matrixVars, tables
  <2>2. QED
    BY <2>1, SameListInStep DEF ModesRead
<1>5. QED
  BY <1>1, <1>2, <1>3, <1>4

\* Lines of clients that call the database.
LEMMA LinesInStep ==
    ASSUME UInv, ModesInv, NEW c \in Slot,
           cmd_login(c) \/ cmd_setusermode(c) \/ cmd_kill(c) \/ cmd_kline(c)
    PROVE  ModesInv'
<1>1. CASE cmd_login(c)
  <2>1. PICK p \in Profile \union {NoProfile} :
           AuthClientCall("server", client[c].sd, p) /\ UNCHANGED <<use, wire, stage, usermodes_list>>
    BY <1>1 DEF cmd_login
  <2>2. PICK msg : msg = [id |-> "AuthClient", sd |-> client[c].sd, key |-> p]
    OBVIOUS
  <2>3. client[c].sd \in Sd
    BY DEF UInv, UserModesTypeOK, ClientRec
  <2>4. msg \in Message /\ msg.id = "AuthClient" /\ Begin("server", msg) /\ UNCHANGED tables
    BY <2>1, <2>2, <2>3 DEF Message, AuthClientCall
  <2>5. SameIds /\ "server" \in Session
    BY <2>1 DEF SameIds, ModesInv, NoTwins, OnList, Session
  <2>6. QED
    BY <2>1, <2>4, <2>5, OthersInStep DEF tables
<1>2. CASE cmd_setusermode(c)
  <2>1. PICK um \in use.forms, isGlobal \in BOOLEAN :
           addUserMode(um, isGlobal) /\ UNCHANGED <<use, wire, stage>>
    BY <1>2 DEF cmd_setusermode
  <2>2. um \in UserMode
    BY MatrixAssumption DEF UInv, UserModesTypeOK, MatrixTypeOK
  <2>3. QED
    BY <2>1, <2>2, AddInStep
<1>3. ASSUME NEW h \in Host, Banned(c, h), UNCHANGED <<use, wire, stage>>
      PROVE  ModesInv'
  <2>1. CASE HasRight(c, "GLOBALOWNER")
    <3>1. killed(h) \in UserMode
      BY DEF killed, UserMode
    <3>2. QED
      BY <1>3, <2>1, <3>1, AddInStep DEF Banned
  <2>2. CASE ~HasRight(c, "GLOBALOWNER")
    BY <1>3, <2>2, SameListInStep DEF Banned, tables, ModesRead
  <2>3. QED
    BY <2>1, <2>2
<1>4. CASE cmd_kill(c)
  <2>1. PICK t \in Listed : Banned(c, client[t].host) /\ UNCHANGED <<use, wire, stage>>
    BY <1>4 DEF cmd_kill
  <2>2. client[t].host \in Host
    BY DEF UInv, UserModesTypeOK, ClientRec, Listed
  <2>3. QED
    BY <1>3, <2>1, <2>2
<1>5. CASE cmd_kline(c)
  BY <1>3, <1>5 DEF cmd_kline
<1>6. QED
  BY <1>1, <1>2, <1>4, <1>5

LEMMA ModesInit ==
    ASSUME UserModesInit
    PROVE  ModesInv
<1>1. /\ DOMAIN wire = {} /\ DOMAIN usermodes_list = {} /\ stage = "down"
      /\ \A s \in Session : pending[s] = NoCall
  BY DEF UserModesInit, MatrixInit
<1>2. \A n : ~SetSent(n) /\ ~DelSent(n) /\ ~OnList(n) /\ ~SetDue(n) /\ ~DelDue(n)
  BY <1>1 DEF SetSent, DelSent, OnList, SetDue, DelDue, Sets, Dels
<1>3. QED
  BY <1>1, <1>2 DEF ModesInv, NoTwins, Mode, KnownId, Erased, InStep, ModesRead

\* The first invariant: what each id's row, place on the list and datagrams have
\* to do with each other (Mode), whatever the procedures of the database, the
\* queue and the chat server's own calls do in between.
THEOREM ModesInvariance == UserModesSpec => []ModesInv
<1>1. ASSUME UInv, ModesInv, UserModesNext
      PROVE  ModesInv'
  <2>1. CASE loadUserModes \/ crash \/ processQueue
    BY <1>1, <2>1, LoadInStep, CrashInStep, QueueInStep
  <2>2. CASE start \/ loadOpers \/ setupQueueListener \/ startPass \/ endLines \/ endExpiry
    BY <1>1, <2>2, LoopInStep
  <2>3. CASE checkExpiry
    BY <1>1, <2>3, RemoveInStep DEF checkExpiry
  <2>4. ASSUME NEW c \in Slot, accept(c) \/ mainLoop(c)
        PROVE  ModesInv'
    <3>1. CASE accept(c) \/ deleteClient(c) \/ startLines(c) \/ cmd_user(c) \/ cmd_quit(c)
      BY <1>1, <3>1, LoopInStep
    <3>2. CASE cmd_login(c) \/ cmd_setusermode(c) \/ cmd_kill(c) \/ cmd_kline(c)
      BY <1>1, <3>2, LinesInStep
    <3>3. CASE cmd_delusermode(c)
      BY <1>1, <3>3, RemoveInStep DEF cmd_delusermode
    <3>4. QED
      BY <2>4, <3>1, <3>2, <3>3 DEF mainLoop
  <2>5. CASE \E s \in Session : matrixqueue(s) /\ UNCHANGED serverVars
    BY <1>1, <2>5, MatrixqueueInStep
  <2>6. CASE \E s \in Panel : panel(s) /\ UNCHANGED serverVars
    BY <1>1, <2>6, PanelInStep
  <2>7. QED
    BY <1>1, <2>1, <2>2, <2>3, <2>4, <2>5, <2>6 DEF UserModesNext
<1>2. ASSUME UInv, ModesInv, [UserModesNext]_vars
      PROVE  ModesInv'
  BY <1>1, <1>2, LoopInStep
<1>3. QED
  BY <1>2, ModesInit, UserModesInvariance, PTL DEF UserModesSpec

\* No mode is on the list twice, in whatever order the rows are read and their
\* datagrams come (loadUserModes, getUserMode in processQueue).
THEOREM NoModeIsTwice == UserModesSpec => []NoTwins
<1>1. ModesInv => NoTwins
  BY DEF ModesInv
<1>2. QED
  BY <1>1, ModesInvariance, PTL

\* The list of user modes is the table but for what the datagrams on their way
\* will make of it, and those that were lost or crossed others.
THEOREM ModesStayInStep == UserModesSpec => []ModesInStep
<1>1. ASSUME UInv, ModesInv
      PROVE  ModesInStep
  <2> SUFFICES ASSUME stage = "up", NEW n \in Id \ astray
               PROVE  n \in DOMAIN chanusermodes <=>
                        /\ \/ WithId(n) # {}
                           \/ \E msg \in Unread : msg # NoCall /\ msg.id = "SetUserMode" /\ msg.key = n
                        /\ ~\E msg \in Unread : msg # NoCall /\ msg.id = "DelUserMode" /\ msg.key = n
    BY DEF ModesInStep
  <2>1. InStep(n) /\ Erased(n) /\ ModesRead /\ (WithId(n) # {} <=> OnList(n))
    BY <1>1, WithIdOnList DEF ModesInv, Mode, ModesRead
  <2>2. /\ (\E msg \in Unread : msg # NoCall /\ msg.id = "SetUserMode" /\ msg.key = n) <=> SetSent(n) \/ SetDue(n)
        /\ (\E msg \in Unread : msg # NoCall /\ msg.id = "DelUserMode" /\ msg.key = n) <=> DelSent(n) \/ DelDue(n)
    BY DEF Unread, SetSent, SetDue, DelSent, DelDue, Sets, Dels
  <2>3. CASE n \in DOMAIN chanusermodes
    BY <2>1, <2>2, <2>3 DEF InStep, Erased
  <2>4. CASE n \notin DOMAIN chanusermodes
    <3>1. OnList(n) \/ SetSent(n) \/ SetDue(n) => DelSent(n) \/ DelDue(n)
      BY <2>1, <2>4 DEF InStep, SetSent, DelSent
    <3>2. QED
      BY <2>2, <2>1, <2>4, <3>1
  <2>5. QED
    BY <2>3, <2>4
<1>2. QED
  BY <1>1, UserModesInvariance, ModesInvariance, PTL

-----------------------------------------------------------------------------
(* The table of opers and its copy.                                        *)

\* Nothing is changed about opers.
LEMMA SameOpers ==
    ASSUME OpersInv, UNCHANGED <<globalopers, pending, wire, oper_list>>,
           \A p \in Profile : p \in astray => p \in astray',
           OpersRead' => OpersRead
    PROVE  OpersInv'
<1> SUFFICES ASSUME NEW p \in Profile, p \notin astray'
             PROVE  Oper(p)'
  BY DEF OpersInv
<1>1. Oper(p)
  BY DEF OpersInv
<1>2. About(p)' = About(p) /\ Unsent' = Unsent
  BY DEF About, Unsent, Told
<1>3. \A s \in Session : Told(pending[s])' = Told(pending[s]) /\ Verdict(pending[s])' = Verdict(pending[s])
  BY DEF Told, Verdict
<1>4. Says(p, globalopers[p])' <=> Says(p, globalopers[p])
  BY <1>2 DEF Says, Verdict
<1>5. QED
  BY <1>1, <1>2, <1>3, <1>4 DEF Oper

\* Opers are told of by the datagrams about them only.
LEMMA ToldOpers ==
    ASSUME NEW msg \in Message
    PROVE  /\ msg.id \notin {"AddOper", "DelOper"} => Told(msg) \intersect Profile = {}
           /\ msg.id \in {"AddOper", "DelOper"} => Told(msg) = {msg.key}
BY MatrixAssumption DEF Told, Message

\* A procedure has begun: what it will tell is what it did.
LEMMA BeginOpers ==
    ASSUME UInv, OpersInv, NEW s \in Session, NEW msg \in Message, Begin(s, msg),
           UNCHANGED <<wire, stage, oper_list>>,
           \A p \in Profile :
              globalopers'[p] = IF p \in Told(msg) THEN Verdict(msg) ELSE globalopers[p]
    PROVE  OpersInv'
<1>1. /\ pending'[s] = msg /\ pending[s] = NoCall
      /\ \A t \in Session \ {s} : pending'[t] = pending[t]
      /\ Unsent' = Unsent \union Told(msg)
      /\ astray' = astray \union (Told(msg) \intersect Unsent)
  BY BeginType, BeginDue DEF UInv, UserModesTypeOK
<1> SUFFICES ASSUME NEW p \in Profile, p \notin astray'
             PROVE  Oper(p)'
  BY DEF OpersInv
<1>2. Oper(p) /\ (p \in Told(msg) => p \notin Unsent)
  BY <1>1 DEF OpersInv
<1>3. About(p)' = About(p) /\ (OpersRead' <=> OpersRead)
  BY DEF About, Told, OpersRead
<1>4. \A t \in Session : /\ Told(pending[t])' = IF t = s THEN Told(msg) ELSE Told(pending[t])
                         /\ Verdict(pending[t])' = IF t = s THEN Verdict(msg) ELSE Verdict(pending[t])
  BY <1>1 DEF Told, Verdict
<1>5. \A t \in Session : p \in Told(pending[t]) => p \in Unsent
  BY DEF Unsent
<1>6. CASE p \in Told(msg)
  <2>1. \A t \in Session : p \in Told(pending[t])' <=> t = s
    BY <1>2, <1>4, <1>5, <1>6
  <2>2. globalopers'[p] = Verdict(msg) /\ p \in Unsent'
    BY <1>1, <1>6
  <2>3. QED
    BY <1>4, <2>1, <2>2 DEF Oper
<1>7. CASE p \notin Told(msg)
  <2>1. Told(NoCall) = {}
    BY DEF Told
  <2>2. \A t \in Session : /\ p \in Told(pending[t])' <=> p \in Told(pending[t])
                           /\ p \in Told(pending[t]) => Verdict(pending[t])' = Verdict(pending[t])
    BY <1>1, <1>4, <1>7, <2>1
  <2>3. globalopers'[p] = globalopers[p] /\ (p \in Unsent' <=> p \in Unsent)
    BY <1>1, <1>7
  <2>4. Says(p, globalopers[p])' <=> Says(p, globalopers[p])
    BY <1>3, <2>3 DEF Says, Verdict
  <2>5. QED
    BY <1>2, <1>3, <2>2, <2>3, <2>4 DEF Oper
<1>8. QED
  BY <1>6, <1>7

\* The datagram is now the last word, if it is received.
LEMMA MatrixqueueOpers ==
    ASSUME UInv, OpersInv, NEW s \in Session, matrixqueue(s), UNCHANGED serverVars
    PROVE  OpersInv'
<1> DEFINE msg == pending[s]
           m == Len(wire)
<1>1. /\ msg \in Message /\ wire \in Seq(Message) /\ msg # NoCall
      /\ Unsent = Unsent' \union Told(msg)
  BY QueuedDue DEF UInv, UserModesTypeOK, MatrixTypeOK, matrixqueue, Idle
<1>2. /\ UNCHANGED <<globalopers, stage, oper_list>>
      /\ IF Received THEN wire' = Append(wire, msg) /\ astray' = astray
                     ELSE wire' = wire /\ astray' = astray \union Told(msg)
  BY DEF matrixqueue, tables, serverVars
<1>3. pending'[s] = NoCall /\ \A t \in Session \ {s} : pending'[t] = pending[t]
  <2>1. pending \in [Session -> Message \union {NoCall}] /\ pending' = [pending EXCEPT ![s] = NoCall]
    BY DEF matrixqueue, UInv, UserModesTypeOK, MatrixTypeOK
  <2>2. QED
    BY <2>1
<1>4. Told(NoCall) = {}
  BY DEF Told
<1>5. \A t \in Session : /\ Told(pending[t])' = IF t = s THEN {} ELSE Told(pending[t])
                         /\ t # s => Verdict(pending[t])' = Verdict(pending[t])
  <2>1. \A t \in Session : /\ Told(pending[t])' = Told(pending'[t])
                           /\ t # s => Verdict(pending[t])' = Verdict(pending[t])
    BY <1>3 DEF Told, Verdict
  <2>2. QED
    BY <1>3, <1>4, <2>1
<1> HIDE DEF msg
<1> SUFFICES ASSUME NEW p \in Profile, p \notin astray'
             PROVE  Oper(p)'
  BY DEF OpersInv
<1>6. Oper(p)
  BY <1>2 DEF OpersInv
<1>7. /\ \A t, u \in Session : p \in Told(pending[t])' /\ p \in Told(pending[u])' => t = u
      /\ \A t \in Session : p \in Told(pending[t])' => globalopers'[p] = Verdict(pending[t])'
      /\ OpersRead' <=> OpersRead
  BY <1>2, <1>5, <1>6 DEF Oper, OpersRead
<1>8. ASSUME p \in Told(msg)
      PROVE  p \notin Unsent' /\ globalopers[p] = Verdict(msg)
  <2>1. Unsent' = UNION {Told(pending[t])' : t \in Session}
    BY DEF Unsent
  <2>2. \A t \in Session : p \in Told(pending[t]) => t = s
    BY <1>6, <1>8 DEF Oper, msg
  <2>3. p \notin Unsent'
    BY <1>5, <2>1, <2>2
  <2>4. QED
    BY <1>6, <1>8, <2>3 DEF Oper, msg
<1>9. CASE Received
  <2>1. /\ DOMAIN wire' = 1..(m + 1) /\ DOMAIN wire = 1..m /\ m \in Nat
        /\ \A i \in 1..m : wire'[i] = wire[i]
        /\ wire'[m + 1] = msg
    BY <1>1, <1>2, <1>9, AppendProperties, LenProperties
  <2>2. About(p)' = {i \in DOMAIN wire' : p \in Told(wire'[i])}
    BY DEF About, Told
  <2>3. About(p)' = About(p) \union (IF p \in Told(msg) THEN {m + 1} ELSE {})
    <3>1. \A i \in 1..(m + 1) : i \in 1..m \/ i = m + 1
      BY <2>1
    <3>2. 1..m \subseteq 1..(m + 1) /\ m + 1 \in 1..(m + 1) /\ m + 1 \notin 1..m
      BY <2>1
    <3>3. QED
      BY <2>1, <2>2, <3>1, <3>2 DEF About
  <2>4. About(p) \subseteq 1..m
    BY <2>1 DEF About
  <2>5. CASE p \in Told(msg)
    <3>1. m + 1 \in About(p)' /\ \A j \in About(p)' : j <= m + 1
      BY <2>1, <2>3, <2>4, <2>5
    <3>2. globalopers'[p] = Verdict(wire'[m + 1])
      BY <1>2, <1>8, <2>1, <2>5
    <3>3. Says(p, globalopers[p])'
      BY <3>1, <3>2 DEF Says, Verdict
    <3>4. QED
      BY <1>7, <3>3 DEF Oper
  <2>6. CASE p \notin Told(msg)
    <3>1. About(p)' = About(p) /\ (p \in Unsent' <=> p \in Unsent)
      BY <1>1, <2>3, <2>6
    <3>2. \A i \in About(p) : Verdict(wire[i])' = Verdict(wire[i])
      BY <2>1, <2>4 DEF Verdict
    <3>3. Says(p, globalopers[p]) => Says(p, globalopers[p])'
      BY <1>2, <3>1, <3>2 DEF Says
    <3>4. QED
      BY <1>6, <1>7, <3>1, <3>3 DEF Oper
  <2>7. QED
    BY <2>5, <2>6
<1>10. CASE ~Received
  <2>1. p \notin Told(msg) /\ wire' = wire
    BY <1>2, <1>10
  <2>2. About(p)' = About(p) /\ (p \in Unsent' <=> p \in Unsent)
    BY <1>1, <2>1 DEF About, Told
  <2>3. Says(p, globalopers[p])' <=> Says(p, globalopers[p])
    BY <1>2, <2>1, <2>2 DEF Says, Verdict
  <2>4. QED
    BY <1>6, <1>7, <2>2, <2>3 DEF Oper
<1>11. QED
  BY <1>9, <1>10

\* A datagram is read: the list has what it says.
LEMMA QueueOpers ==
    ASSUME UInv, OpersInv, processQueue
    PROVE  OpersInv'
<1> DEFINE msg == Head(wire)
           m == Len(wire)
<1>1. /\ wire \in Seq(Message) /\ wire # <<>> /\ wire' = Tail(wire)
      /\ oper_list \in [Profile -> Mask \union {NoOper}]
      /\ UNCHANGED <<globalopers, pending, stage, astray>>
  BY DEF UInv, UserModesTypeOK, MatrixTypeOK, processQueue, tables
<1>2. /\ msg \in Message /\ m \in Nat \ {0} /\ DOMAIN wire = 1..m /\ wire[1] = msg
      /\ DOMAIN wire' = 1..(m - 1) /\ \A i \in 1..(m - 1) : wire'[i] = wire[i + 1]
  <2>1. m \in Nat /\ DOMAIN wire = 1..m /\ m # 0
    BY <1>1, LenProperties, EmptySeq
  <2>2. QED
    BY <1>1, <2>1, HeadTailProperties, LenProperties
<1>3. addOper(msg) \/ delOper(msg) \/ setUserMode(msg) \/ delUserMode(msg) \/ authClient(msg)
  BY DEF processQueue
<1> HIDE DEF msg
<1>4. \A p \in Profile : oper_list'[p] = IF p \in Told(msg) THEN Verdict(msg) ELSE oper_list[p]
  <2>1. CASE addOper(msg)
    <3>1. msg.id = "AddOper" /\ oper_list' = [oper_list EXCEPT ![msg.key] = msg.rights]
      BY <2>1 DEF addOper
    <3>2. Told(msg) = {msg.key} /\ Verdict(msg) = msg.rights
      BY <1>2, <3>1, ToldOpers DEF Verdict
    <3>3. QED
      BY <1>1, <3>1, <3>2
  <2>2. CASE delOper(msg)
    <3>1. msg.id = "DelOper" /\ oper_list' = [oper_list EXCEPT ![msg.key] = NoOper]
      BY <2>2 DEF delOper
    <3>2. Told(msg) = {msg.key} /\ Verdict(msg) = NoOper
      BY <1>2, <3>1, ToldOpers DEF Verdict
    <3>3. QED
      BY <1>1, <3>1, <3>2
  <2>3. CASE setUserMode(msg) \/ delUserMode(msg) \/ authClient(msg)
    <3>1. msg.id \in {"SetUserMode", "DelUserMode", "AuthClient"} /\ oper_list' = oper_list
      BY <2>3 DEF setUserMode, delUserMode, authClient
    <3>2. Told(msg) \intersect Profile = {}
      BY <1>2, <3>1, ToldOpers
    <3>3. QED
      BY <3>1, <3>2
  <2>4. QED
    BY <1>3, <2>1, <2>2, <2>3
<1> SUFFICES ASSUME NEW p \in Profile, p \notin astray'
             PROVE  Oper(p)'
  BY DEF OpersInv
<1>5. Oper(p)
  BY <1>1 DEF OpersInv
<1>6. Unsent' = Unsent /\ (OpersRead' <=> OpersRead)
  BY <1>1 DEF Unsent, Told, OpersRead
<1>7. \A s \in Session : Told(pending[s])' = Told(pending[s]) /\ Verdict(pending[s])' = Verdict(pending[s])
  BY <1>1 DEF Told, Verdict
<1>8. /\ About(p)' = {i \in 1..(m - 1) : i + 1 \in About(p)} /\ About(p) \subseteq 1..m
      /\ 1 \in About(p) <=> p \in Told(msg)
  <2>1. About(p)' = {i \in DOMAIN wire' : p \in Told(wire'[i])}
    BY DEF About, Told
  <2>2. \A i \in 1..(m - 1) : i + 1 \in 1..m
    BY <1>2
  <2>3. 1 \in 1..m
    BY <1>2
  <2>4. QED
    BY <1>2, <2>1, <2>2, <2>3 DEF About
<1>9. ASSUME NEW r, Says(p, r)
      PROVE  Says(p, r)'
  <2>1. CASE About(p) = {} /\ r = oper_list[p]
    BY <1>4, <1>8, <2>1 DEF Says
  <2>2. ASSUME NEW i \in About(p), \A j \in About(p) : j <= i, r = Verdict(wire[i])
        PROVE  Says(p, r)'
    <3>1. CASE i = 1
      <4>1. About(p)' = {}
        BY <1>2, <1>8, <2>2, <3>1
      <4>2. oper_list'[p] = Verdict(msg) /\ wire[i] = msg
        BY <1>2, <1>4, <1>8, <2>2, <3>1
      <4>3. QED
        BY <2>2, <4>1, <4>2 DEF Says
    <3>2. CASE i # 1
      <4>1. i - 1 \in 1..(m - 1) /\ (i - 1) + 1 = i
        BY <1>2, <1>8, <2>2, <3>2
      <4>2. i - 1 \in About(p)' /\ wire'[i - 1] = wire[i]
        BY <1>2, <1>8, <2>2, <4>1
      <4>3. ASSUME NEW j \in About(p)'
            PROVE  j <= i - 1
        <5>1. j \in 1..(m - 1) /\ j + 1 <= i /\ i \in 1..m
          BY <1>8, <2>2
        <5>2. QED
          BY <1>2, <5>1
      <4>4. r = Verdict(wire'[i - 1])
        BY <2>2, <4>2
      <4>5. QED
        BY <4>2, <4>3, <4>4 DEF Says, Verdict
    <3>3. QED
      BY <3>1, <3>2
  <2>3. QED
    BY <1>9, <2>1, <2>2 DEF Says
<1>10. OpersRead' /\ p \notin Unsent' => Says(p, globalopers[p])'
  <2>1. PICK r : r = globalopers[p]
    OBVIOUS
  <2>2. Says(p, r) => Says(p, r)'
    BY <1>9
  <2>3. globalopers'[p] = r
    BY <1>1, <2>1
  <2>4. Says(p, r)' => Says(p, globalopers[p])'
    BY <2>3 DEF Says
  <2>5. QED
    BY <1>5, <1>6, <2>1, <2>2, <2>4 DEF Oper
<1>11. QED
  BY <1>1, <1>5, <1>7, <1>10 DEF Oper

\* The table is read, or that of the user modes.
LEMMA LoadOpersSound ==
    ASSUME UInv, OpersInv, loadOpers \/ loadUserModes
    PROVE  OpersInv'
<1>1. CASE loadUserModes
  <2>1. /\ UNCHANGED <<globalopers, pending, wire, oper_list>> /\ ~OpersRead'
        /\ astray' = astray \ (Id \ Unsent)
    BY <1>1 DEF loadUserModes, tables, OpersRead
  <2>2. \A p \in Profile : p \in astray => p \in astray'
    BY <2>1, MatrixAssumption
  <2>3. QED
    BY <2>1, <2>2, SameOpers
<1>2. CASE loadOpers
  <2>1. /\ UNCHANGED <<globalopers, pending, wire>> /\ wire = <<>> /\ oper_list' = globalopers
        /\ astray' = astray \ (Profile \ Unsent)
    BY <1>2 DEF loadOpers, tables, UInv, InPass
  <2> SUFFICES ASSUME NEW p \in Profile, p \notin astray'
               PROVE  Oper(p)'
    BY DEF OpersInv
  <2>2. About(p)' = {} /\ Unsent' = Unsent
    BY <2>1 DEF About, Unsent, Told
  <2>3. Says(p, globalopers[p])'
    BY <2>1, <2>2 DEF Says
  <2>4. \A s \in Session : Told(pending[s])' = Told(pending[s]) /\ Verdict(pending[s])' = Verdict(pending[s])
    BY <2>1 DEF Told, Verdict
  <2>5. CASE p \in astray
    <3>1. p \notin Unsent
      BY <2>1, <2>5
    <3>2. \A s \in Session : p \notin Told(pending[s])
      BY <3>1 DEF Unsent
    <3>3. QED
      BY <2>3, <2>4, <3>2 DEF Oper
  <2>6. CASE p \notin astray
    <3>1. Oper(p)
      BY <2>6 DEF OpersInv
    <3>2. QED
      BY <2>1, <2>3, <2>4, <3>1 DEF Oper
  <2>7. QED
    BY <2>5, <2>6
<1>3. QED
  BY <1>1, <1>2

LEMMA CrashOpers ==
    ASSUME UInv, OpersInv, crash
    PROVE  OpersInv'
<1>1. /\ stage' = "down" /\ pending["old"] = NoCall
      /\ pending' = [pending EXCEPT !["old"] = pending["server"], !["server"] = NoCall]
      /\ UNCHANGED <<globalopers, astray>>
      /\ pending \in [Session -> Message \union {NoCall}]
  BY DEF crash, tables, Idle, UInv, UserModesTypeOK, MatrixTypeOK
<1>2. /\ pending'["old"] = pending["server"] /\ pending'["server"] = NoCall
      /\ \A s \in Session \ {"server", "old"} : pending'[s] = pending[s]
      /\ "server" \in Session /\ "old" \in Session
  BY <1>1 DEF Session
<1> SUFFICES ASSUME NEW p \in Profile, p \notin astray'
             PROVE  Oper(p)'
  BY DEF OpersInv
<1>3. Oper(p) /\ ~OpersRead'
  BY <1>1 DEF OpersInv, OpersRead
<1>4. Told(NoCall) = {}
  BY DEF Told
<1> DEFINE was(s) == IF s = "old" THEN "server" ELSE s
<1>5. ASSUME NEW s \in Session, p \in Told(pending[s])'
      PROVE  /\ s # "server" /\ was(s) \in Session /\ p \in Told(pending[was(s)])
             /\ Verdict(pending[s])' = Verdict(pending[was(s)])
  <2>1. p \in Told(pending'[s])
    BY <1>5 DEF Told
  <2>2. s # "server" /\ was(s) \in Session /\ pending'[s] = pending[was(s)]
    BY <1>2, <1>4, <2>1
  <2>3. QED
    BY <2>1, <2>2 DEF Verdict
<1>6. \A s, t \in Session : s # "server" /\ t # "server" /\ was(s) = was(t) => s = t
  OBVIOUS
<1> HIDE DEF was
<1>7. \A s, t \in Session : p \in Told(pending[s])' /\ p \in Told(pending[t])' => s = t
  BY <1>3, <1>5, <1>6 DEF Oper
<1>8. \A s \in Session : p \in Told(pending[s])' => globalopers'[p] = Verdict(pending[s])'
  BY <1>1, <1>3, <1>5 DEF Oper
<1>9. QED
  BY <1>3, <1>7, <1>8 DEF Oper

\* A procedure about a user mode, which has no say in the opers.
LEMMA ModeProcedureOpers ==
    ASSUME UInv, OpersInv, NEW s \in Session,
           \/ \E um \in UserMode : SetUserMode(s, um)
           \/ \E n \in Id : DelUserMode(s, n)
           \/ \E d \in Sd, p \in Profile \union {NoProfile} : AuthClientCall(s, d, p),
           UNCHANGED <<use, wire, stage, oper_list>>
    PROVE  OpersInv'
<1>1. ASSUME NEW msg \in Message, Begin(s, msg), msg.id \in {"SetUserMode", "DelUserMode", "AuthClient"},
             globalopers' = globalopers
      PROVE  OpersInv'
  BY <1>1, ToldOpers, BeginOpers
<1>2. ASSUME NEW um \in UserMode, SetUserMode(s, um)
      PROVE  OpersInv'
  <2>1. lastid + 1 \in Id
    BY <1>2, MatrixAssumption DEF SetUserMode, UInv, UserModesTypeOK, MatrixTypeOK, Id
  <2>2. PICK msg : msg = [id |-> "SetUserMode", key |-> lastid + 1, um |-> um]
    OBVIOUS
  <2>3. msg \in Message /\ msg.id = "SetUserMode" /\ Begin(s, msg) /\ globalopers' = globalopers
    BY <1>2, <2>1, <2>2 DEF Message, SetUserMode
  <2>4. QED
    BY <1>1, <2>3
<1>3. ASSUME NEW n \in Id, DelUserMode(s, n)
      PROVE  OpersInv'
  <2>1. PICK msg : msg = [id |-> "DelUserMode", key |-> n]
    OBVIOUS
  <2>2. msg \in Message /\ msg.id = "DelUserMode" /\ Begin(s, msg) /\ globalopers' = globalopers
    BY <1>3, <2>1 DEF Message, DelUserMode
  <2>3. QED
    BY <1>1, <2>2
<1>4. ASSUME NEW d \in Sd, NEW p \in Profile \union {NoProfile}, AuthClientCall(s, d, p)
      PROVE  OpersInv'
  <2>1. PICK msg : msg = [id |-> "AuthClient", sd |-> d, key |-> p]
    OBVIOUS
  <2>2. msg \in Message /\ msg.id = "AuthClient" /\ Begin(s, msg) /\ globalopers' = globalopers
    BY <1>4, <2>1 DEF Message, AuthClientCall, tables
  <2>3. QED
    BY <1>1, <2>2
<1>5. QED
  BY <1>2, <1>3, <1>4

LEMMA PanelOpers ==
    ASSUME UInv, OpersInv, NEW s \in Panel, panel(s), UNCHANGED serverVars
    PROVE  OpersInv'
<1>1. /\ UNCHANGED <<use, wire, stage, oper_list>> /\ s \in Session /\ use \in Uses
      /\ globalopers \in [Profile -> Mask \union {NoOper}]
  BY DEF panel, serverVars, Session, UInv, UserModesTypeOK, MatrixTypeOK
<1>2. ASSUME NEW q \in Profile, NEW r \in use.rights, SetGlobalOper(s, q, r)
      PROVE  OpersInv'
  <2>1. PICK msg : msg = [id |-> "AddOper", key |-> q, rights |-> r]
    OBVIOUS
  <2>2. r \in Mask
    BY <1>1, MatrixAssumption
  <2>3. msg \in Message /\ msg.id = "AddOper" /\ msg.key = q /\ msg.rights = r /\ Begin(s, msg)
    BY <1>2, <2>1, <2>2 DEF Message, SetGlobalOper
  <2>4. Told(msg) = {q} /\ Verdict(msg) = r /\ globalopers' = [globalopers EXCEPT ![q] = r]
    BY <1>2, <2>3, ToldOpers DEF Verdict, SetGlobalOper
  <2>5. \A p \in Profile : globalopers'[p] = IF p \in Told(msg) THEN Verdict(msg) ELSE globalopers[p]
    BY <1>1, <2>4
  <2>6. QED
    BY <1>1, <2>3, <2>5, BeginOpers
<1>3. ASSUME NEW q \in Profile, DelGlobalOper(s, q)
      PROVE  OpersInv'
  <2>1. PICK msg : msg = [id |-> "DelOper", key |-> q]
    OBVIOUS
  <2>2. msg \in Message /\ msg.id = "DelOper" /\ msg.key = q /\ Begin(s, msg)
    BY <1>3, <2>1 DEF Message, DelGlobalOper
  <2>3. Told(msg) = {q} /\ Verdict(msg) = NoOper /\ globalopers' = [globalopers EXCEPT ![q] = NoOper]
    BY <1>3, <2>2, ToldOpers DEF Verdict, DelGlobalOper
  <2>4. \A p \in Profile : globalopers'[p] = IF p \in Told(msg) THEN Verdict(msg) ELSE globalopers[p]
    BY <1>1, <2>3
  <2>5. QED
    BY <1>1, <2>2, <2>4, BeginOpers
<1>4. ASSUME NEW um \in use.forms, SetUserMode(s, um)
      PROVE  OpersInv'
  BY <1>1, <1>4, MatrixAssumption, ModeProcedureOpers
<1>5. ASSUME NEW n \in 1..lastid, DelUserMode(s, n)
      PROVE  OpersInv'
  <2>1. n \in Id
    BY MatrixAssumption DEF UInv, UserModesTypeOK, MatrixTypeOK, Id
  <2>2. QED
    BY <1>1, <1>5, <2>1, ModeProcedureOpers
<1>6. QED
  BY <1>2, <1>3, <1>4, <1>5 DEF panel

\* The chat server itself deletes and sets user modes only.
LEMMA ServerOpers ==
    ASSUME UInv, OpersInv, UNCHANGED <<use, wire, stage, oper_list>>,
           \/ UNCHANGED <<tables, pending, astray>>
           \/ \E um \in UserMode : SetUserMode("server", um)
           \/ \E n \in Id : DelUserMode("server", n)
           \/ \E d \in Sd, p \in Profile \union {NoProfile} : AuthClientCall("server", d, p)
    PROVE  OpersInv'
<1>1. CASE UNCHANGED <<tables, pending, astray>>
  BY <1>1, SameOpers DEF tables, OpersRead
<1>2. "server" \in Session
  BY DEF Session
<1>3. QED
  BY <1>1, <1>2, ModeProcedureOpers

LEMMA LoopOpers ==
    ASSUME UInv, OpersInv,
           \/ start \/ setupQueueListener \/ startPass \/ endLines \/ endExpiry \/ checkExpiry
           \/ \E c \in Slot : accept(c) \/ mainLoop(c)
           \/ UNCHANGED vars
    PROVE  OpersInv'
<1>1. CASE start
  <2>1. UNCHANGED <<globalopers, pending, wire, oper_list, astray>> /\ ~OpersRead'
    BY <1>1 DEF start, tables, serverVars, OpersRead
  <2>2. QED
    BY <2>1, SameOpers
<1>2. CASE setupQueueListener
  <2>1. UNCHANGED <<globalopers, pending, wire, oper_list, astray>> /\ OpersRead
    BY <1>2 DEF setupQueueListener, tables, serverVars, OpersRead
  <2>2. QED
    BY <2>1, SameOpers
<1>3. CASE startPass \/ endLines \/ endExpiry \/ UNCHANGED vars
  BY <1>3, ServerOpers DEF startPass, endLines, endExpiry, vars, matrixVars, serverVars
<1>4. ASSUME NEW e \in ToSet(usermodes_list), removeUsermode(e), UNCHANGED <<use, wire, stage, oper_list>>
      PROVE  OpersInv'
  <2>1. PICK i \in DOMAIN usermodes_list : e = usermodes_list[i]
    BY DEF ToSet
  <2>2. e \in Entry
    BY <2>1, ElementOfSeq DEF UInv, UserModesTypeOK
  <2>3. CASE e.isGlobal
    <3>1. e.id \in Id /\ DelUserMode("server", e.id)
      BY <1>4, <2>2, <2>3 DEF Entry, removeUsermode
    <3>2. QED
      BY <1>4, <3>1, ServerOpers
  <2>4. CASE ~e.isGlobal
    BY <1>4, <2>4, ServerOpers DEF removeUsermode
  <2>5. QED
    BY <2>3, <2>4
<1>5. CASE checkExpiry
  BY <1>4, <1>5 DEF checkExpiry
<1>6. ASSUME NEW um \in UserMode, NEW isGlobal \in BOOLEAN, addUserMode(um, isGlobal),
             UNCHANGED <<use, wire, stage, oper_list>>
      PROVE  OpersInv'
  BY <1>6, ServerOpers DEF addUserMode
<1>7. ASSUME NEW c \in Slot, NEW h \in Host, Banned(c, h), UNCHANGED <<use, wire, stage, oper_list>>
      PROVE  OpersInv'
  <2>1. killed(h) \in UserMode
    BY DEF killed, UserMode
  <2>2. QED
    BY <1>6, <1>7, <2>1, ServerOpers DEF Banned
<1>8. ASSUME NEW c \in Slot, accept(c) \/ mainLoop(c)
      PROVE  OpersInv'
  <2>1. CASE accept(c) \/ deleteClient(c) \/ startLines(c) \/ cmd_user(c) \/ cmd_quit(c)
    BY <2>1, ServerOpers DEF accept, deleteClient, startLines, cmd_user, cmd_quit, matrixVars
  <2>2. CASE cmd_login(c)
    <3>1. client[c].sd \in Sd
      BY DEF UInv, UserModesTypeOK, ClientRec
    <3>2. QED
      BY <2>2, <3>1, ServerOpers DEF cmd_login
  <2>3. CASE cmd_setusermode(c)
    <3>1. PICK um \in use.forms, isGlobal \in BOOLEAN :
             addUserMode(um, isGlobal) /\ UNCHANGED <<use, wire, stage, oper_list>>
      BY <2>3 DEF cmd_setusermode
    <3>2. um \in UserMode
      BY MatrixAssumption DEF UInv, UserModesTypeOK, MatrixTypeOK
    <3>3. QED
      BY <1>6, <3>1, <3>2
  <2>4. CASE cmd_delusermode(c)
    BY <1>4, <2>4 DEF cmd_delusermode
  <2>5. CASE cmd_kill(c)
    <3>1. PICK t \in Listed : Banned(c, client[t].host) /\ UNCHANGED <<use, wire, stage, oper_list>>
      BY <2>5 DEF cmd_kill
    <3>2. client[t].host \in Host
      BY DEF UInv, UserModesTypeOK, ClientRec, Listed
    <3>3. QED
      BY <1>7, <3>1, <3>2
  <2>6. CASE cmd_kline(c)
    BY <1>7, <2>6 DEF cmd_kline
  <2>7. QED
    BY <1>8, <2>1, <2>2, <2>3, <2>4, <2>5, <2>6 DEF mainLoop
<1>9. QED
  BY <1>1, <1>2, <1>3, <1>5, <1>8

\* The second: what is left to be said of a profile's rights, the last datagram
\* about it or the oper list, is what its row says (Oper).
THEOREM OpersInvariance == UserModesSpec => []OpersInv
<1>1. ASSUME UserModesInit
      PROVE  OpersInv
  <2>1. stage = "down" /\ \A s \in Session : pending[s] = NoCall
    BY <1>1 DEF UserModesInit, MatrixInit
  <2>2. Told(NoCall) = {}
    BY DEF Told
  <2>3. QED
    BY <2>1, <2>2 DEF OpersInv, Oper, OpersRead
<1>2. ASSUME UInv, OpersInv, UserModesNext
      PROVE  OpersInv'
  <2>1. CASE loadUserModes \/ loadOpers \/ crash \/ processQueue
    BY <1>2, <2>1, LoadOpersSound, CrashOpers, QueueOpers
  <2>2. CASE \/ start \/ setupQueueListener \/ startPass \/ endLines \/ endExpiry \/ checkExpiry
             \/ \E c \in Slot : accept(c) \/ mainLoop(c)
    BY <1>2, <2>2, LoopOpers
  <2>3. CASE \E s \in Session : matrixqueue(s) /\ UNCHANGED serverVars
    BY <1>2, <2>3, MatrixqueueOpers
  <2>4. CASE \E s \in Panel : panel(s) /\ UNCHANGED serverVars
    BY <1>2, <2>4, PanelOpers
  <2>5. QED
    BY <1>2, <2>1, <2>2, <2>3, <2>4 DEF UserModesNext
<1>3. ASSUME UInv, OpersInv, [UserModesNext]_vars
      PROVE  OpersInv'
  BY <1>2, <1>3, LoopOpers
<1>4. QED
  BY <1>1, <1>3, UserModesInvariance, PTL DEF UserModesSpec

\* The last word on a profile's rights is the table's; without one on its way the
\* oper list has it (SetGlobalOper, DelGlobalOper, addOper, delOper).
THEOREM OpersStayInStep == UserModesSpec => []OpersInStep
<1>1. ASSUME UInv, OpersInv
      PROVE  OpersInStep
  <2> SUFFICES ASSUME stage = "up", NEW p \in Profile \ astray
               PROVE  \/ \E s \in Session : p \in Told(pending[s]) /\ globalopers[p] = Verdict(pending[s])
                      \/ /\ p \notin Unsent
                         /\ globalopers[p] = IF About(p) = {} THEN oper_list[p]
                               ELSE Verdict(wire[CHOOSE i \in About(p) : \A j \in About(p) : j <= i])
    BY DEF OpersInStep
  <2>1. Oper(p) /\ OpersRead
    BY <1>1 DEF OpersInv, OpersRead
  <2>2. CASE p \in Unsent
    BY <2>1, <2>2 DEF Oper, Unsent
  <2>3. CASE p \notin Unsent
    <3>1. Says(p, globalopers[p])
      BY <2>1, <2>3 DEF Oper
    <3>2. CASE About(p) = {}
      BY <2>3, <3>1, <3>2 DEF Says
    <3>3. CASE About(p) # {}
      <4>1. PICK l \in About(p) : (\A j \in About(p) : j <= l) /\ globalopers[p] = Verdict(wire[l])
        BY <3>1, <3>3 DEF Says
      <4>2. PICK k : k = CHOOSE i \in About(p) : \A j \in About(p) : j <= i
        OBVIOUS
      <4>3. k \in About(p) /\ \A j \in About(p) : j <= k
        BY <4>1, <4>2
      <4>4. \A j \in About(p) : j \in Int
        <5>1. DOMAIN wire = 1..Len(wire) /\ Len(wire) \in Nat
          BY <1>1, LenProperties DEF UInv, UserModesTypeOK, MatrixTypeOK
        <5>2. QED
          BY <5>1 DEF About
      <4>5. k = l
        BY <4>1, <4>3, <4>4
      <4>6. QED
        BY <2>3, <3>3, <4>1, <4>2, <4>5
    <3>4. QED
      BY <3>2, <3>3
  <2>4. QED
    BY <2>2, <2>3
<1>2. QED
  BY <1>1, UserModesInvariance, OpersInvariance, PTL
=============================================================================
