-------------------------- MODULE Presence_proofs ---------------------------
(***************************************************************************)
(* The buddy server, for any profiles, sessions and messages: types, that  *)
(* what players have been told of their buddies is so, and that no kept    *)
(* message is lost.                                                        *)
(***************************************************************************)
EXTENDS Presence, SequenceTheorems, TLAPS

Sessions == [Slot -> Client]
Views    == [Slot -> [Owner -> Word]]

Tables ==
    /\ buddyRows \in Bag /\ blockRows \in Bag
    /\ requests \subseteq Owner \X Owner /\ messages \subseteq Message
    /\ made \subseteq Profile /\ profiles \subseteq made

\* What the player of c has been told of p: by a session of that profile.  If p is
\* on its list the word is true, unless it is that of the session "but"; if not, it
\* asked p to authorise it, and will be told again when p comes on the list.
Heard(w, ss, live, asked, c, p, but) == w.by # NoClient =>
    /\ c \in live /\ w.by \in live /\ ss[w.by].profileid = p
    /\ ss[c].buddies[p] > 0 /\ w.by # but => w.status \in {ss[w.by].status, Offline}
    /\ ss[c].buddies[p] = 0 => <<ss[c].profileid, p>> \in asked

Truth(v, ss, live, asked, but) ==
    \A c \in Slot, p \in Owner : Heard(v[c][p], ss, live, asked, c, p, but)

Distinct == \A i, j \in DOMAIN clients : clients[i] = clients[j] => i = j

PresenceInv ==
    /\ TypeOK /\ Distinct
    /\ gone \notin Live
    /\ Truth(view, session, Live, requests, NoClient)

-----------------------------------------------------------------------------
(* The list of clients.                                                    *)

LEMMA RemoveAtValue ==
    ASSUME NEW S, NEW q \in Seq(S), NEW i \in DOMAIN q
    PROVE  /\ RemoveAt(q, i) \in Seq(S) /\ DOMAIN RemoveAt(q, i) = 1..(Len(q) - 1)
           /\ \A j \in 1..(Len(q) - 1) : RemoveAt(q, i)[j] = IF j < i THEN q[j] ELSE q[j + 1]
<1> DEFINE a == SubSeq(q, 1, i - 1)
           b == SubSeq(q, i + 1, Len(q))
<1>1. i \in 1..Len(q) /\ Len(q) \in Nat /\ DOMAIN q = 1..Len(q)
  BY LenProperties
<1>2. /\ a \in Seq(S) /\ Len(a) = i - 1
      /\ \A j \in 1..(i - 1) : a[j] = q[j]
  <2>1. \A j \in 1..(i - 1) : q[j] \in S
    BY <1>1, ElementOfSeq
  <2>2. 1 \in Int /\ i - 1 \in Int
    BY <1>1
  <2>3. QED
    BY <1>1, <2>1, <2>2, SubSeqProperties
<1>3. /\ b \in Seq(S) /\ Len(b) = Len(q) - i
      /\ \A j \in 1..(Len(q) - i) : b[j] = q[i + j]
  <2>1. \A j \in (i + 1)..Len(q) : q[j] \in S
    BY <1>1, ElementOfSeq
  <2>2. i + 1 \in Int /\ Len(q) \in Int
    BY <1>1
  <2>3. QED
    BY <1>1, <2>1, <2>2, SubSeqProperties
<1> HIDE DEF a, b
<1>4. /\ a \o b \in Seq(S) /\ Len(a \o b) = Len(a) + Len(b)
      /\ \A j \in 1..(Len(a) + Len(b)) : (a \o b)[j] = IF j <= Len(a) THEN a[j] ELSE b[j - Len(a)]
  BY <1>2, <1>3, ConcatProperties
<1>5. RemoveAt(q, i) = a \o b
  BY DEF RemoveAt, a, b
<1>6. DOMAIN (a \o b) = 1..(Len(q) - 1)
  <2>1. Len(a \o b) = Len(q) - 1
    BY <1>1, <1>2, <1>3, <1>4
  <2>2. DOMAIN (a \o b) = 1..Len(a \o b)
    BY <1>4, LenProperties
  <2>3. QED
    BY <2>1, <2>2
<1>7. ASSUME NEW j \in 1..(Len(q) - 1)
      PROVE  (a \o b)[j] = IF j < i THEN q[j] ELSE q[j + 1]
  <2>1. j \in 1..(Len(a) + Len(b))
    BY <1>1, <1>2, <1>3
  <2>2. CASE j < i
    BY <1>1, <1>2, <1>4, <2>1, <2>2
  <2>3. CASE ~(j < i)
    <3>1. (a \o b)[j] = b[j - Len(a)]
      BY <1>1, <1>2, <1>4, <2>1, <2>3
    <3>2. j - Len(a) \in 1..(Len(q) - i) /\ i + (j - Len(a)) = j + 1
      BY <1>1, <1>2, <2>3
    <3>3. QED
      BY <1>3, <2>3, <3>1, <3>2
  <2>4. QED
    BY <2>2, <2>3
<1>8. QED
  BY <1>4, <1>5, <1>6, <1>7

LEMMA UnlistedType ==
    ASSUME clients \in Seq(Slot), Distinct, NEW s, Unlisted(s)
    PROVE  clients' \in Seq(Slot) /\ Distinct' /\ Live' = Live \ {s}
<1>1. PICK i \in DOMAIN clients : clients[i] = s /\ clients' = RemoveAt(clients, i)
  BY DEF Unlisted
<1>2. /\ clients' \in Seq(Slot) /\ DOMAIN clients' = 1..(Len(clients) - 1)
      /\ \A j \in 1..(Len(clients) - 1) :
            clients'[j] = IF j < i THEN clients[j] ELSE clients[j + 1]
  BY <1>1, RemoveAtValue
<1>3. DOMAIN clients = 1..Len(clients) /\ Len(clients) \in Nat /\ i \in 1..Len(clients)
  BY LenProperties
<1>4. Distinct'
  <2> SUFFICES ASSUME NEW j \in 1..(Len(clients) - 1), NEW k \in 1..(Len(clients) - 1),
                      clients'[j] = clients'[k]
               PROVE  j = k
    BY <1>2 DEF Distinct
  <2> DEFINE at(n) == IF n < i THEN n ELSE n + 1
  <2>1. /\ at(j) \in 1..Len(clients) /\ clients'[j] = clients[at(j)]
        /\ at(k) \in 1..Len(clients) /\ clients'[k] = clients[at(k)]
    BY <1>2, <1>3
  <2>2. at(j) = at(k)
    BY <1>3, <2>1 DEF Distinct
  <2>3. QED
    BY <1>3, <2>2
<1>5. Live' \subseteq Live \ {s}
  <2> SUFFICES ASSUME NEW j \in 1..(Len(clients) - 1)
               PROVE  clients'[j] \in Live \ {s}
    BY <1>2 DEF Live
  <2> DEFINE k == IF j < i THEN j ELSE j + 1
  <2>1. k \in 1..Len(clients) /\ k # i /\ clients'[j] = clients[k]
    BY <1>2, <1>3
  <2>2. QED
    BY <1>1, <1>3, <2>1 DEF Live, Distinct
<1>6. Live \ {s} \subseteq Live'
  <2> SUFFICES ASSUME NEW k \in 1..Len(clients), clients[k] # s
               PROVE  clients[k] \in Live'
    BY <1>3 DEF Live
  <2> DEFINE j == IF k < i THEN k ELSE k - 1
  <2>1. j \in 1..(Len(clients) - 1) /\ clients'[j] = clients[k]
    BY <1>1, <1>2, <1>3
  <2>2. QED
    BY <1>2, <2>1 DEF Live
<1>7. QED
  BY <1>2, <1>4, <1>5, <1>6

LEMMA AppendType ==
    ASSUME clients \in Seq(Slot), Distinct, NEW s \in Slot, s \notin Live,
           clients' = Append(clients, s)
    PROVE  clients' \in Seq(Slot) /\ Distinct' /\ Live' = Live \union {s}
<1>1. /\ clients' \in Seq(Slot) /\ DOMAIN clients' = 1..(Len(clients) + 1)
      /\ Len(clients) \in Nat /\ DOMAIN clients = 1..Len(clients)
      /\ \A i \in 1..Len(clients) : clients'[i] = clients[i]
      /\ clients'[Len(clients) + 1] = s
  BY LenProperties, AppendProperties
<1>2. 1..(Len(clients) + 1) = 1..Len(clients) \union {Len(clients) + 1}
  BY <1>1
<1>3. QED
  BY <1>1, <1>2 DEF Live, Distinct

LEMMA LiveType ==
    ASSUME clients \in Seq(Slot)
    PROVE  Live \subseteq Slot
BY ElementOfSeq, LenProperties DEF Live

\* getProfile finds a session on the list that has the profile.
LEMMA Found ==
    ASSUME clients \in Seq(Slot), NEW ss, NEW p, getProfileOf(clients, ss, p) # NoClient
    PROVE  /\ getProfileOf(clients, ss, p) \in Live
           /\ ss[getProfileOf(clients, ss, p)].profileid = p
<1> DEFINE i == CHOOSE i \in DOMAIN clients : First(clients, ss, p, i)
<1>1. \E j \in DOMAIN clients : First(clients, ss, p, j)
  BY DEF getProfileOf
<1>2. i \in DOMAIN clients /\ First(clients, ss, p, i)
  BY <1>1
<1>3. getProfileOf(clients, ss, p) = clients[i]
  BY <1>1 DEF getProfileOf
<1> HIDE DEF i
<1>4. QED
  BY <1>2, <1>3 DEF First, Live

-----------------------------------------------------------------------------
(* What players are told.                                                  *)

\* What sendBuddyInfo says is true when it is said.
LEMMA InfoHeard ==
    ASSUME clients \in Seq(Slot), NEW ss \in Sessions, NEW p \in Owner,
           NEW c \in Live, NEW asked, NEW but,
           ss[c].buddies[p] > 0 \/ <<ss[c].profileid, p>> \in asked
    PROVE  Info(ss, p) \in Word /\ Heard(Info(ss, p), ss, Live, asked, c, p, but)
<1> DEFINE g == getProfileOf(clients, ss, p)
<1>1. g # NoClient => g \in Live /\ ss[g].profileid = p
  BY Found
<1>2. c \in Slot /\ (g # NoClient => g \in Slot)
  BY <1>1, LiveType
<1>3. ss[c].buddies[p] \in Nat /\ (g # NoClient => ss[g].status \in Status \union {Unset})
  BY <1>2 DEF Sessions, Client, Bag
<1>4. Info(ss, p) = [status |-> IF g = NoClient \/ ss[g].blocklist[p] > 0 THEN Offline ELSE ss[g].status,
                     by |-> g]
  BY DEF Info
<1> HIDE DEF g
<1>5. Info(ss, p).by = g /\ (g # NoClient => Info(ss, p).status \in {ss[g].status, Offline})
  BY <1>4
<1>6. Info(ss, p) \in Word
  BY <1>2, <1>3, <1>4 DEF Word
<1>7. QED
  BY <1>1, <1>3, <1>5, <1>6 DEF Heard

\* The whole list is told as truly as it was before.
LEMMA ToldHeard ==
    ASSUME clients \in Seq(Slot), NEW v \in Views, NEW ss \in Sessions, NEW s \in Slot,
           NEW asked, NEW but, Truth(v, ss, Live, asked, but)
    PROVE  Told(v, ss, s) \in Views /\ Truth(Told(v, ss, s), ss, Live, asked, but)
<1>1. CASE s \notin Live
  BY <1>1 DEF Told
<1>2. CASE s \in Live
  <2> DEFINE row == [p \in Owner |-> IF ss[s].buddies[p] > 0 THEN Info(ss, p) ELSE v[s][p]]
  <2>1. Told(v, ss, s) = [v EXCEPT ![s] = row]
    BY <1>2 DEF Told
  <2>2. ASSUME NEW p \in Owner
        PROVE  row[p] \in Word /\ Heard(row[p], ss, Live, asked, s, p, but)
    <3>1. CASE ss[s].buddies[p] > 0
      BY <1>2, <3>1, InfoHeard
    <3>2. CASE ~(ss[s].buddies[p] > 0)
      BY <3>2 DEF Truth, Views
    <3>3. QED
      BY <3>1, <3>2
  <2>3. row \in [Owner -> Word]
    BY <2>2
  <2> HIDE DEF row
  <2>4. Told(v, ss, s) \in Views
    BY <2>1, <2>3 DEF Views
  <2>5. ASSUME NEW c \in Slot, NEW p \in Owner
        PROVE  Heard(Told(v, ss, s)[c][p], ss, Live, asked, c, p, but)
    <3>1. CASE c = s
      BY <2>1, <2>2, <3>1 DEF Views
    <3>2. CASE c # s
      BY <2>1, <3>2 DEF Views, Truth
    <3>3. QED
      BY <3>1, <3>2
  <2>6. QED
    BY <2>4, <2>5 DEF Truth
<1>3. QED
  BY <1>1, <1>2

\* Once the buddies of a session have been told of it, nothing it said is stale.
LEMMA StatusHeard ==
    ASSUME clients \in Seq(Slot), NEW v \in Views, NEW ss \in Sessions, NEW s \in Slot,
           NEW asked, Truth(v, ss, Live, asked, s)
    PROVE  /\ sendStatusUpdateToBuddies(v, ss, ss[s].profileid) \in Views
           /\ Truth(sendStatusUpdateToBuddies(v, ss, ss[s].profileid), ss, Live, asked, NoClient)
<1> DEFINE q == ss[s].profileid
           w == sendStatusUpdateToBuddies(v, ss, q)
<1>1. q \in Owner
  BY DEF Sessions, Client
<1> HIDE DEF q
<1>2. ASSUME NEW c \in Slot
      PROVE  /\ w[c] = IF c \in Live /\ ss[c].buddies[q] > 0
                       THEN [v[c] EXCEPT ![q] = Info(ss, q)] ELSE v[c]
             /\ w[c] \in [Owner -> Word]
  <2>1. CASE c \in Live /\ ss[c].buddies[q] > 0
    BY <1>1, <2>1, InfoHeard DEF sendStatusUpdateToBuddies, Views
  <2>2. CASE ~(c \in Live /\ ss[c].buddies[q] > 0)
    BY <2>2 DEF sendStatusUpdateToBuddies, Views
  <2>3. QED
    BY <2>1, <2>2 DEF sendStatusUpdateToBuddies
<1>3. w \in Views
  BY <1>2 DEF Views, sendStatusUpdateToBuddies
<1>4. ASSUME NEW c \in Slot, NEW p \in Owner
      PROVE  Heard(w[c][p], ss, Live, asked, c, p, NoClient)
  <2>1. CASE c \in Live /\ ss[c].buddies[q] > 0 /\ p = q
    <3>1. w[c][p] = Info(ss, q)
      BY <1>2, <2>1 DEF Views
    <3>2. QED
      BY <1>1, <2>1, <3>1, InfoHeard
  <2>2. CASE ~(c \in Live /\ ss[c].buddies[q] > 0 /\ p = q)
    <3>1. w[c][p] = v[c][p]
      BY <1>2, <2>2 DEF Views
    <3>2. Heard(v[c][p], ss, Live, asked, c, p, s)
      BY DEF Truth
    <3>3. QED
      BY <2>2, <3>1, <3>2 DEF Heard, q
  <2>3. QED
    BY <2>1, <2>2
<1>5. Truth(w, ss, Live, asked, NoClient)
  BY <1>4 DEF Truth
<1>6. QED
  BY <1>3, <1>5 DEF q

\* What is left when a session ends, or has another profile, is about the others.
LEMMA ForgottenHeard ==
    ASSUME NEW v \in Views, NEW ss, NEW ss1, NEW live, NEW live1, NEW s \in Slot, NEW asked,
           Truth(v, ss, live, asked, NoClient),
           live \ {s} \subseteq live1, \A c \in live \ {s} : ss1[c] = ss[c]
    PROVE  Forgotten(v, s) \in Views /\ Truth(Forgotten(v, s), ss1, live1, asked, NoClient)
<1>1. Silence \in [Owner -> Word] /\ \A p \in Owner : Silence[p].by = NoClient
  BY DEF Silence, Word
<1>2. ASSUME NEW c \in Slot
      PROVE  Forgotten(v, s)[c] = IF c = s THEN Silence
                ELSE [p \in Owner |-> IF v[c][p].by = s THEN Silence[p] ELSE v[c][p]]
  BY DEF Forgotten
<1>3. Forgotten(v, s) \in Views
  <2>1. \A c \in Slot : Forgotten(v, s)[c] \in [Owner -> Word]
    BY <1>1, <1>2 DEF Views
  <2>2. QED
    BY <2>1 DEF Views, Forgotten
<1>4. ASSUME NEW c \in Slot, NEW p \in Owner
      PROVE  Heard(Forgotten(v, s)[c][p], ss1, live1, asked, c, p, NoClient)
  <2>1. CASE c = s \/ v[c][p].by = s
    <3>1. Forgotten(v, s)[c][p] = Silence[p]
      <4>1. CASE c = s
        BY <1>2, <4>1
      <4>2. CASE c # s /\ v[c][p].by = s
        BY <1>2, <4>2
      <4>3. QED
        BY <2>1, <4>1, <4>2
    <3>2. QED
      BY <1>1, <3>1 DEF Heard
  <2>2. CASE c # s /\ v[c][p].by # s
    <3>1. Forgotten(v, s)[c][p] = v[c][p]
      BY <1>2, <2>2
    <3>2. Heard(v[c][p], ss, live, asked, c, p, NoClient)
      BY DEF Truth
    <3>3. QED
      BY <2>2, <3>1, <3>2 DEF Heard
  <2>3. QED
    BY <2>1, <2>2
<1>5. QED
  BY <1>3, <1>4 DEF Truth

\* Nothing is heard that was not, if the sessions on the list are what they were.
LEMMA StillHeard ==
    ASSUME NEW v, NEW ss, NEW ss1, NEW live, NEW live1, NEW asked, NEW asked1,
           Truth(v, ss, live, asked, NoClient), live \subseteq live1, asked \subseteq asked1,
           \A c \in live : /\ ss1[c].profileid = ss[c].profileid /\ ss1[c].buddies = ss[c].buddies
                           /\ ss1[c].status = ss[c].status
    PROVE  Truth(v, ss1, live1, asked1, NoClient)
<1> SUFFICES ASSUME NEW c \in Slot, NEW p \in Owner
             PROVE  Heard(v[c][p], ss1, live1, asked1, c, p, NoClient)
  BY DEF Truth
<1>1. Heard(v[c][p], ss, live, asked, c, p, NoClient)
  BY DEF Truth
<1>2. QED
  BY <1>1 DEF Heard

-----------------------------------------------------------------------------
(* Sessions come and go.                                                   *)

\* The list and the commands of a deleted client are as before.
LEMMA Unmoved ==
    ASSUME PresenceInv, UNCHANGED <<clients, gone>>,
           session' \in Sessions, Tables', view' \in Views, sent' \subseteq Slot \X Message,
           Truth(view', session', Live, requests', NoClient)
    PROVE  PresenceInv'
<1>1. Live' = Live
  BY DEF Live
<1>2. Distinct' /\ gone' \notin Live'
  BY <1>1 DEF PresenceInv, Distinct
<1>3. TypeOK'
  BY DEF PresenceInv, TypeOK, Sessions, Views, Tables
<1>4. QED
  BY <1>1, <1>2, <1>3 DEF PresenceInv

\* The parts of TypeOK under their names here.
LEMMA Typed ==
    ASSUME PresenceInv
    PROVE  /\ clients \in Seq(Slot) /\ session \in Sessions /\ Tables /\ view \in Views
           /\ Live \subseteq Slot /\ gone \in Slot \union {NoClient}
           /\ Truth(view, session, Live, requests, NoClient)
BY LiveType DEF PresenceInv, TypeOK, Sessions, Tables, Views

LEMMA FreshClient == Fresh \in Client /\ None \in Bag
<1>1. None \in Bag
  BY DEF None, Bag
<1>2. NoProfile \in Owner /\ Unset \in Status \union {Unset}
  BY DEF Owner
<1>3. QED
  BY <1>1, <1>2 DEF Fresh, Client

LEMMA InitSound == Init => PresenceInv
<1> SUFFICES ASSUME Init
             PROVE  PresenceInv
  OBVIOUS
<1>1. Silence \in [Owner -> Word] /\ \A p \in Owner : Silence[p].by = NoClient
  BY DEF Silence, Word
<1>2. clients = <<>> /\ Live = {} /\ clients \in Seq(Slot) /\ Distinct
  BY DEF Init, Live, Distinct
<1>3. view \in Views /\ Truth(view, session, Live, requests, NoClient)
  BY <1>1 DEF Init, Views, Truth, Heard
<1>4. TypeOK
  BY <1>2, <1>3, FreshClient, PresenceAssumption DEF Init, TypeOK, Views
<1>5. QED
  BY <1>2, <1>3, <1>4 DEF PresenceInv

LEMMA AcceptSound ==
    ASSUME PresenceInv, NEW s \in Slot, Accept(s)
    PROVE  PresenceInv'
<1>1. clients' \in Seq(Slot) /\ Distinct' /\ Live' = Live \union {s}
  BY AppendType DEF Accept, PresenceInv, TypeOK
<1>2. UNCHANGED <<session, gone, tables, view>> /\ gone = NoClient /\ sent' = {}
  BY DEF Accept
<1>3. TypeOK'
  BY <1>1, <1>2 DEF PresenceInv, TypeOK, tables
<1>4. gone' \notin Live'
  BY <1>1, <1>2, PresenceAssumption DEF PresenceInv
<1>5. Truth(view, session, Live \union {s}, requests, NoClient)
  BY StillHeard, Typed
<1>6. QED
  BY <1>1, <1>2, <1>3, <1>4, <1>5 DEF PresenceInv, tables

\* A session leaves the list, whatever is left in its memory.
LEMMA LeaveSound ==
    ASSUME PresenceInv, NEW s \in Live, Unlisted(s),
           NEW c \in Client, session' = [session EXCEPT ![s] = c],
           view' = Forgotten(view, s), Tables', requests' = requests, sent' = {},
           gone' \in {NoClient, s}
    PROVE  PresenceInv'
<1>1. clients' \in Seq(Slot) /\ Distinct' /\ Live' = Live \ {s}
  BY UnlistedType DEF PresenceInv, TypeOK
<1>2. s \in Slot /\ session' \in Sessions /\ (\A d \in Live \ {s} : session'[d] = session[d])
  BY Typed DEF Sessions
<1>3. view' \in Views /\ Truth(view', session', Live', requests', NoClient)
  BY <1>1, <1>2, Typed, ForgottenHeard
<1>4. gone' \notin Live' /\ gone' \in Slot \union {NoClient}
  BY <1>1, <1>2, Typed, PresenceAssumption
<1>5. TypeOK'
  BY <1>1, <1>2, <1>3, <1>4 DEF TypeOK, Tables, Sessions, Views
<1>6. QED
  BY <1>1, <1>3, <1>4, <1>5 DEF PresenceInv

LEMMA RemainsType ==
    ASSUME NEW c \in Client
    PROVE  Remains(c) \subseteq Client
<1>1. Junk \in Owner /\ None \in Bag
  BY FreshClient DEF Owner
<1>2. QED
  BY <1>1 DEF Remains, Client

LEMMA DeletedSound ==
    ASSUME PresenceInv, NEW s \in Slot, Deleted(s), Tables', requests' = requests, sent' = {}
    PROVE  PresenceInv'
<1>1. CASE s \in Live
  <2>1. PICK c \in Remains(session[s]) : session' = [session EXCEPT ![s] = c]
    BY <1>1 DEF Deleted
  <2>2. c \in Client
    BY <2>1, RemainsType, Typed DEF Sessions
  <2>3. QED
    BY <1>1, <2>1, <2>2, LeaveSound DEF Deleted
<1>2. CASE s \notin Live
  BY <1>2, Typed, Unmoved DEF Deleted
<1>3. QED
  BY <1>1, <1>2

LEMMA DisconnectSound ==
    ASSUME PresenceInv, NEW s \in Slot, Disconnect(s)
    PROVE  PresenceInv'
<1>1. Tables' /\ requests' = requests
  BY Typed DEF Disconnect, Tables, tables
<1>2. QED
  BY <1>1, FreshClient, LeaveSound DEF Disconnect

LEMMA EndOfDataSound ==
    ASSUME PresenceInv, EndOfData
    PROVE  PresenceInv'
<1>1. gone \in Slot /\ gone \notin Live
  BY Typed DEF EndOfData, PresenceInv
<1>2. /\ UNCHANGED <<clients, view>> /\ Tables' /\ requests' = requests
      /\ gone' = NoClient /\ sent' = {} /\ session' = [session EXCEPT ![gone] = Fresh]
  BY Typed DEF EndOfData, Tables, tables
<1>3. session' \in Sessions /\ (\A d \in Live : session'[d] = session[d])
  BY <1>1, <1>2, Typed, FreshClient DEF Sessions
<1>4. Truth(view, session', Live, requests, NoClient)
  BY <1>3, Typed, StillHeard
<1>5. Live' = Live /\ Distinct'
  BY <1>2 DEF Live, Distinct, PresenceInv
<1>6. TypeOK'
  BY <1>2, <1>3, Typed DEF TypeOK, Tables, Sessions, Views
<1>7. NoClient \notin Live
  BY Typed, PresenceAssumption
<1>8. QED
  BY <1>2, <1>4, <1>5, <1>6, <1>7 DEF PresenceInv

LEMMA RefuseSound ==
    ASSUME PresenceInv, NEW s \in Slot, Refuse(s)
    PROVE  PresenceInv'
<1>1. Tables' /\ requests' = requests
  BY Typed DEF Refuse, deleteClient, Tables, tables
<1>2. QED
  BY <1>1, DeletedSound DEF Refuse, deleteClient

LEMMA DelProfileSound ==
    ASSUME PresenceInv, NEW s \in Slot, handleDelProfile(s)
    PROVE  PresenceInv'
<1>1. Tables' /\ requests' = requests
  BY Typed DEF handleDelProfile, Tables
<1>2. QED
  BY <1>1, DeletedSound DEF handleDelProfile

-----------------------------------------------------------------------------
(* Commands.                                                               *)

\* The kept messages that are sent are messages; those deleted are the profile's.
LEMMA SendMessagesSound ==
    ASSUME PresenceInv, NEW s \in Slot, NEW p, sendMessages(s, p)
    PROVE  /\ sent' \subseteq Slot \X Message /\ messages' \subseteq messages
           /\ s \in Live => \A m \in messages \ messages' : m.to = p /\ <<s, m>> \in sent'
<1>1. For(p) \subseteq messages /\ messages \subseteq Message /\ (\A m \in For(p) : m.to = p)
  BY Typed DEF For, Tables
<1>2. CASE sent' = {} /\ UNCHANGED messages
  BY <1>2
<1>3. CASE /\ sent' = IF s \in Live THEN {s} \X For(p) ELSE {}
           /\ messages' \in {messages, messages \ For(p)}
  BY <1>1, <1>3
<1>4. QED
  BY <1>2, <1>3 DEF sendMessages

LEMMA LoginSound ==
    ASSUME PresenceInv, NEW s \in Slot, handleLogin(s)
    PROVE  PresenceInv' /\ session'[s].profileid = TheProfile
<1>1. PICK inUse \in HasUser(TheProfile), newList \in BOOLEAN,
           b \in Loaded(session[s].buddies, buddyRows), l \in Loaded(session[s].blocklist, blockRows) :
        /\ session' = [session EXCEPT ![s] =
               [session[s] EXCEPT !.profileid = TheProfile, !.userid = inUse, !.buddies = b,
                                  !.blocklist = l, !.sentBuddies = @ \/ newList]]
        /\ view' = IF newList THEN Told(Forgotten(view, s), session', s) ELSE Forgotten(view, s)
  BY DEF handleLogin
<1>2. PICK k \in BOOLEAN : k = (session[s].sentBuddies \/ newList)
  OBVIOUS
<1>3. session[s] \in Client /\ buddyRows \in Bag /\ blockRows \in Bag
  BY Typed DEF Sessions, Tables
<1>4. b \in Bag /\ l \in Bag /\ inUse \in BOOLEAN /\ TheProfile \in Owner
  <2>1. inUse \in BOOLEAN
    BY DEF HasUser
  <2>2. session[s].buddies \in Bag /\ session[s].blocklist \in Bag
    BY <1>3 DEF Client
  <2>3. QED
    BY <1>3, <2>1, <2>2, PresenceAssumption DEF Loaded, Owner
<1>5. [session[s] EXCEPT !.profileid = TheProfile, !.userid = inUse, !.buddies = b,
                         !.blocklist = l, !.sentBuddies = @ \/ newList] \in Client
  BY <1>2, <1>3, <1>4 DEF Client
<1>6. session' \in Sessions /\ (\A d \in Live \ {s} : session'[d] = session[d])
  BY <1>1, <1>5, Typed DEF Sessions
<1>7. Forgotten(view, s) \in Views /\ Truth(Forgotten(view, s), session', Live, requests, NoClient)
  BY <1>6, Typed, ForgottenHeard
<1>8. view' \in Views /\ Truth(view', session', Live, requests, NoClient)
  BY <1>1, <1>6, <1>7, Typed, ToldHeard
<1>9. Tables' /\ sent' \subseteq Slot \X Message /\ requests' = requests
  BY Typed, SendMessagesSound DEF handleLogin, Tables
<1>10. UNCHANGED <<clients, gone>>
  BY DEF handleLogin
<1>11. session'[s].profileid = TheProfile
  BY <1>1, <1>3, Typed DEF Sessions, Client
<1>12. QED
  BY <1>6, <1>8, <1>9, <1>10, <1>11, Unmoved

LEMMA MakeProfileSound ==
    ASSUME PresenceInv, NEW p \in Owner, NEW owned, makeNewProfile(p, owned),
           UNCHANGED <<buddyRows, blockRows, requests, messages>>
    PROVE  Tables'
BY Typed, PresenceAssumption DEF makeNewProfile, Tables

LEMMA NewUserSound ==
    ASSUME PresenceInv, NEW s \in Slot, handleNewUser(s)
    PROVE  PresenceInv'
<1>1. PICK p \in Owner, registered \in BOOLEAN, first \in BOOLEAN :
        /\ makeNewProfile(p, registered)
        /\ IF first THEN session' = [session EXCEPT ![s].profileid = p] /\ view' = Forgotten(view, s)
                    ELSE UNCHANGED <<session, view>>
  BY DEF handleNewUser
<1>2. UNCHANGED <<clients, gone, buddyRows, blockRows, requests, messages>> /\ sent' = {}
  BY DEF handleNewUser
<1>3. Tables'
  BY <1>1, <1>2, MakeProfileSound
<1>4. session' \in Sessions /\ view' \in Views /\ Truth(view', session', Live, requests, NoClient)
  <2>1. CASE first
    <3>1. session' \in Sessions /\ (\A d \in Live \ {s} : session'[d] = session[d])
      BY <1>1, <2>1, Typed DEF Sessions, Client
    <3>2. QED
      BY <1>1, <2>1, <3>1, Typed, ForgottenHeard
  <2>2. CASE ~first
    BY <1>1, <2>2, Typed
  <2>3. QED
    BY <2>1, <2>2
<1>5. QED
  BY <1>2, <1>3, <1>4, Unmoved

LEMMA NewProfileSound ==
    ASSUME PresenceInv, NEW s \in Slot, handleNewProfile(s)
    PROVE  PresenceInv'
<1>1. /\ UNCHANGED <<clients, session, gone, buddyRows, blockRows, requests, messages, view>>
      /\ sent' = {}
  BY DEF handleNewProfile
<1>2. Tables'
  BY <1>1, MakeProfileSound DEF handleNewProfile
<1>3. QED
  BY <1>1, <1>2, Typed, Unmoved

\* sendBuddies, once per session.
LEMMA ListedHeard ==
    ASSUME PresenceInv, NEW s \in Slot, NEW ss \in Sessions, NEW but,
           Truth(view, ss, Live, requests, but)
    PROVE  Listed(view, ss, s) \in Views /\ Truth(Listed(view, ss, s), ss, Live, requests, but)
BY Typed, ToldHeard DEF Listed

LEMMA StatusSound ==
    ASSUME PresenceInv, NEW s \in Slot, handleStatus(s)
    PROVE  PresenceInv'
<1>1. PICK st \in Status \union {session[s].status} :
        /\ session' = [session EXCEPT ![s].status = st, ![s].sentBuddies = TRUE]
        /\ view' = sendStatusUpdateToBuddies(Listed(view, session', s), session', session'[s].profileid)
  BY DEF handleStatus
<1>2. UNCHANGED <<clients, gone, tables>> /\ sent' = {}
  BY DEF handleStatus
<1>3. session[s] \in Client /\ st \in Status \union {Unset}
  BY Typed DEF Sessions, Client
<1>4. session' = [session EXCEPT ![s] = [session[s] EXCEPT !.status = st, !.sentBuddies = TRUE]]
  BY <1>1, Typed DEF Sessions
<1>5. [session[s] EXCEPT !.status = st, !.sentBuddies = TRUE] \in Client
  BY <1>3 DEF Client
<1>6. /\ session' \in Sessions
      /\ \A c \in Slot : /\ session'[c].profileid = session[c].profileid
                         /\ session'[c].buddies = session[c].buddies
                         /\ c # s => session'[c].status = session[c].status
  <2>1. session' \in Sessions
    BY <1>4, <1>5, Typed DEF Sessions
  <2>2. ASSUME NEW c \in Slot
        PROVE  /\ session'[c].profileid = session[c].profileid
               /\ session'[c].buddies = session[c].buddies
               /\ c # s => session'[c].status = session[c].status
    <3>1. CASE c = s
      BY <1>3, <1>4, <3>1, Typed DEF Sessions, Client
    <3>2. CASE c # s
      BY <1>4, <3>2, Typed DEF Sessions
    <3>3. QED
      BY <3>1, <3>2
  <2>3. QED
    BY <2>1, <2>2
<1>7. Truth(view, session', Live, requests, s)
  <2> SUFFICES ASSUME NEW c \in Slot, NEW p \in Owner
               PROVE  Heard(view[c][p], session', Live, requests, c, p, s)
    BY DEF Truth
  <2>1. Heard(view[c][p], session, Live, requests, c, p, NoClient)
    BY Typed DEF Truth
  <2>2. QED
    BY <1>6, <2>1, Typed DEF Heard
<1>8. /\ Listed(view, session', s) \in Views
      /\ Truth(Listed(view, session', s), session', Live, requests, s)
  BY <1>6, <1>7, ListedHeard
<1>9. view' \in Views /\ Truth(view', session', Live, requests, NoClient)
  BY <1>1, <1>6, <1>8, Typed, StatusHeard
<1>10. Tables' /\ requests' = requests
  BY <1>2, Typed DEF Tables, tables
<1>11. QED
  BY <1>2, <1>6, <1>9, <1>10, Unmoved

LEMMA GetProfileSound ==
    ASSUME PresenceInv, NEW s \in Slot, handleGetProfile(s)
    PROVE  PresenceInv'
<1>1. /\ session' = [session EXCEPT ![s] = [session[s] EXCEPT !.sentBuddies = TRUE]]
      /\ view' = Listed(view, session, s) /\ UNCHANGED <<clients, gone, tables>> /\ sent' = {}
  BY Typed DEF handleGetProfile, Sessions
<1>2. session[s] \in Client
  BY Typed DEF Sessions
<1>3. [session[s] EXCEPT !.sentBuddies = TRUE] \in Client
  BY <1>2 DEF Client
<1>4. session' \in Sessions
  BY <1>1, <1>3, Typed DEF Sessions
<1>5. \A c \in Live : /\ session'[c].profileid = session[c].profileid
                      /\ session'[c].buddies = session[c].buddies
                      /\ session'[c].status = session[c].status
  BY <1>1, <1>2, Typed DEF Sessions, Client
<1>6. view' \in Views /\ Truth(view', session, Live, requests, NoClient)
  BY <1>1, Typed, ListedHeard
<1>7. Truth(view', session', Live, requests, NoClient)
  BY <1>5, <1>6, StillHeard
<1>8. Tables' /\ requests' = requests
  BY <1>1, Typed DEF Tables, tables
<1>9. QED
  BY <1>1, <1>4, <1>6, <1>7, <1>8, Unmoved

LEMMA BMSound ==
    ASSUME PresenceInv, NEW s \in Slot, handleBM(s)
    PROVE  PresenceInv' /\ messages \subseteq messages'
<1>1. PICK to \in Named, text \in Text :
        \/ /\ getProfile(to) # NoClient /\ UNCHANGED messages
           /\ sent' = {<<getProfile(to), [to |-> to, text |-> text]>>}
        \/ messages' = messages \union {[to |-> to, text |-> text]} /\ sent' = {}
  BY DEF handleBM, saveMessage
<1>2. /\ UNCHANGED <<clients, gone, session, view, buddyRows, blockRows, requests>>
      /\ UNCHANGED <<profiles, made>>
  BY DEF handleBM
<1>3. [to |-> to, text |-> text] \in Message
  BY PresenceAssumption DEF Message
<1>4. getProfile(to) # NoClient => getProfile(to) \in Slot
  BY Typed, Found DEF getProfile
<1>5. sent' \subseteq Slot \X Message /\ messages' \subseteq Message /\ messages \subseteq messages'
  BY <1>1, <1>3, <1>4, Typed DEF Tables
<1>6. Tables'
  BY <1>2, <1>5, Typed DEF Tables
<1>7. QED
  BY <1>2, <1>5, <1>6, Typed, Unmoved

LEMMA AddBuddySound ==
    ASSUME PresenceInv, NEW s \in Slot, handleAddBuddy(s)
    PROVE  PresenceInv'
<1>1. PICK p \in Named : requests' = requests \union {<<session[s].profileid, p>>}
  BY DEF handleAddBuddy
<1>2. UNCHANGED <<clients, gone, session, view, buddyRows, blockRows, messages, profiles, made>> /\ sent' = {}
  BY DEF handleAddBuddy
<1>3. session[s].profileid \in Owner /\ p \in Owner
  BY Typed, PresenceAssumption DEF Sessions, Client
<1>4. Tables'
  BY <1>1, <1>2, <1>3, Typed DEF Tables
<1>5. Truth(view, session, Live, requests', NoClient)
  BY <1>1, Typed, StillHeard
<1>6. QED
  BY <1>2, <1>4, <1>5, Typed, Unmoved

\* Lists of profiles stay lists of profiles.
LEMMA Lists ==
    ASSUME NEW bag \in Bag, NEW p \in Owner
    PROVE  /\ More(bag, p) \in Bag /\ NoneOf(bag, p) \in Bag
           /\ bag[p] > 0 => OneLess(bag, p) \in Bag
           /\ More(bag, p)[p] > 0
           /\ \A q \in Owner \ {p} : More(bag, p)[q] = bag[q] /\ OneLess(bag, p)[q] = bag[q]
BY DEF More, NoneOf, OneLess, Bag

LEMMA RowsType ==
    ASSUME NEW rows \in Bag, NEW owner, NEW changed \in Bag
    PROVE  Rows(rows, owner, changed) \in Bag
BY DEF Rows

LEMMA AuthAddSound ==
    ASSUME PresenceInv, NEW s \in Slot, handleAuthAdd(s)
    PROVE  PresenceInv'
<1> DEFINE me == session[s].profileid
<1>1. PICK from \in Named, inserted \in BOOLEAN :
        LET c == getProfile(from)
        IN  /\ c # NoClient
            /\ view' = IF <<from, me>> \in requests
                       THEN [view EXCEPT ![c][me] = Info(session, me)] ELSE view
            /\ IF inserted
               THEN /\ buddyRows' = Rows(buddyRows, from, More(buddyRows, me))
                    /\ session' = [session EXCEPT ![c].buddies = More(@, me)]
               ELSE UNCHANGED <<buddyRows, session>>
  BY DEF handleAuthAdd
<1> DEFINE c == getProfile(from)
<1>2. UNCHANGED <<clients, gone, blockRows, requests, messages, profiles, made>> /\ sent' = {}
  BY DEF handleAuthAdd
<1>3. me \in Owner /\ c \in Live /\ c \in Slot /\ session[c].profileid = from
  BY <1>1, Typed, Found DEF Sessions, Client, getProfile
<1>4. /\ view' = IF <<from, me>> \in requests
                 THEN [view EXCEPT ![c][me] = Info(session, me)] ELSE view
      /\ inserted => session' = [session EXCEPT ![c].buddies = More(@, me)]
      /\ ~inserted => session' = session
      /\ buddyRows' \in {buddyRows, Rows(buddyRows, from, More(buddyRows, me))}
  BY <1>1
<1> HIDE DEF me, c
<1>5. Tables'
  <2>1. buddyRows \in Bag
    BY Typed DEF Tables
  <2>2. Rows(buddyRows, from, More(buddyRows, me)) \in Bag
    <3>1. More(buddyRows, me) \in Bag
      BY <1>3, <2>1, Lists
    <3>2. QED
      BY <2>1, <3>1, RowsType
  <2>3. QED
    BY <1>2, <1>4, <2>1, <2>2, Typed DEF Tables
<1>6. /\ session' \in Sessions
      /\ \A d \in Slot : /\ session'[d].profileid = session[d].profileid
                         /\ session'[d].status = session[d].status
                         /\ \A q \in Owner : d # c \/ q # me =>
                                session'[d].buddies[q] = session[d].buddies[q]
  <2>1. CASE inserted
    <3>1. session[c] \in Client /\ session[c].buddies \in Bag
      BY <1>3, Typed DEF Sessions, Client
    <3> DEFINE r == [session[c] EXCEPT !.buddies = More(session[c].buddies, me)]
    <3>2. session' = [session EXCEPT ![c] = r]
      BY <1>3, <1>4, <2>1, Typed DEF Sessions
    <3>3. r \in Client /\ r.profileid = session[c].profileid /\ r.status = session[c].status
          /\ r.buddies = More(session[c].buddies, me)
      BY <1>3, <3>1, Lists DEF Client
    <3> HIDE DEF r
    <3>4. \A q \in Owner : q # me => r.buddies[q] = session[c].buddies[q]
      BY <1>3, <3>1, <3>3 DEF More, Bag
    <3>5. QED
      BY <1>3, <3>2, <3>3, <3>4, Typed DEF Sessions
  <2>2. CASE ~inserted
    BY <1>4, <2>2, Typed
  <2>3. QED
    BY <2>1, <2>2
<1>7. view' \in Views
  <2>1. CASE <<from, me>> \in requests
    <3>1. Info(session, me) \in Word
      BY <1>3, <2>1, Typed, InfoHeard
    <3>2. QED
      BY <1>3, <1>4, <2>1, <3>1, Typed DEF Views
  <2>2. QED
    BY <1>4, <2>1, Typed
<1>8. ASSUME NEW d \in Slot, NEW p \in Owner
      PROVE  Heard(view'[d][p], session', Live, requests, d, p, NoClient)
  <2>1. Heard(view[d][p], session, Live, requests, d, p, NoClient)
    BY Typed DEF Truth
  <2>2. CASE d = c /\ p = me /\ <<from, me>> \in requests
    <3>1. view'[d][p] = Info(session, p)
      BY <1>3, <1>4, <2>2, Typed DEF Views
    <3>2. Heard(Info(session, p), session, Live, requests, d, p, NoClient)
      BY <1>3, <2>2, Typed, InfoHeard
    <3>3. Info(session, p).by # NoClient =>
             /\ Info(session, p).by \in Slot
             /\ Info(session, p).status \in {session[Info(session, p).by].status, Offline}
      BY Typed, Found DEF Info
    <3>4. QED
      BY <1>3, <1>6, <2>2, <3>1, <3>2, <3>3 DEF Heard
  <2>3. CASE d = c /\ p = me /\ <<from, me>> \notin requests
    <3>1. view'[d][p] = view[d][p]
      BY <1>4, <2>3
    <3>2. session[d].buddies[p] \in Nat
      BY <1>3, <2>3, Typed DEF Sessions, Client, Bag
    <3>3. view[d][p].by # NoClient =>
             /\ session[d].buddies[p] > 0 /\ view[d][p].by \in Slot
             /\ view[d][p].status \in {session[view[d][p].by].status, Offline}
      BY <1>3, <2>1, <2>3, <3>2, Typed DEF Heard
    <3>4. view[d][p].by # NoClient => ~(session'[d].buddies[p] = 0)
      <4>1. CASE inserted
        <5>1. session[c].buddies \in Bag /\ session[c] \in Client
          BY <1>3, Typed DEF Sessions, Client
        <5>2. session'[c].buddies = More(session[c].buddies, me)
          BY <1>3, <1>4, <4>1, <5>1, Typed DEF Sessions, Client
        <5>3. More(session[c].buddies, me)[me] = session[c].buddies[me] + 1
          BY <1>3, <5>1 DEF More, Bag
        <5>4. QED
          BY <2>3, <3>2, <5>2, <5>3
      <4>2. CASE ~inserted
        BY <1>4, <3>2, <3>3, <4>2
      <4>3. QED
        BY <4>1, <4>2
    <3>5. QED
      BY <1>6, <2>1, <3>1, <3>3, <3>4 DEF Heard
  <2>4. CASE ~(d = c /\ p = me)
    <3>1. view'[d][p] = view[d][p]
      BY <1>3, <1>4, <2>4, Typed DEF Views
    <3>2. session'[d].buddies[p] = session[d].buddies[p]
      BY <1>6, <2>4
    <3>3. QED
      BY <1>6, <2>1, <3>1, <3>2, Typed DEF Heard
  <2>5. QED
    BY <2>2, <2>3, <2>4
<1>9. Truth(view', session', Live, requests', NoClient)
  BY <1>2, <1>8 DEF Truth
<1>10. QED
  BY <1>2, <1>5, <1>6, <1>7, <1>9, Unmoved

LEMMA DelBuddySound ==
    ASSUME PresenceInv, NEW s \in Slot, handleDelBuddy(s)
    PROVE  PresenceInv'
<1>1. PICK p \in Named :
        /\ session[s].buddies[p] > 0
        /\ buddyRows' = Rows(buddyRows, session[s].profileid, NoneOf(buddyRows, p))
        /\ session' = [session EXCEPT ![s].buddies = OneLess(@, p)]
        /\ view' = IF s \in Live THEN [view EXCEPT ![s][p] = Silence[p]] ELSE view
  BY DEF handleDelBuddy, hasBuddy
<1>2. UNCHANGED <<clients, gone, blockRows, requests, messages, profiles, made>> /\ sent' = {}
  BY DEF handleDelBuddy
<1>3. p \in Owner /\ session[s] \in Client /\ session[s].buddies \in Bag
  BY Typed, PresenceAssumption DEF Sessions, Client
<1>4. OneLess(session[s].buddies, p) \in Bag
  BY <1>1, <1>3, Lists
<1> DEFINE r == [session[s] EXCEPT !.buddies = OneLess(session[s].buddies, p)]
<1>5. session' = [session EXCEPT ![s] = r]
  BY <1>1, Typed DEF Sessions
<1>6. /\ r \in Client /\ r.profileid = session[s].profileid /\ r.status = session[s].status
      /\ r.buddies = OneLess(session[s].buddies, p)
  BY <1>3, <1>4 DEF Client
<1> HIDE DEF r
<1>7. \A q \in Owner : q # p => r.buddies[q] = session[s].buddies[q]
  BY <1>3, <1>6 DEF OneLess, Bag
<1>8. session' \in Sessions /\ (\A d \in Slot : d # s => session'[d] = session[d]) /\ session'[s] = r
  BY <1>5, <1>6, Typed DEF Sessions
<1>9. Tables'
  <2>1. buddyRows \in Bag
    BY Typed DEF Tables
  <2>2. NoneOf(buddyRows, p) \in Bag
    BY <1>3, <2>1, Lists
  <2>3. buddyRows' \in Bag
    BY <1>1, <2>1, <2>2, RowsType
  <2>4. QED
    BY <1>2, <2>3, Typed DEF Tables
<1>10. Silence[p] \in Word /\ Silence[p].by = NoClient
  BY <1>3 DEF Silence, Word
<1>11. view' \in Views
  BY <1>1, <1>3, <1>10, Typed DEF Views
<1>12. ASSUME NEW d \in Slot, NEW q \in Owner
       PROVE  Heard(view'[d][q], session', Live, requests, d, q, NoClient)
  <2>1. Heard(view[d][q], session, Live, requests, d, q, NoClient)
    BY Typed DEF Truth
  <2>2. CASE d = s /\ q = p
    <3>1. CASE s \in Live
      <4>1. view'[d][q] = Silence[p]
        BY <1>1, <1>3, <2>2, <3>1, Typed DEF Views
      <4>2. QED
        BY <1>10, <4>1 DEF Heard
    <3>2. CASE s \notin Live
      BY <1>1, <2>1, <2>2, <3>2 DEF Heard
    <3>3. QED
      BY <3>1, <3>2
  <2>3. CASE ~(d = s /\ q = p)
    <3>1. view'[d][q] = view[d][q]
      BY <1>1, <1>3, <2>3, Typed DEF Views
    <3>2. session'[d].buddies[q] = session[d].buddies[q]
      BY <1>7, <1>8, <2>3
    <3>3. \A e \in Slot : /\ session'[e].profileid = session[e].profileid
                          /\ session'[e].status = session[e].status
      BY <1>6, <1>8
    <3>4. QED
      BY <2>1, <3>1, <3>2, <3>3, Typed DEF Heard
  <2>4. QED
    BY <2>2, <2>3
<1>13. Truth(view', session', Live, requests', NoClient)
  BY <1>2, <1>12 DEF Truth
<1>14. QED
  BY <1>2, <1>8, <1>9, <1>11, <1>13, Unmoved

LEMMA RevokeSound ==
    ASSUME PresenceInv, NEW s \in Slot, handleRevoke(s)
    PROVE  PresenceInv'
<1>1. PICK p \in Named : buddyRows' = Rows(buddyRows, p, NoneOf(buddyRows, session[s].profileid))
  BY DEF handleRevoke
<1>2. /\ UNCHANGED <<clients, session, gone, blockRows, requests, messages, profiles, made, view>>
      /\ sent' = {}
  BY DEF handleRevoke
<1>3. session[s].profileid \in Owner /\ buddyRows \in Bag
  BY Typed DEF Sessions, Client, Tables
<1>4. NoneOf(buddyRows, session[s].profileid) \in Bag
  BY <1>3, Lists
<1>5. buddyRows' \in Bag
  BY <1>1, <1>3, <1>4, RowsType
<1>6. Tables'
  BY <1>2, <1>5, Typed DEF Tables
<1>7. QED
  BY <1>2, <1>6, Typed, Unmoved

\* A session's blocks change, and nothing that its status is told by.
LEMMA BlocksSound ==
    ASSUME PresenceInv, NEW s \in Slot, NEW list \in Bag, NEW rows \in Bag,
           session' = [session EXCEPT ![s].blocklist = list], blockRows' = rows,
           UNCHANGED <<clients, gone, buddyRows, requests, messages, profiles, made, view>>, sent' = {}
    PROVE  PresenceInv'
<1>1. session[s] \in Client
  BY Typed DEF Sessions
<1> DEFINE r == [session[s] EXCEPT !.blocklist = list]
<1>2. session' = [session EXCEPT ![s] = r]
  BY Typed DEF Sessions
<1>3. /\ r \in Client /\ r.profileid = session[s].profileid /\ r.status = session[s].status
      /\ r.buddies = session[s].buddies
  BY <1>1 DEF Client
<1> HIDE DEF r
<1>4. session' \in Sessions
  BY <1>2, <1>3, Typed DEF Sessions
<1>5. Truth(view, session', Live, requests, NoClient)
  <2>1. \A c \in Live : /\ session'[c].profileid = session[c].profileid
                        /\ session'[c].buddies = session[c].buddies
                        /\ session'[c].status = session[c].status
    BY <1>2, <1>3, Typed DEF Sessions
  <2>2. QED
    BY <2>1, Typed, StillHeard
<1>6. Tables'
  BY Typed DEF Tables
<1>7. QED
  BY <1>4, <1>5, <1>6, Typed, Unmoved

LEMMA AddBlockSound ==
    ASSUME PresenceInv, NEW s \in Slot, handleAddBlock(s)
    PROVE  PresenceInv'
<1>1. PICK p \in Named :
        /\ blockRows' = Rows(blockRows, session[s].profileid, More(blockRows, p))
        /\ session' = [session EXCEPT ![s].blocklist = More(@, p)]
  BY DEF handleAddBlock
<1>2. p \in Owner /\ session[s].blocklist \in Bag /\ blockRows \in Bag
  BY Typed, PresenceAssumption DEF Sessions, Client, Tables
<1>3. More(session[s].blocklist, p) \in Bag /\ More(blockRows, p) \in Bag
  BY <1>2, Lists
<1>4. blockRows' \in Bag
  BY <1>1, <1>2, <1>3, RowsType
<1>5. session' = [session EXCEPT ![s].blocklist = More(session[s].blocklist, p)]
  BY <1>1, Typed DEF Sessions
<1>6. /\ UNCHANGED <<clients, gone, buddyRows, requests, messages, profiles, made, view>>
      /\ sent' = {}
  BY DEF handleAddBlock
<1>7. QED
  BY <1>3, <1>4, <1>5, <1>6, BlocksSound

LEMMA RemoveBlockSound ==
    ASSUME PresenceInv, NEW s \in Slot, handleRemoveBlock(s)
    PROVE  PresenceInv'
<1>1. PICK p \in Named :
        /\ session[s].blocklist[p] > 0
        /\ blockRows' = Rows(blockRows, session[s].profileid, NoneOf(blockRows, p))
        /\ session' = [session EXCEPT ![s].blocklist = OneLess(@, p)]
  BY DEF handleRemoveBlock, hasBlocked
<1>2. p \in Owner /\ session[s].blocklist \in Bag /\ blockRows \in Bag
  BY Typed, PresenceAssumption DEF Sessions, Client, Tables
<1>3. OneLess(session[s].blocklist, p) \in Bag /\ NoneOf(blockRows, p) \in Bag
  BY <1>1, <1>2, Lists
<1>4. blockRows' \in Bag
  BY <1>1, <1>2, <1>3, RowsType
<1>5. session' = [session EXCEPT ![s].blocklist = OneLess(session[s].blocklist, p)]
  BY <1>1, Typed DEF Sessions
<1>6. /\ UNCHANGED <<clients, gone, buddyRows, requests, messages, profiles, made, view>>
      /\ sent' = {}
  BY DEF handleRemoveBlock
<1>7. QED
  BY <1>3, <1>4, <1>5, <1>6, BlocksSound

-----------------------------------------------------------------------------
\* Every step keeps the invariant.
LEMMA NextSound ==
    ASSUME PresenceInv, [Next]_vars
    PROVE  PresenceInv'
<1>1. CASE UNCHANGED vars
  <2>1. UNCHANGED <<clients, session, gone, buddyRows, blockRows, requests, messages>>
        /\ UNCHANGED <<profiles, made, view, sent>>
    BY <1>1 DEF vars, tables
  <2>2. Tables' /\ sent' \subseteq Slot \X Message
    BY <2>1, Typed DEF Tables, PresenceInv, TypeOK
  <2>3. QED
    BY <2>1, <2>2, Typed, Unmoved
<1>2. CASE EndOfData
  BY <1>2, EndOfDataSound
<1>3. ASSUME NEW s \in Slot, Accept(s) \/ Disconnect(s)
      PROVE  PresenceInv'
  BY <1>3, AcceptSound, DisconnectSound
<1>4. ASSUME NEW s \in Slot, Command(s)
      PROVE  PresenceInv'
  BY <1>4, LoginSound, NewUserSound, NewProfileSound, DelProfileSound, StatusSound, GetProfileSound,
     BMSound, AddBuddySound, AuthAddSound, DelBuddySound, RevokeSound, AddBlockSound,
     RemoveBlockSound, RefuseSound DEF Command
<1>5. QED
  BY <1>1, <1>2, <1>3, <1>4 DEF Next

\* The invariant of the proofs.
THEOREM PresenceInvariance == Spec => []PresenceInv
<1>1. Init => PresenceInv
  BY InitSound
<1>2. PresenceInv /\ [Next]_vars => PresenceInv'
  BY NextSound
<1>3. QED
  BY <1>1, <1>2, PTL DEF Spec

\* Types: whatever the freed objects are taken to hold, and in any number of copies.
THEOREM PresenceTypeCorrect == Spec => []TypeOK
<1>1. PresenceInv => TypeOK
  BY DEF PresenceInv
<1>2. QED
  BY <1>1, PresenceInvariance, PTL

\* What a player was last told of a buddy, by a session that is still there, is so
\* (sendStatusUpdateToBuddies, sendBuddies, handleAuthAdd).
THEOREM WordIsCurrent == Spec => []HeardIsCurrent
<1>1. PresenceInv => HeardIsCurrent
  <2> SUFFICES ASSUME PresenceInv, NEW c \in Live, NEW p \in Owner,
                      view[c][p].by \in Live, session[c].buddies[p] > 0
               PROVE  view[c][p].status \in {session[view[c][p].by].status, Offline}
    BY DEF HeardIsCurrent, hasBuddy
  <2>1. c \in Slot /\ view[c][p].by # NoClient
    BY Typed, PresenceAssumption
  <2>2. Heard(view[c][p], session, Live, requests, c, p, NoClient)
    BY <2>1, Typed DEF Truth
  <2>3. QED
    BY <2>1, <2>2 DEF Heard
<1>2. QED
  BY <1>1, PresenceInvariance, PTL

\* One step of MessagesAreKept.
LEMMA MessagesKept ==
    ASSUME PresenceInv, Next, gone = NoClient, NEW m \in messages \ messages'
    PROVE  \E s \in Live : session'[s].profileid = m.to /\ <<s, m>> \in sent'
<1>1. ASSUME NEW s \in Slot, handleLogin(s)
      PROVE  s \in Live /\ session'[s].profileid = m.to /\ <<s, m>> \in sent'
  <2>1. s \in Live
    BY <1>1 DEF handleLogin, Running
  <2>2. m.to = TheProfile /\ <<s, m>> \in sent'
    BY <1>1, <2>1, SendMessagesSound DEF handleLogin
  <2>3. session'[s].profileid = TheProfile
    BY <1>1, LoginSound
  <2>4. QED
    BY <2>1, <2>2, <2>3
<1>2. CASE EndOfData
  BY <1>2 DEF EndOfData
<1>3. ASSUME NEW s \in Slot, handleBM(s)
      PROVE  FALSE
  BY <1>3, BMSound
<1>4. ASSUME NEW s \in Slot,
             \/ Accept(s) \/ Disconnect(s) \/ handleNewUser(s) \/ handleNewProfile(s)
             \/ handleDelProfile(s) \/ handleStatus(s) \/ handleGetProfile(s) \/ handleAddBuddy(s)
             \/ handleAuthAdd(s) \/ handleDelBuddy(s) \/ handleRevoke(s) \/ handleAddBlock(s)
             \/ handleRemoveBlock(s) \/ Refuse(s)
      PROVE  messages' = messages
  BY <1>4 DEF Accept, Disconnect, handleNewUser, handleNewProfile, handleDelProfile, handleStatus,
     handleGetProfile, handleAddBuddy, handleAuthAdd, handleDelBuddy, handleRevoke, handleAddBlock,
     handleRemoveBlock, Refuse, deleteClient, tables
<1>5. QED
  BY <1>1, <1>2, <1>3, <1>4 DEF Next, Command

\* A kept message leaves the table only for a session of its profile that gets it
\* (sendMessages, from handleLogin alone).
THEOREM MessagesAreKept == Spec => SavedUntilReceived
<1>1. PresenceInv /\ [Next]_vars =>
        [gone = NoClient =>
           \A m \in messages \ messages' :
               \E s \in Live : session'[s].profileid = m.to /\ <<s, m>> \in sent']_vars
  BY MessagesKept
<1>2. QED
  BY <1>1, PresenceInvariance, PTL DEF Spec, SavedUntilReceived
=============================================================================
