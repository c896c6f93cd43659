-------------------------- MODULE LegacyMs_proofs --------------------------
(***************************************************************************)
(* The older master server beside qr, for every registry: its types, which *)
(* servers an answer may lack, and whose servers a client may be told of.  *)
(* What is needed of qr comes from Qr_proofs and from QrRegistry, the      *)
(* specification that Qr implements.                                       *)
(***************************************************************************)
EXTENDS LegacyMs, Qr_proofs

USE QrAssumption, LegacyMsAssumption

\* Only old-style entries are of a game whose services are disabled.
OldStyle == \A a \in Addr : Entries[a].game \in Disabled => Entries[a].speaks = "old"

\* What counts as steady is in the registry now.
Standing == walk # NoWalk => steady \subseteq There(walk.game)

\* A server there all through the walk is ahead of the iterator, or was taken.  Ahead
\* it stays, and out of reach, when the entry under the iterator is erased.
NoneOverlooked ==
    walk # NoWalk /\ ~walk.filtered => \A x \in steady : x[1] \in walk.ahead \/ x \in listed

\* What a step that ends a walk owes its answer (the action of AnswersLackNothing).
AnswerIsFull ==
    walk # NoWalk /\ walk' = NoWalk /\ ~walk.filtered =>
        \A x \in steady : x \in listed \/ (walk.adrift /\ x[1] \in walk.ahead)

LegacyInv == IInv /\ OldStyle /\ LegacyTypeOK /\ Standing /\ NoneOverlooked

-----------------------------------------------------------------------------
(* The registry.                                                           *)

\* QrRegistry keeps the games of new-style entries among those that are served.
LEMMA RegistryKeepsOldStyle ==
    ASSUME OldStyle, [Registry!Next]_Entries
    PROVE  OldStyle'
<1>1. CASE Entries' = Entries
  BY <1>1 DEF OldStyle
<1>2. ASSUME NEW a \in Addr,
             Registry!Challenge(a) \/ Registry!List(a) \/ Registry!Age(a)
             \/ Registry!ListOldStyle(a) \/ Registry!Forget(a)
      PROVE  OldStyle'
  <2> SUFFICES ASSUME NEW b \in Addr, Entries'[b].game \in Disabled
               PROVE  Entries'[b].speaks = "old"
    BY DEF OldStyle
  <2>1. DOMAIN Entries = Addr /\ NoGame \notin Disabled
    BY DEF Entries
  <2>2. CASE b # a
    <3>1. Entries'[b] = Entries[b]
      BY <1>2, <2>1, <2>2 DEF Registry!Challenge, Registry!List, Registry!Age,
                              Registry!ListOldStyle, Registry!Forget
    <3>2. QED
      BY <3>1 DEF OldStyle
  <2>3. CASE b = a
    <3>1. CASE Registry!Challenge(a)
      BY <2>1, <2>3, <3>1 DEF Registry!Challenge
    <3>2. CASE Registry!List(a)
      <4>1. Entries[a].game = Entries'[a].game /\ Entries[a].speaks = Entries'[a].speaks
        BY <2>1, <3>2 DEF Registry!List, Entries, Entry
      <4>2. QED
        BY <2>3, <4>1 DEF OldStyle
    <3>3. CASE Registry!Age(a)
      BY <2>1, <2>3, <3>3 DEF Registry!Age, Entries, Entry
    <3>4. CASE Registry!ListOldStyle(a)
      BY <2>1, <2>3, <3>4 DEF Registry!ListOldStyle
    <3>5. CASE Registry!Forget(a)
      BY <2>1, <2>3, <3>5 DEF Registry!Forget, Registry!Unknown
    <3>6. QED
      BY <1>2, <3>1, <3>2, <3>3, <3>4, <3>5
  <2>4. QED
    BY <2>2, <2>3
<1>3. QED
  BY <1>1, <1>2 DEF Registry!Next

\* Steps of the older master server alone leave the registry as it is.
LEMMA Untouched ==
    ASSUME IInv, OldStyle, UNCHANGED vars
    PROVE  IInv' /\ OldStyle' /\ \A g : There(g)' = There(g)
<1>1. Entries' = Entries /\ \A g : There(g)' = There(g)
  BY DEF vars, Entries, There
<1>2. QED
  BY <1>1 DEF vars, IInv, TypeOK, Inside, OldStyle

-----------------------------------------------------------------------------
(* Steps of the older master server.                                       *)

LEMMA DeletedType ==
    ASSUME LegacyTypeOK, NEW c \in Slot, Deleted(c)
    PROVE  clients' \subseteq Slot /\ gone' \in (Slot \union {NoSlot}) \ clients'
BY DEF LegacyTypeOK, Deleted

\* Between requests nothing is walked.
LEMMA BetweenRequests ==
    ASSUME LegacyInv, Idle, clients' \subseteq Slot,
           gone' \in (Slot \union {NoSlot}) \ clients', validated' \in [Slot -> BOOLEAN]
    PROVE  LegacyInv'
<1>1. IInv' /\ OldStyle'
  BY Untouched DEF LegacyInv, Idle
<1>2. walk' = NoWalk /\ UNCHANGED <<listed, steady>>
  BY DEF Idle
<1>3. QED
  BY <1>1, <1>2 DEF LegacyInv, LegacyTypeOK, Standing, NoneOverlooked

LEMMA ConnectionsSound ==
    ASSUME LegacyInv, NEW c \in Slot, Accept(c) \/ Disconnect(c) \/ OtherList(c) \/ EndOfData
    PROVE  LegacyInv'
<1>1. LegacyTypeOK
  BY DEF LegacyInv
<1>2. CASE Accept(c)
  BY <1>1, <1>2, BetweenRequests DEF Accept, LegacyTypeOK
<1>3. CASE Disconnect(c)
  BY <1>1, <1>3, BetweenRequests DEF Disconnect, LegacyTypeOK
<1>4. CASE OtherList(c)
  BY <1>1, <1>4, DeletedType, BetweenRequests DEF OtherList, LegacyTypeOK
<1>5. CASE EndOfData
  BY <1>1, <1>5, BetweenRequests DEF EndOfData, LegacyTypeOK
<1>6. QED
  BY <1>2, <1>3, <1>4, <1>5

LEMMA ValidationSound ==
    ASSUME LegacyInv, NEW c \in Slot, NEW g \in Game, NEW right \in BOOLEAN,
           handleValidation(c, g, right)
    PROVE  LegacyInv'
<1>1. LegacyTypeOK
  BY DEF LegacyInv
<1>2. QED
  BY <1>1, DeletedType, BetweenRequests DEF handleValidation, LegacyTypeOK

\* All that is in the registry is ahead of a walk that begins.
LEMMA ListSound ==
    ASSUME LegacyInv, NEW c \in Slot, NEW g \in Game, NEW f \in BOOLEAN, handleList(c, g, f)
    PROVE  LegacyInv'
<1> DEFINE w == [of |-> c, game |-> g, filtered |-> f, here |-> Nobody,
                 ahead |-> {a \in Addr : server[a].live}, adrift |-> FALSE]
<1>1. IInv' /\ OldStyle' /\ There(g)' = There(g)
  BY Untouched DEF LegacyInv, handleList
<1>2. There(g) \subseteq Addr \X Port /\ \A x \in There(g) : x[1] \in w.ahead
  BY DEF There, Matches, LegacyInv, IInv, TypeOK, ServerRec
<1>3. w \in Walk
  BY DEF Walk
<1>4. walk' = w /\ listed' = {} /\ steady' = There(g) /\ UNCHANGED <<clients, validated, gone>>
  BY DEF handleList
<1>5. LegacyTypeOK'
  BY <1>2, <1>3, <1>4 DEF LegacyTypeOK, LegacyInv
<1>6. Standing' /\ NoneOverlooked'
  BY <1>1, <1>2, <1>4 DEF Standing, NoneOverlooked
<1>7. QED
  BY <1>1, <1>5, <1>6 DEF LegacyInv

\* The iterator leaves an entry behind only when it is listed or need not be.
LEMMA LookSound ==
    ASSUME LegacyInv, NEW a \in Addr, Look(a)
    PROVE  /\ LegacyInv' /\ walk' # NoWalk
           /\ \A x \in listed' \ listed : walk.game \in Disabled => server[x[1]].legacy
<1> DEFINE takes == Matches(server[a], walk.game)
<1>1. IInv' /\ OldStyle'
  BY Untouched DEF LegacyInv, Look
<1>2. walk # NoWalk /\ walk \in Walk /\ server[a] \in ServerRec
  BY DEF Look, LegacyInv, LegacyTypeOK, IInv, TypeOK
<1>3. walk' = [walk EXCEPT !.here = a, !.ahead = @ \ {a}]
      /\ UNCHANGED <<vars, clients, validated, gone, steady>>
  BY DEF Look
<1>4. /\ walk' \in Walk /\ walk'.game = walk.game /\ walk'.filtered = walk.filtered
      /\ walk'.ahead = walk.ahead \ {a}
  BY <1>2, <1>3 DEF Walk
<1>5. listed' \subseteq listed \union {<<a, server[a].port>>}
      /\ (listed' # listed => takes)
      /\ (takes /\ ~walk.filtered => <<a, server[a].port>> \in listed')
      /\ listed \subseteq listed'
  BY DEF Look
<1>6. LegacyTypeOK'
  <2>1. <<a, server[a].port>> \in Addr \X Port
    BY <1>2 DEF ServerRec
  <2>2. QED
    BY <1>3, <1>4, <1>5, <2>1 DEF LegacyTypeOK, LegacyInv
<1>7. There(walk.game)' = There(walk.game)
  BY <1>3, <1>4 DEF There, vars
<1>8. Standing'
  BY <1>2, <1>3, <1>7 DEF Standing, LegacyInv
<1>9. NoneOverlooked'
  <2> SUFFICES ASSUME ~walk.filtered, NEW x \in steady, x[1] \notin walk'.ahead
               PROVE  x \in listed'
    BY <1>3, <1>4 DEF NoneOverlooked
  <2>1. x[1] \in walk.ahead \/ x \in listed
    BY <1>2 DEF LegacyInv, NoneOverlooked
  <2>2. CASE x \in listed
    BY <1>5, <2>2
  <2>3. CASE x[1] \in walk.ahead
    <3>1. x[1] = a
      BY <1>4, <2>3
    <3>2. PICK b \in Addr : x = <<b, server[b].port>> /\ Matches(server[b], walk.game)
      BY <1>2 DEF LegacyInv, Standing, There
    <3>3. b = a
      BY <3>1, <3>2
    <3>4. QED
      BY <1>5, <3>2, <3>3
  <2>4. QED
    BY <2>1, <2>2, <2>3
<1>10. \A x \in listed' \ listed : walk.game \in Disabled => server[x[1]].legacy
  <2> SUFFICES ASSUME NEW x \in listed' \ listed, walk.game \in Disabled
               PROVE  server[x[1]].legacy
    OBVIOUS
  <2>1. x = <<a, server[a].port>> /\ server[a].game = walk.game
    BY <1>5 DEF Matches
  <2>2. Entries[a].speaks = "old"
    BY <2>1 DEF LegacyInv, OldStyle, Entries, Entry
  <2>3. QED
    BY <2>1, <2>2 DEF Entries, Entry
<1>11. QED
  BY <1>1, <1>4, <1>6, <1>8, <1>9, <1>10 DEF LegacyInv

\* The walk ends with nothing ahead, or adrift.
LEMMA AnsweredSound ==
    ASSUME LegacyInv, Answered
    PROVE  LegacyInv' /\ AnswerIsFull
<1>1. LegacyTypeOK
  BY DEF LegacyInv
<1>2. walk.of \in Slot
  BY <1>1 DEF Answered, LegacyTypeOK, Walk
<1>3. clients' \subseteq Slot /\ gone' \in (Slot \union {NoSlot}) \ clients'
  BY <1>1, <1>2, DeletedType DEF Answered
<1>4. IInv' /\ OldStyle'
  BY Untouched DEF LegacyInv, Answered
<1>5. walk' = NoWalk /\ listed' = {} /\ steady' = {} /\ validated' = validated
  BY DEF Answered
<1>6. AnswerIsFull
  <2> SUFFICES ASSUME ~walk.filtered, NEW x \in steady
               PROVE  x \in listed \/ (walk.adrift /\ x[1] \in walk.ahead)
    BY DEF AnswerIsFull
  <2>1. x[1] \in walk.ahead \/ x \in listed
    BY DEF Answered, LegacyInv, NoneOverlooked
  <2>2. walk.adrift \/ walk.ahead = {}
    BY DEF Answered
  <2>3. QED
    BY <2>1, <2>2
<1>7. QED
  BY <1>1, <1>3, <1>4, <1>5, <1>6 DEF LegacyInv, LegacyTypeOK, Standing, NoneOverlooked

-----------------------------------------------------------------------------
(* Steps of qr's thread.                                                   *)

\* What stays in the registry stays ahead of the iterator, or behind it.
LEMMA QrThreadSound ==
    ASSUME LegacyInv, QrThread
    PROVE  LegacyInv' /\ (walk # NoWalk => walk' # NoWalk)
<1>1. IInv' /\ [Registry!Next]_Entries
  BY NextSound DEF LegacyInv, QrThread
<1>2. OldStyle'
  BY <1>1, RegistryKeepsOldStyle DEF LegacyInv
<1>3. UNCHANGED <<clients, validated, gone, listed>>
  BY DEF QrThread
<1>4. CASE walk = NoWalk
  <2>1. UNCHANGED <<walk, steady>>
    BY <1>4 DEF QrThread
  <2>2. QED
    BY <1>1, <1>2, <1>3, <1>4, <2>1 DEF LegacyInv, LegacyTypeOK, Standing, NoneOverlooked
<1>5. CASE walk # NoWalk
  <2> DEFINE ahead == {a \in Addr : Added(a) \/ (a \in walk.ahead /\ ~Erased(a))}
             adrift == walk.adrift \/ (walk.here # Nobody /\ Erased(walk.here))
  <2>1. walk \in Walk
    BY <1>5 DEF LegacyInv, LegacyTypeOK
  <2>2. walk' = [walk EXCEPT !.ahead = ahead, !.adrift = adrift]
        /\ steady' = steady \intersect There(walk.game)'
    BY <1>5 DEF QrThread, Underfoot
  <2>3. adrift \in BOOLEAN
    BY <2>1 DEF Walk
  <2>4. /\ walk' \in Walk /\ walk'.game = walk.game /\ walk'.filtered = walk.filtered
        /\ walk'.ahead = ahead
    <3>1. ahead \in SUBSET Addr
      OBVIOUS
    <3> HIDE DEF ahead, adrift
    <3>2. QED
      BY <2>1, <2>2, <2>3, <3>1 DEF Walk
  <2>5. LegacyTypeOK'
    BY <1>3, <2>2, <2>4 DEF LegacyInv, LegacyTypeOK
  <2>7. Standing'
    BY <2>2 DEF Standing
  <2>8. NoneOverlooked'
    <3> SUFFICES ASSUME ~walk.filtered, NEW x \in steady', x \notin listed
                 PROVE  x[1] \in walk'.ahead
      BY <1>3, <2>4 DEF NoneOverlooked
    <3>1. x[1] \in walk.ahead
      BY <1>5, <2>2 DEF LegacyInv, NoneOverlooked
    <3>2. PICK b \in Addr : x = <<b, server'[b].port>> /\ server'[b].live
      BY <2>2 DEF There, Matches
    <3>3. x[1] = b /\ ~Erased(b)
      BY <3>2 DEF Erased
    <3>4. QED
      BY <2>4, <3>1, <3>3
  <2>9. QED
    BY <1>1, <1>2, <2>4, <2>5, <2>7, <2>8 DEF LegacyInv
<1>6. QED
  BY <1>4, <1>5

-----------------------------------------------------------------------------
LEMMA LegacyInitSound == LegacyInit => LegacyInv
<1> SUFFICES ASSUME LegacyInit PROVE LegacyInv
  OBVIOUS
<1>1. IInv
  BY InitSound DEF LegacyInit
<1>2. OldStyle
  BY DEF LegacyInit, Init, OldStyle, Entries, Entry, NoServer
<1>3. QED
  BY <1>1, <1>2 DEF LegacyInit, LegacyInv, LegacyTypeOK, Standing, NoneOverlooked

\* One step keeps the invariant, leaves no answer short, and tells no client of a
\* disabled game's servers but those of the older protocol.
LEMMA LegacyNextSound ==
    LegacyInv /\ [LegacyNext]_bothVars =>
        /\ LegacyInv' /\ AnswerIsFull
        /\ \A x \in listed' \ listed : walk.game \in Disabled => server[x[1]].legacy
<1> SUFFICES ASSUME LegacyInv, [LegacyNext]_bothVars
             PROVE  /\ LegacyInv' /\ AnswerIsFull
                    /\ \A x \in listed' \ listed : walk.game \in Disabled => server[x[1]].legacy
  OBVIOUS
<1>1. CASE UNCHANGED bothVars
  <2>1. IInv' /\ OldStyle' /\ \A g : There(g)' = There(g)
    BY <1>1, Untouched DEF bothVars, LegacyInv
  <2>2. UNCHANGED legacyVars
    BY <1>1 DEF bothVars
  <2>3. Standing' /\ NoneOverlooked' /\ LegacyTypeOK'
    BY <2>1, <2>2 DEF legacyVars, LegacyInv, LegacyTypeOK, Standing, NoneOverlooked
  <2>4. QED
    BY <2>1, <2>2, <2>3 DEF LegacyInv, legacyVars, AnswerIsFull
<1>2. CASE QrThread
  BY <1>2, QrThreadSound DEF QrThread, AnswerIsFull
<1>3. ASSUME NEW c \in Slot, Accept(c) \/ Disconnect(c) \/ OtherList(c) \/ EndOfData
      PROVE  LegacyInv' /\ AnswerIsFull /\ listed' = listed
  BY <1>3, ConnectionsSound DEF Accept, Disconnect, OtherList, EndOfData, Idle, AnswerIsFull
<1>4. ASSUME NEW c \in Slot, NEW g \in Game,
             (\E right \in BOOLEAN : handleValidation(c, g, right))
             \/ (\E f \in BOOLEAN : handleList(c, g, f))
      PROVE  LegacyInv' /\ AnswerIsFull /\ listed' \subseteq listed
  BY <1>4, ValidationSound, ListSound DEF handleValidation, Idle, handleList, AnswerIsFull
<1>5. CASE \E a \in Addr : Look(a)
  BY <1>5, LookSound DEF AnswerIsFull
<1>6. CASE Answered
  BY <1>6, AnsweredSound DEF Answered
<1>7. CASE EndOfData
  <2>1. gone \in Slot
    BY <1>7 DEF EndOfData, LegacyInv, LegacyTypeOK
  <2>2. QED
    BY <1>3, <1>7, <2>1
<1>8. QED
  BY <1>1, <1>2, <1>3, <1>4, <1>5, <1>6, <1>7 DEF LegacyNext, Requests

\* The invariant of the proofs.
THEOREM LegacyInvariance == LegacySpec => []LegacyInv
<1>1. LegacyInit => LegacyInv
  BY LegacyInitSound
<1>2. LegacyInv /\ [LegacyNext]_bothVars => LegacyInv'
  BY LegacyNextSound
<1>3. QED
  BY <1>1, <1>2, PTL DEF LegacySpec

\* Types; a client that was deleted is not on the list.
THEOREM LegacyTypeCorrect == LegacySpec => []LegacyTypeOK
<1>1. LegacyInv => LegacyTypeOK
  BY DEF LegacyInv
<1>2. QED
  BY <1>1, LegacyInvariance, PTL

\* An answer lacks a server that was registered for the game all through the walk
\* only if the entry under the iterator was erased, and only one that was then still
\* ahead (findMatchingServers in legacyms's thread, deleteClient in qr's).
THEOREM OnlyTheAdriftMiss == LegacySpec => AnswersLackNothing
<1>1. LegacyInv /\ [LegacyNext]_bothVars => [AnswerIsFull]_bothVars
  BY LegacyNextSound
<1>2. QED
  BY <1>1, LegacyInvariance, PTL DEF LegacySpec, AnswersLackNothing, AnswerIsFull

\* A client of another game that asks for a disabled game's servers is told of
\* those of the older protocol only (qr's handleHeartbeat deletes the others).
THEOREM DisabledAreHidden == LegacySpec => DisabledAreOldStyle
<1>1. LegacyInv /\ [LegacyNext]_bothVars =>
          [\A x \in listed' \ listed : walk.game \in Disabled => server[x[1]].legacy]_bothVars
  BY LegacyNextSound
<1>2. QED
  BY <1>1, LegacyInvariance, PTL DEF LegacySpec, DisabledAreOldStyle
=============================================================================
