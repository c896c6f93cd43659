---------------------------- MODULE Stats_proofs ----------------------------
(***************************************************************************)
(* The stats server and the processor, for any games, scripts, players and *)
(* connections: types, that no announced game is lost, who changes and     *)
(* reads which rows, and that a high score stands.                         *)
(***************************************************************************)
EXTENDS Stats, SequenceTheorems, TLAPS

USE PersistAssumption
USE DEF Type, ReadOnly, Value

\* A client that has given the right answer, or plays, has a game; the one whose
\* datagram is being read to its end is off the list.
Settled(c) == c.authenticated \/ c.gameInProgress => c.game # NoGame

StatsInv ==
    /\ TypeOK
    /\ gone \notin clients
    /\ \A s \in Slot : Settled(session[s])
    /\ PrivateIsPrivate

-----------------------------------------------------------------------------
(* Rows.                                                                   *)

Put(rs, t, p, g, d) == [rs EXCEPT ![t][p][g] = d]

\* Only the row of t, p and g differs, which is d.
Differ(rs, rs1, t, p, g, d) ==
    /\ rs1 \in Rows
    /\ \A t1 \in Type \ {t} : rs1[t1] = rs[t1]
    /\ \A p1 \in Player \ {p} : rs1[t][p1] = rs[t][p1]
    /\ \A g1 \in Game \ {g} : rs1[t][p][g1] = rs[t][p][g1]
    /\ rs1[t][p][g] = d

LEMMA PutRow ==
    ASSUME NEW rs \in Rows, NEW t \in Type, NEW p \in Player, NEW g \in Game,
           NEW d \in Data \union {NoRow}
    PROVE  Differ(rs, Put(rs, t, p, g, d), t, p, g, d)
<1> DEFINE row == [rs[t][p] EXCEPT ![g] = d]
           own == [rs[t] EXCEPT ![p] = row]
<1>1. rs[t] \in [Player -> [Game -> Data \union {NoRow}]] /\ rs[t][p] \in [Game -> Data \union {NoRow}]
  BY DEF Rows
<1>2. row \in [Game -> Data \union {NoRow}] /\ row[g] = d
      /\ \A g1 \in Game \ {g} : row[g1] = rs[t][p][g1]
  BY <1>1
<1>3. own \in [Player -> [Game -> Data \union {NoRow}]] /\ own[p] = row
      /\ \A p1 \in Player \ {p} : own[p1] = rs[t][p1]
  <2> HIDE DEF row
  <2>1. QED
    BY <1>1, <1>2
<1>4. Put(rs, t, p, g, d) = [rs EXCEPT ![t] = own]
  BY DEF Put
<1>5. [rs EXCEPT ![t] = own] \in Rows /\ [rs EXCEPT ![t] = own][t] = own
      /\ \A t1 \in Type \ {t} : [rs EXCEPT ![t] = own][t1] = rs[t1]
  <2> HIDE DEF own
  <2>1. QED
    BY <1>3 DEF Rows
<1>6. QED
  <2> HIDE DEF own, row
  <2>1. QED
    BY <1>2, <1>3, <1>4, <1>5 DEF Differ

LEMMA RowsOfType ==
    ASSUME NEW rs \in Rows, NEW t \in Type, NEW p \in Player
    PROVE  RowsOf(rs, t, p) \subseteq Data
BY DEF RowsOf, Rows

LEMMA CurrentType ==
    ASSUME NEW rs \in Rows, NEW t \in Type, NEW p \in Player, NEW fails \in BOOLEAN
    PROVE  Current(rs, t, p, fails) \subseteq Data
<1>1. Blank \in Data
  BY DEF Blank, Data
<1>2. QED
  BY <1>1, RowsOfType DEF Current

LEMMA MergeType ==
    ASSUME NEW c \in Data, NEW k \in Key, NEW v \in Value
    PROVE  /\ mergeKeys(c, Only(k, v)) \in Data
           /\ v # 0 => mergeKeys(c, Only(k, v))[k] = v
<1>1. Only(k, v) \in Data /\ Only(k, v)[k] = v
  BY DEF Only, Blank, Data
<1>2. QED
  BY <1>1 DEF mergeKeys, Data

\* Setting a key changes one row at most, and always if no query fails.
LEMMA SetKeyType ==
    ASSUME NEW rs \in Rows, NEW g \in Game, NEW t \in Type, NEW p \in Player, NEW k \in Key,
           NEW v \in Value, NEW fails \in BOOLEAN, NEW rs1 \in setKey(rs, g, t, p, k, v, fails)
    PROVE  \E d \in Data \union {NoRow} :
              /\ Differ(rs, rs1, t, p, g, d)
              /\ ~fails => \E c \in Current(rs, t, p, fails) : d = mergeKeys(c, Only(k, v))
<1>1. CASE \E c \in Current(rs, t, p, fails) : rs1 = Put(rs, t, p, g, mergeKeys(c, Only(k, v)))
  <2>1. PICK c \in Current(rs, t, p, fails) : rs1 = Put(rs, t, p, g, mergeKeys(c, Only(k, v)))
    BY <1>1
  <2>2. mergeKeys(c, Only(k, v)) \in Data
    BY CurrentType, MergeType
  <2>3. Differ(rs, rs1, t, p, g, mergeKeys(c, Only(k, v)))
    BY <2>1, <2>2, PutRow
  <2>4. QED
    BY <2>2, <2>3
<1>2. CASE fails /\ rs1 = rs
  <2>1. rs[t][p][g] \in Data \union {NoRow}
    BY DEF Rows
  <2>2. Differ(rs, rs1, t, p, g, rs[t][p][g])
    BY <1>2 DEF Differ
  <2>3. QED
    BY <1>2, <2>1, <2>2
<1>3. QED
  BY <1>1, <1>2 DEF setKey, Put

LEMMA GetKeyType ==
    ASSUME NEW rs \in Rows, NEW t \in Type, NEW p \in Player, NEW k \in Key, NEW fails \in BOOLEAN
    PROVE  getKey(rs, t, p, k, fails) \subseteq Value
BY RowsOfType DEF getKey, Data

-----------------------------------------------------------------------------
(* What the processor does to the rows.                                    *)

\* No high score falls, as HighScoresStand has it.
Stand ==
    \A p \in Player, g \in Game :
       LET row == rows["public_ro"][p]
       IN  row[g] # NoRow =>
              \/ rows'["public_ro"][p][g][ScoreKey[g]] >= row[g][ScoreKey[g]]
              \/ trouble'
              \/ \E g1 \in Game \ {g} : row[g1] # NoRow

LEMMA UnchangedStand ==
    ASSUME rows \in Rows, rows'["public_ro"] = rows["public_ro"]
    PROVE  Stand
<1> SUFFICES ASSUME NEW p \in Player, NEW g \in Game, rows["public_ro"][p][g] # NoRow
             PROVE  rows'["public_ro"][p][g][ScoreKey[g]] >= rows["public_ro"][p][g][ScoreKey[g]]
  BY DEF Stand
<1>1. rows["public_ro"][p][g] \in Data /\ ScoreKey[g] \in Key
  BY DEF Rows
<1>2. QED
  BY <1>1 DEF Data

LEMMA ResultsSound ==
    ASSUME rows \in Rows, NEW g \in Game, NEW snapshot \in Snapshot, snapshot.player # NoProfile,
           NEW fails \in BOOLEAN, ProcessResults(g, snapshot, fails), trouble' = fails
    PROVE  rows' \in Rows /\ (\A t \in Type \ ReadOnly : rows'[t] = rows[t]) /\ Stand
<1> DEFINE q == snapshot.player
           score == snapshot.score
<1>1. q \in Player /\ score \in Value /\ ScoreKey[g] \in Key /\ IncsKey \in Key
  BY DEF Snapshot
<1>2. PICK high \in getKey(rows, "public_ro", q, ScoreKey[g], fails),
           incs \in getKey(rows, "private_ro", q, IncsKey, fails) :
        IF Better(score, high)
        THEN \E rs \in setKey(rows, g, "public_ro", q, ScoreKey[g], score, fails) :
               rows' \in setKey(rs, g, "private_ro", q, IncsKey, One(incs), fails)
        ELSE UNCHANGED rows
  BY DEF ProcessResults
<1>3. high \in Value /\ incs \in Value /\ One(incs) \in Value
  BY <1>1, GetKeyType DEF One
<1>4. CASE ~Better(score, high)
  BY <1>2, <1>4, UnchangedStand
<1>5. CASE Better(score, high)
  <2>1. PICK rs \in setKey(rows, g, "public_ro", q, ScoreKey[g], score, fails) :
               rows' \in setKey(rs, g, "private_ro", q, IncsKey, One(incs), fails)
    BY <1>2, <1>5
  <2>2. PICK d \in Data \union {NoRow} :
           /\ Differ(rows, rs, "public_ro", q, g, d)
           /\ ~fails => \E c \in Current(rows, "public_ro", q, fails) :
                           d = mergeKeys(c, Only(ScoreKey[g], score))
    BY <1>1, <2>1, SetKeyType
  <2>3. rs \in Rows
    BY <2>2 DEF Differ
  <2>4. PICK d1 \in Data \union {NoRow} : Differ(rs, rows', "private_ro", q, g, d1)
    BY <1>1, <1>3, <2>1, <2>3, SetKeyType
  <2>5. rows' \in Rows /\ rows'["public_ro"] = rs["public_ro"]
        /\ \A t \in Type \ ReadOnly : rows'[t] = rows[t]
    BY <2>2, <2>4 DEF Differ
  <2>6. Stand
    <3> SUFFICES ASSUME NEW p \in Player, NEW h \in Game, rows["public_ro"][p][h] # NoRow, ~fails,
                        \A h1 \in Game \ {h} : rows["public_ro"][p][h1] = NoRow
                 PROVE  rs["public_ro"][p][h][ScoreKey[h]] >= rows["public_ro"][p][h][ScoreKey[h]]
      BY <2>5 DEF Stand
    <3>1. rows["public_ro"][p][h] \in Data /\ ScoreKey[h] \in Key
          /\ rows["public_ro"][p][h][ScoreKey[h]] \in Nat
      BY DEF Rows, Data
    <3>2. CASE p # q \/ h # g
      <4>1. rs["public_ro"][p][h] = rows["public_ro"][p][h]
        BY <2>2, <3>2 DEF Differ
      <4>2. QED
        BY <3>1, <4>1
    <3>3. CASE p = q /\ h = g
      <4>1. RowsOf(rows, "public_ro", q) = {rows["public_ro"][q][g]}
        BY <3>1, <3>3 DEF RowsOf
      <4>2. high = rows["public_ro"][q][g][ScoreKey[g]]
        BY <4>1 DEF getKey
      <4>3. d = mergeKeys(rows["public_ro"][q][g], Only(ScoreKey[g], score))
        BY <2>2, <4>1 DEF Current
      <4>4. score > high /\ score # 0
        BY <1>1, <1>3, <1>5 DEF Better
      <4>5. d[ScoreKey[g]] = score
        BY <1>1, <3>1, <3>3, <4>3, <4>4, MergeType
      <4>6. rs["public_ro"][q][g] = d
        BY <2>2 DEF Differ
      <4>7. QED
        BY <1>1, <1>3, <3>3, <4>2, <4>4, <4>5, <4>6
    <3>4. QED
      BY <3>2, <3>3
  <2>7. QED
    BY <2>5, <2>6
<1>6. QED
  BY <1>4, <1>5

\* What every step that is not a client's own setpd does to the rows.
Kept ==
    /\ rows' \in Rows /\ trouble' \in BOOLEAN /\ handed' \in Handed
    /\ \A t \in Type \ ReadOnly : rows'[t] = rows[t]
    /\ rows' # rows => handed' # <<>>
    /\ Stand

LEMMA SnapshotKept ==
    ASSUME rows \in Rows, NEW g \in Game, NEW snapshot \in Snapshot, handleSnapshot(g, snapshot)
    PROVE  Kept /\ handed' = <<g, snapshot>> /\ handed' # <<>>
<1>1. handed' = <<g, snapshot>> /\ handed' \in Handed /\ handed' # <<>>
  BY DEF handleSnapshot, Handed
<1>2. CASE g \in Scripted /\ snapshot.player # NoProfile
  <2>1. PICK fails \in BOOLEAN : ProcessResults(g, snapshot, fails) /\ trouble' = fails
    BY <1>2 DEF handleSnapshot
  <2>2. rows' \in Rows /\ (\A t \in Type \ ReadOnly : rows'[t] = rows[t]) /\ Stand
    BY <1>2, <2>1, ResultsSound
  <2>3. QED
    BY <1>1, <2>1, <2>2 DEF Kept
<1>3. CASE ~(g \in Scripted /\ snapshot.player # NoProfile)
  <2>1. trouble' = FALSE /\ rows' = rows
    BY <1>3 DEF handleSnapshot
  <2>2. QED
    BY <1>1, <2>1, UnchangedStand DEF Kept
<1>4. QED
  BY <1>2, <1>3

LEMMA NothingKept ==
    ASSUME rows \in Rows, NoSnapshot, UNCHANGED rows
    PROVE  Kept
BY UnchangedStand DEF Kept, NoSnapshot, Handed

-----------------------------------------------------------------------------
(* The steps of the server: what each must show.                           *)

\* As AnnouncedGamesAreSaved has it.
Saves ==
    \A s \in clients :
       session[s].gameInProgress =>
           /\ s \notin clients' => handed' = <<session[s].game, session[s].gameKeys>>
           /\ ~session'[s].gameInProgress => handed' # <<>>

\* As SetByWhomItBelongsTo has it.
Owned ==
    \A t \in Type, p \in Player :
       rows'[t][p] # rows[t][p] =>
           IF t \in ReadOnly THEN handed' # <<>>
           ELSE answer'.done = "set" /\ session[answer'.to].profileid = p

Good == StatsInv' /\ Saves /\ Owned /\ Stand

\* A step that tells nobody anything and leaves one object as c.
LEMMA Assembled ==
    ASSUME StatsInv, Kept, answer' = NoAnswer, use' = use,
           NEW s \in Slot, NEW c \in Client, Settled(c), session' = [session EXCEPT ![s] = c],
           clients' \subseteq Slot, gone' \in Slot \union {NoSlot}, gone' \notin clients'
    PROVE  StatsInv' /\ Owned /\ Stand
<1>1. session \in [Slot -> Client]
  BY DEF StatsInv, TypeOK
<1>2. session' \in [Slot -> Client] /\ \A x \in Slot : Settled(session'[x])
  BY <1>1 DEF StatsInv
<1>3. answer' \in Answer /\ PrivateIsPrivate'
  BY DEF NoAnswer, Answer, PrivateIsPrivate
<1>4. TypeOK'
  BY <1>2, <1>3 DEF TypeOK, StatsInv, Kept
<1>5. Owned /\ Stand
  BY DEF Owned, Kept
<1>6. QED
  BY <1>2, <1>3, <1>4, <1>5 DEF StatsInv

\* The destructor saves the game in progress.
LEMMA DestroyedKept ==
    ASSUME rows \in Rows, NEW c \in Client, Settled(c), Destroyed(c)
    PROVE  Kept /\ (c.gameInProgress => handed' = <<c.game, c.gameKeys>> /\ handed' # <<>>)
<1>1. CASE c.gameInProgress
  <2>1. c.game \in Game /\ c.gameKeys \in Snapshot
    BY <1>1 DEF Settled, Client
  <2>2. handleSnapshot(c.game, c.gameKeys)
    BY <1>1 DEF Destroyed, saveGame
  <2>3. QED
    BY <2>1, <2>2, SnapshotKept
<1>2. CASE ~c.gameInProgress
  BY <1>2, NothingKept DEF Destroyed
<1>3. QED
  BY <1>1, <1>2

LEMMA RemainsType ==
    ASSUME NEW c \in Client, NEW c1 \in Remains(c)
    PROVE  c1 \in Client /\ c1.gameInProgress = c.gameInProgress /\ (Settled(c) => Settled(c1))
BY DEF Remains, Client, Settled, Snapshot, NoKeys

LEMMA DeleteGood ==
    ASSUME StatsInv, NEW s \in Slot, NEW c \in Client, Settled(c), deleteClient(s, c),
           c.gameInProgress = session[s].gameInProgress, c.gameKeys = session[s].gameKeys,
           c.gameInProgress => c.game = session[s].game
    PROVE  Good
<1>1. /\ session \in [Slot -> Client] /\ rows \in Rows /\ clients \subseteq Slot
      /\ gone \in Slot \union {NoSlot} /\ gone \notin clients
      /\ answer' = NoAnswer /\ use' = use
  BY DEF StatsInv, TypeOK, deleteClient
<1>2. CASE s \in clients
  <2>1. PICK c1 \in Remains(c) : session' = [session EXCEPT ![s] = c1]
    BY <1>2 DEF deleteClient
  <2>2. clients' = clients \ {s} /\ gone' = s /\ Destroyed(c)
    BY <1>2 DEF deleteClient
  <2>3. c1 \in Client /\ c1.gameInProgress = c.gameInProgress /\ Settled(c1)
    BY RemainsType
  <2>4. Kept /\ (c.gameInProgress => handed' = <<c.game, c.gameKeys>> /\ handed' # <<>>)
    BY <1>1, <2>2, DestroyedKept
  <2>5. StatsInv' /\ Owned /\ Stand
    BY <1>1, <2>1, <2>2, <2>3, <2>4, Assembled
  <2>6. Saves
    BY <1>1, <2>1, <2>2, <2>4 DEF Saves
  <2>7. QED
    BY <2>5, <2>6 DEF Good
<1>3. CASE s \notin clients
  <2>1. session' = [session EXCEPT ![s] = c] /\ NoSnapshot /\ UNCHANGED <<clients, gone, rows>>
    BY <1>3 DEF deleteClient
  <2>2. Kept
    BY <1>1, <2>1, NothingKept
  <2>3. StatsInv' /\ Owned /\ Stand
    BY <1>1, <2>1, <2>2, Assembled
  <2>4. Saves
    BY <1>1, <1>3, <2>1 DEF Saves
  <2>5. QED
    BY <2>3, <2>4 DEF Good
<1>4. QED
  BY <1>2, <1>3

\* A step that hands nothing over and leaves the object s on its list as c, with
\* the game in progress if there was one.
LEMMA QuietGood ==
    ASSUME StatsInv, NoSnapshot, UNCHANGED <<use, clients, gone, rows>>, answer' = NoAnswer,
           NEW s \in Slot, NEW c \in Client, Settled(c), session' = [session EXCEPT ![s] = c],
           session[s].gameInProgress => c.gameInProgress
    PROVE  Good
<1>1. /\ session \in [Slot -> Client] /\ rows \in Rows /\ clients \subseteq Slot
      /\ gone \in Slot \union {NoSlot} /\ gone \notin clients
  BY DEF StatsInv, TypeOK
<1>2. Kept
  BY <1>1, NothingKept
<1>3. StatsInv' /\ Owned /\ Stand
  BY <1>1, <1>2, Assembled
<1>4. Saves
  BY <1>1 DEF Saves
<1>5. QED
  BY <1>3, <1>4 DEF Good

-----------------------------------------------------------------------------
(* One lemma per action.                                                   *)

LEMMA FreshType == Fresh \in Client /\ Settled(Fresh)
BY DEF Fresh, Client, Settled, Snapshot, NoKeys

LEMMA ConnectionsGood ==
    ASSUME StatsInv, NEW s \in Slot, Accept(s) \/ Disconnect(s) \/ Refuse(s) \/ EndOfData
    PROVE  Good
<1>1. /\ session \in [Slot -> Client] /\ rows \in Rows /\ clients \subseteq Slot
      /\ gone \in Slot \union {NoSlot} /\ gone \notin clients /\ Settled(session[s])
      /\ session[s] \in Client
  BY DEF StatsInv, TypeOK
<1>2. CASE Accept(s)
  <2>1. session' = [session EXCEPT ![s] = session[s]] /\ Kept
    BY <1>1, <1>2, NothingKept DEF Accept
  <2>2. /\ clients' = clients \union {s} /\ gone' = NoSlot /\ gone' \notin clients'
        /\ answer' = NoAnswer /\ use' = use /\ session' = session
    BY <1>1, <1>2, StatsAssumption DEF Accept
  <2>3. StatsInv' /\ Owned /\ Stand
    BY <1>1, <2>1, <2>2, Assembled
  <2>4. Saves
    BY <2>2 DEF Saves
  <2>5. QED
    BY <2>3, <2>4 DEF Good
<1>3. CASE Disconnect(s)
  <2>1. /\ clients' = clients \ {s} /\ gone' = gone /\ answer' = NoAnswer /\ use' = use
        /\ session' = [session EXCEPT ![s] = Fresh] /\ Destroyed(session[s])
    BY <1>3 DEF Disconnect
  <2>2. /\ Kept
        /\ session[s].gameInProgress =>
              handed' = <<session[s].game, session[s].gameKeys>> /\ handed' # <<>>
    BY <1>1, <2>1, DestroyedKept
  <2>3. StatsInv' /\ Owned /\ Stand
    BY <1>1, <2>1, <2>2, FreshType, Assembled
  <2>4. Saves
    BY <1>1, <2>1, <2>2 DEF Saves
  <2>5. QED
    BY <2>3, <2>4 DEF Good
<1>4. CASE Refuse(s)
  BY <1>1, <1>4, DeleteGood DEF Refuse
<1>5. CASE EndOfData
  <2>1. /\ gone \in Slot /\ gone' = NoSlot /\ session' = [session EXCEPT ![gone] = Fresh]
        /\ answer' = NoAnswer /\ NoSnapshot /\ UNCHANGED <<use, clients, rows>>
    BY <1>1, <1>5 DEF EndOfData
  <2>2. Kept /\ NoSlot \notin clients
    BY <1>1, <2>1, NothingKept, StatsAssumption
  <2>3. StatsInv' /\ Owned /\ Stand
    BY <1>1, <2>1, <2>2, FreshType, Assembled
  <2>4. Saves
    BY <1>1, <2>1 DEF Saves
  <2>5. QED
    BY <2>3, <2>4 DEF Good
<1>6. QED
  BY <1>2, <1>3, <1>4, <1>5

\* The game is settled before there can be one in progress.
LEMMA AuthGood ==
    ASSUME StatsInv, NEW s \in Slot, handleAuth(s)
    PROVE  Good
<1>1. session[s] \in Client /\ Settled(session[s]) /\ use.games \subseteq Game
  BY StatsAssumption DEF StatsInv, TypeOK
<1>2. PICK g \in use.games, right \in BOOLEAN :
        LET c == [session[s] EXCEPT !.authenticated = @ \/ right, !.game = g]
        IN  /\ session[s].game \in {NoGame, g}
            /\ IF right
               THEN /\ session' = [session EXCEPT ![s] = c]
                    /\ answer' = NoAnswer
                    /\ NoSnapshot
                    /\ UNCHANGED <<use, clients, gone, rows>>
               ELSE deleteClient(s, c)
  BY DEF handleAuth
<1> DEFINE auth == session[s].authenticated \/ right
           c == [session[s] EXCEPT !.authenticated = auth, !.game = g]
<1>3. auth \in BOOLEAN /\ g \in Game /\ g # NoGame
  BY <1>1, StatsAssumption DEF Client
<1>4. /\ c \in Client /\ Settled(c) /\ c.game = g
      /\ c.gameInProgress = session[s].gameInProgress /\ c.gameKeys = session[s].gameKeys
  <2> HIDE DEF auth
  <2>1. QED
    BY <1>1, <1>3 DEF Client, Settled
<1>5. session[s].gameInProgress => c.game = session[s].game
  BY <1>1, <1>2, <1>4 DEF Settled
<1>6. CASE right
  <2>1. /\ session' = [session EXCEPT ![s] = c] /\ answer' = NoAnswer
        /\ NoSnapshot /\ UNCHANGED <<use, clients, gone, rows>>
    BY <1>2, <1>6
  <2> HIDE DEF c
  <2>2. QED
    BY <1>4, <2>1, QuietGood
<1>7. CASE ~right
  <2>1. deleteClient(s, c)
    BY <1>2, <1>7
  <2> HIDE DEF c
  <2>2. QED
    BY <1>4, <1>5, <2>1, DeleteGood
<1>8. QED
  BY <1>6, <1>7

LEMMA AuthPGood ==
    ASSUME StatsInv, NEW s \in Slot, handleAuthP(s) \/ newgame(s)
    PROVE  Good
<1>1. session[s] \in Client /\ Settled(session[s]) /\ use.players \subseteq Player
      /\ session[s].authenticated
  BY StatsAssumption DEF StatsInv, TypeOK, handleAuthP, newgame, Runs
<1>2. CASE handleAuthP(s)
  <2>1. PICK p \in use.players : session' = [session EXCEPT ![s].profileid = p]
    BY <1>2 DEF handleAuthP
  <2> DEFINE c == [session[s] EXCEPT !.profileid = p]
  <2>2. c \in Client /\ Settled(c) /\ c.gameInProgress = session[s].gameInProgress
    BY <1>1 DEF Client, Settled
  <2>3. session' = [session EXCEPT ![s] = c]
    BY <2>1
  <2> HIDE DEF c
  <2>4. QED
    BY <1>2, <2>2, <2>3, QuietGood DEF handleAuthP
<1>3. CASE newgame(s)
  <2> DEFINE c == [session[s] EXCEPT !.gameInProgress = TRUE]
  <2>1. c \in Client /\ Settled(c) /\ c.gameInProgress
    BY <1>1 DEF Client, Settled
  <2>2. session' = [session EXCEPT ![s] = c]
    BY <1>3 DEF newgame
  <2> HIDE DEF c
  <2>3. QED
    BY <1>3, <2>1, <2>2, QuietGood DEF newgame
<1>4. QED
  BY <1>2, <1>3

LEMMA UpdateGood ==
    ASSUME StatsInv, NEW s \in Slot, handleUpdateGame(s)
    PROVE  Good
<1>1. /\ session \in [Slot -> Client] /\ rows \in Rows /\ clients \subseteq Slot
      /\ gone \in Slot \union {NoSlot} /\ gone \notin clients
      /\ session[s] \in Client /\ Settled(session[s]) /\ session[s].authenticated
      /\ use.players \subseteq Player
  BY StatsAssumption DEF StatsInv, TypeOK, handleUpdateGame, Runs
<1>2. PICK keys \in [player : use.players, score : Value], done \in BOOLEAN :
        LET c == [session[s] EXCEPT !.gameKeys = keys]
        IN  IF done
            THEN /\ saveGame(c)
                 /\ session' = [session EXCEPT ![s] =
                                    [c EXCEPT !.gameInProgress = FALSE, !.gameKeys = NoKeys]]
            ELSE NoSnapshot /\ UNCHANGED rows /\ session' = [session EXCEPT ![s] = c]
  BY DEF handleUpdateGame
<1> DEFINE c == [session[s] EXCEPT !.gameKeys = keys]
           c1 == [c EXCEPT !.gameInProgress = FALSE, !.gameKeys = NoKeys]
<1>3. keys \in Snapshot /\ NoKeys \in Snapshot
  BY <1>1 DEF Snapshot, NoKeys
<1>4. c \in Client /\ Settled(c) /\ c.game \in Game /\ c.gameKeys = keys
      /\ c.gameInProgress = session[s].gameInProgress
  BY <1>1, <1>3 DEF Client, Settled
<1>5. c1 \in Client /\ Settled(c1)
  <2> HIDE DEF c
  <2>1. QED
    BY <1>3, <1>4 DEF Client, Settled
<1>6. answer' = NoAnswer /\ UNCHANGED <<use, clients, gone>>
  BY DEF handleUpdateGame
<1>7. CASE done
  <2>1. handleSnapshot(c.game, c.gameKeys) /\ session' = [session EXCEPT ![s] = c1]
    BY <1>2, <1>7 DEF saveGame
  <2> HIDE DEF c, c1
  <2>2. Kept /\ handed' # <<>>
    BY <1>1, <1>3, <1>4, <2>1, SnapshotKept
  <2>3. StatsInv' /\ Owned /\ Stand
    BY <1>1, <1>5, <1>6, <2>1, <2>2, Assembled
  <2>4. Saves
    BY <1>6, <2>2 DEF Saves
  <2>5. QED
    BY <2>3, <2>4 DEF Good
<1>8. CASE ~done
  <2>1. NoSnapshot /\ UNCHANGED rows /\ session' = [session EXCEPT ![s] = c]
    BY <1>2, <1>8
  <2> HIDE DEF c, c1
  <2>2. QED
    BY <1>4, <1>6, <2>1, QuietGood
<1>9. QED
  BY <1>7, <1>8

\* A client's own data is its profile's, of a type that it may set.
LEMMA SetPDGood ==
    ASSUME StatsInv, NEW s \in Slot, handleSetPD(s)
    PROVE  Good
<1>1. /\ session \in [Slot -> Client] /\ rows \in Rows /\ session[s] \in Client
      /\ Settled(session[s]) /\ session[s].authenticated /\ session[s].profileid # NoProfile
      /\ UNCHANGED <<use, clients, session, gone>> /\ handed' = <<>>
  BY DEF StatsInv, TypeOK, handleSetPD, Runs
<1> DEFINE p == session[s].profileid
           g == session[s].game
<1>2. p \in Player /\ g \in Game
  BY <1>1 DEF Client, Settled
<1>3. PICK t \in Type, data \in SetData, kv \in BOOLEAN, fails \in BOOLEAN :
        /\ Writable(t)
        /\ answer' = [done |-> "set", to |-> s, type |-> t, player |-> p, data |-> data]
        /\ IF fails THEN UNCHANGED rows
           ELSE \E d \in IF kv /\ rows[t][p][g] # NoRow THEN MergedData(t, p) ELSE {data} :
                  rows' = [rows EXCEPT ![t][p][g] = d]
        /\ trouble' = fails
  BY DEF handleSetPD
<1>4. data \in Data /\ t \notin ReadOnly
  BY <1>3, StatsAssumption DEF Writable
<1>5. /\ rows' \in Rows /\ \A t1 \in Type \ {t} : rows'[t1] = rows[t1]
      /\ \A p1 \in Player \ {p} : rows'[t][p1] = rows[t][p1]
  <2> HIDE DEF p, g
  <2>1. CASE fails
    BY <1>1, <1>3, <2>1
  <2>2. CASE ~fails
    <3>1. PICK d \in IF kv /\ rows[t][p][g] # NoRow THEN MergedData(t, p) ELSE {data} :
            rows' = Put(rows, t, p, g, d)
      BY <1>3, <2>2 DEF Put
    <3>2. d \in Data
      BY <1>1, <1>2, <1>4, RowsOfType DEF MergedData
    <3>3. Differ(rows, rows', t, p, g, d)
      BY <1>1, <1>2, <3>1, <3>2, PutRow
    <3>4. QED
      BY <3>3 DEF Differ
  <2>3. QED
    BY <2>1, <2>2
<1>6. answer' \in Answer /\ answer'.done = "set" /\ answer'.to = s
  <2> HIDE DEF p
  <2>1. QED
    BY <1>2, <1>3, <1>4 DEF Answer
<1>7. TypeOK'
  BY <1>1, <1>3, <1>5, <1>6 DEF StatsInv, TypeOK, Handed
<1>8. PrivateIsPrivate'
  BY <1>6 DEF PrivateIsPrivate
<1>9. StatsInv'
  BY <1>1, <1>7, <1>8 DEF StatsInv
<1>10. Saves
  BY <1>1 DEF Saves
<1>11. Owned
  BY <1>4, <1>5, <1>6 DEF Owned
<1>12. Stand
  BY <1>1, <1>4, <1>5, UnchangedStand
<1>13. QED
  BY <1>9, <1>10, <1>11, <1>12 DEF Good

LEMMA GetPDGood ==
    ASSUME StatsInv, NEW s \in Slot, handleGetPD(s)
    PROVE  Good
<1>1. /\ session \in [Slot -> Client] /\ rows \in Rows /\ session[s] \in Client
      /\ Settled(session[s]) /\ session[s].authenticated /\ use.players \subseteq Player
      /\ NoSnapshot /\ UNCHANGED <<use, clients, session, gone, rows>>
  BY StatsAssumption DEF StatsInv, TypeOK, handleGetPD, Runs
<1>2. PICK t \in Type, p \in use.players :
        /\ MayRead(t, p, session[s].profileid)
        /\ answer' = [done |-> "got", to |-> s, type |-> t, player |-> p,
                      data |-> rows[t][p][session[s].game]]
  BY DEF handleGetPD
<1>3. Kept
  BY <1>1, NothingKept
<1>4. rows[t][p][session[s].game] \in Data \union {NoRow}
  <2>1. session[s].game \in Game /\ p \in Player
    BY <1>1 DEF Settled, Client
  <2>2. QED
    BY <1>1, <2>1 DEF Rows
<1>5. answer' \in Answer
  <2> DEFINE d == rows[t][p][session[s].game]
  <2>1. d \in Data \union {NoRow} /\ p \in Player /\ answer' = [done |-> "got", to |-> s, type |-> t, player |-> p, data |-> d]
    BY <1>1, <1>2, <1>4
  <2> HIDE DEF d
  <2>2. QED
    BY <2>1 DEF Answer
<1>6. PrivateIsPrivate'
  BY <1>1, <1>2 DEF PrivateIsPrivate, MayRead
<1>7. TypeOK'
  BY <1>1, <1>3, <1>5 DEF StatsInv, TypeOK, Kept
<1>8. StatsInv'
  BY <1>1, <1>6, <1>7 DEF StatsInv
<1>9. Saves /\ Owned /\ Stand
  BY <1>1, <1>3 DEF Saves, Owned, Kept
<1>10. QED
  BY <1>8, <1>9 DEF Good

-----------------------------------------------------------------------------
LEMMA StatsInitSound == Init => StatsInv
<1> SUFFICES ASSUME Init PROVE StatsInv
  OBVIOUS
<1>1. session \in [Slot -> Client] /\ \A s \in Slot : Settled(session[s])
  BY FreshType DEF Init
<1>2. rows \in Rows /\ handed \in Handed /\ answer \in Answer
  BY DEF Init, Rows, Handed, Answer, NoAnswer
<1>3. QED
  BY <1>1, <1>2 DEF Init, StatsInv, TypeOK, PrivateIsPrivate, NoAnswer

\* Every step keeps the invariant, and does what the action properties ask.
LEMMA StatsNextSound ==
    ASSUME StatsInv, [Next]_vars
    PROVE  StatsInv' /\ [Saves]_vars /\ [Owned]_vars /\ [Stand]_vars
<1>1. CASE UNCHANGED vars
  BY <1>1 DEF vars, StatsInv, TypeOK, PrivateIsPrivate
<1>2. ASSUME NEW s \in Slot,
             Accept(s) \/ Disconnect(s) \/ Refuse(s) \/ handleAuth(s) \/ handleAuthP(s)
             \/ newgame(s) \/ handleUpdateGame(s) \/ handleSetPD(s) \/ handleGetPD(s)
      PROVE  Good
  BY <1>2, ConnectionsGood, AuthGood, AuthPGood, UpdateGood, SetPDGood, GetPDGood
<1>3. CASE EndOfData
  <2>1. gone \in Slot
    BY <1>3 DEF EndOfData, StatsInv, TypeOK
  <2>2. QED
    BY <1>3, <2>1, ConnectionsGood DEF Good
<1>4. QED
  BY <1>1, <1>2, <1>3 DEF Next, Good

\* The invariant of the proofs: types, a game for whoever was let in or plays, and
\* private data told to its owner only.
THEOREM StatsInvariance == Spec => []StatsInv
<1>1. Init => StatsInv
  BY StatsInitSound
<1>2. StatsInv /\ [Next]_vars => StatsInv'
  BY StatsNextSound
<1>3. QED
  BY <1>1, <1>2, PTL DEF Spec

\* Every variable keeps its type; what is handed to the processor always has a game.
THEOREM StatsTypeCorrect == Spec => []TypeOK
<1>1. StatsInv => TypeOK
  BY DEF StatsInv
<1>2. QED
  BY <1>1, StatsInvariance, PTL

\* Private data is told to the client it belongs to only (handleGetPD).
THEOREM Privacy == Spec => []PrivateIsPrivate
<1>1. StatsInv => PrivateIsPrivate
  BY DEF StatsInv
<1>2. QED
  BY <1>1, StatsInvariance, PTL

\* The destructor and the last update hand over what the client said of its game,
\* in whatever order it was announced, updated and left.
THEOREM GamesAreSaved == Spec => AnnouncedGamesAreSaved
<1>1. StatsInv /\ [Next]_vars => [Saves]_vars
  BY StatsNextSound
<1>2. QED
  BY <1>1, StatsInvariance, PTL DEF Spec, AnnouncedGamesAreSaved, Saves

\* Rows are changed by the processor's scripts and their owners, each its own types.
THEOREM Ownership == Spec => SetByWhomItBelongsTo
<1>1. StatsInv /\ [Next]_vars => [Owned]_vars
  BY StatsNextSound
<1>2. QED
  BY <1>1, StatsInvariance, PTL DEF Spec, SetByWhomItBelongsTo, Owned

\* A high score never falls, but by a query that fails or another game's row.
THEOREM ScoresStand == Spec => HighScoresStand
<1>1. StatsInv /\ [Next]_vars => [Stand]_vars
  BY StatsNextSound
<1>2. QED
  BY <1>1, StatsInvariance, PTL DEF Spec, HighScoresStand, Stand
=============================================================================
