------------------------------ MODULE Persist ------------------------------
(***************************************************************************)
(* What is kept of the games that were played: the rows of Persist.data,   *)
(* and how src/legacystatsprocessor changes them when it is handed the     *)
(* snapshot of a game, with the Lua script of that game.                   *)
(*                                                                         *)
(* The keys of a row have numbers for values, 0 for none.  No key is the   *)
(* beginning of another, nor the value of one.  A row's index, which is    *)
(* the map that was played, is left out: there is one map.                 *)
(***************************************************************************)
EXTENDS Integers, FiniteSets

CONSTANTS
    Game,      \* games, by gameid
    Scripted,  \* those that have scripts
    Player,    \* profile ids
    NoProfile, \* profile id 0
    Key,       \* names of values
    ScoreKey,  \* the key a game's script keeps its high score under
    IncsKey,   \* the key of TotalHSIncs
    MaxVal,    \* bound: the largest value
    NoRow      \* no row

ASSUME PersistAssumption ==
    /\ Scripted \subseteq Game
    /\ NoProfile \notin Player
    /\ ScoreKey \in [Game -> Key] /\ IncsKey \in Key
    /\ MaxVal \in Nat
    /\ NoRow \notin [Key -> 0..MaxVal]

VARIABLES
    rows,     \* Persist.data, per type, profile and game
    handed,   \* the snapshot that the last step handed to the processor
    trouble   \* whether a query failed in it that it did not notice

\* persisttype_t
Type     == {"private_ro", "private_rw", "public_ro", "public_rw"}
ReadOnly == {"private_ro", "public_ro"}

Value == 0..MaxVal
Data  == [Key -> Value]
Rows  == [Type -> [Player -> [Game -> Data \union {NoRow}]]]

\* A snapshot: how a player did.  NoKeys is one that says nothing.
Snapshot == [player : Player \union {NoProfile}, score : Value]
NoKeys   == [player |-> NoProfile, score |-> 0]
Handed   == {<<>>} \union (Game \X Snapshot)

Blank == [k \in Key |-> 0]

Only(k, v) == [Blank EXCEPT ![k] = v]

\* The queries that read keys do not ask for the game: any row of the profile
\* and type may be the first of them.
RowsOf(rs, t, p) == {rs[t][p][g] : g \in Game} \ {NoRow}

-----------------------------------------------------------------------------
(* The keys of one row, as the processor changes them.                     *)

\* Fault: the keys that are there already keep their values.
KeepValues(current, keys) == [k \in Key |-> IF current[k] # 0 THEN current[k] ELSE keys[k]]

mergeKeys(current, keys) == [k \in Key |-> IF keys[k] # 0 THEN keys[k] ELSE current[k]]

\* With no row at all the merge reads an uninitialised pointer.  When the query
\* fails it is not made, and the new key alone is what is saved.
Current(rs, t, p, fails) ==
    (IF RowsOf(rs, t, p) = {} THEN Data ELSE RowsOf(rs, t, p))
        \union (IF fails THEN {Blank} ELSE {})

\* setKeyString and setKeyInt: the row of the game is updated or inserted.  The
\* change itself may fail.
setKey(rs, g, t, p, k, v, fails) ==
    {[rs EXCEPT ![t][p][g] = mergeKeys(c, Only(k, v))] :
        c \in Current(rs, t, p, fails)} \union (IF fails THEN {rs} ELSE {})

\* getKeyString and getKeyInt: without a row, or if the query fails, the number
\* is read from an uninitialised buffer.
getKey(rs, t, p, k, fails) ==
    IF fails \/ RowsOf(rs, t, p) = {} THEN Value ELSE {c[k] : c \in RowsOf(rs, t, p)}

-----------------------------------------------------------------------------
(* ProcessResults in process.lua: a score that is higher than the highest  *)
(* is kept, and that there was one is counted.  Combos are kept the same   *)
(* way; the rating and the name of the player are left out.                *)

\* Fault: every score is kept.
AnyScore(score, high) == score > 0

Better(score, high) == score > high

One(n) == IF n < MaxVal THEN n + 1 ELSE n

ProcessResults(g, snapshot, fails) ==
    LET p == snapshot.player
    IN  \E high \in getKey(rows, "public_ro", p, ScoreKey[g], fails),
           incs \in getKey(rows, "private_ro", p, IncsKey, fails) :
          IF Better(snapshot.score, high)
          THEN \E rs \in setKey(rows, g, "public_ro", p, ScoreKey[g], snapshot.score, fails) :
                 rows' \in setKey(rs, g, "private_ro", p, IncsKey, One(incs), fails)
          ELSE UNCHANGED rows

\* What saveGame hands over is dealt with before it goes on.
handleSnapshot(g, snapshot) ==
    /\ handed' = <<g, snapshot>>
    /\ IF g \in Scripted /\ snapshot.player # NoProfile
       THEN \E fails \in BOOLEAN : ProcessResults(g, snapshot, fails) /\ trouble' = fails
       ELSE trouble' = FALSE /\ UNCHANGED rows

\* Steps that hand nothing over.
NoSnapshot == handed' = <<>> /\ trouble' = FALSE
=============================================================================
