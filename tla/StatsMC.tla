------------------------------ MODULE StatsMC ------------------------------
(* Stats for TLC: two games whose scripts keep scores under keys of their  *)
(* own, and one value that clients set.                                    *)
EXTENDS Stats, TLC

Scores == [g \in Game |-> CHOOSE k \in Key : TRUE]
Own    == {[k \in Key |-> v] : v \in 1..MaxVal}

\* Clients play two games, or set and read the data of two players, or set data
\* of two games, or play one and set data of it.
Parts ==
    {[commands |-> c[1], games |-> c[2], players |-> c[3]] : c \in
        {<<{"authp", "newgame", "updgame"}, Game, {"p1"}>>,
         <<{"authp", "setpd", "getpd"}, {"g1"}, Player>>,
         <<{"authp", "setpd"}, Game, {"p1"}>>,
         <<{"authp", "newgame", "updgame", "setpd"}, {"g1"}, {"p1"}>>}}
=============================================================================
