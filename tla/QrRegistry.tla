----------------------------- MODULE QrRegistry -----------------------------
(***************************************************************************)
(* What the registry of game servers (src/qr) promises its readers: an     *)
(* entry gets on the list by answering a challenge, or by speaking the     *)
(* protocol from before there were challenges, which it then speaks until  *)
(* it is forgotten; its game is settled once, and only an old-style entry  *)
(* may be of a game whose services are disabled.  Qr.tla implements it.    *)
(***************************************************************************)
CONSTANTS
    Addr,       \* addresses (ip and port) that datagrams come from
    Game,       \* games of the database
    Disabled,   \* those with servicesdisabled # 0
    NoGame      \* no game, or one the database does not know

VARIABLE entry

Unknown == [standing |-> "unknown", game |-> NoGame, speaks |-> "new"]

Init == entry = [a \in Addr |-> Unknown]

Challenge(a) ==
    /\ entry[a].standing = "unknown" /\ entry[a].speaks = "new"
    /\ \E g \in Game \ Disabled :
         entry' = [entry EXCEPT ![a] =
                        [standing |-> "challenged", game |-> g, speaks |-> "new"]]

List(a) ==
    /\ entry[a].standing = "challenged"
    /\ entry' = [entry EXCEPT ![a].standing = "listed"]

\* The sender turns out to speak the older protocol.
Age(a) == entry' = [entry EXCEPT ![a].speaks = "old"]

\* It is listed at once, with the first game it names that is known.
ListOldStyle(a) ==
    /\ entry[a].speaks = "old"
    /\ \E g \in Game \union {NoGame} :
         /\ entry[a].game \in {NoGame, g}
         /\ entry' = [entry EXCEPT ![a] =
                        [standing |-> "listed", game |-> g, speaks |-> "old"]]

Forget(a) == entry' = [entry EXCEPT ![a] = Unknown]

Next == \E a \in Addr : Challenge(a) \/ List(a) \/ Age(a) \/ ListOldStyle(a) \/ Forget(a)

Spec == Init /\ [][Next]_entry
=============================================================================
