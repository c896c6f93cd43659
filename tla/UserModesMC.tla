---------------------------- MODULE UserModesMC -----------------------------
(* Instances of UserModes for TLC.                                         *)
EXTENDS UserModes

CONSTANTS p1, h1, h2, c1, c2, w1, w2

mode(h, p, flags, mask, expires) ==
    [host |-> h, profile |-> p, flags |-> flags, chanmask |-> mask, expires |-> expires]

ban    == mode(h1, NoProfile, {"b"}, "X", FALSE)
exempt == mode(h1, NoProfile, {"E"}, "x", FALSE)
gag    == mode(h1, NoProfile, {"b", "g"}, "x", TRUE)

Owner == {"KILL", "GLOBALOWNER"}
MCMask == {{}, {"KILL"}, Owner}
Nobody == [p \in Profile |-> NoOper]

\* A web page bans and unbans; clients come and go; the chat server ends.
Bans == [opers |-> Nobody, panels |-> {w1}, calls |-> {"SetUserMode", "DelUserMode"},
         clients |-> {c1}, lines |-> {"USER", "QUIT"},
         forms |-> {ban, exempt}, rights |-> {}, ids |-> 2, crashes |-> TRUE]

\* Two database sessions change the same rows.
Crossed == [opers |-> Nobody, panels |-> {w1, w2},
            calls |-> {"SetUserMode", "DelUserMode", "SetGlobalOper", "DelGlobalOper"},
            clients |-> {}, lines |-> {}, forms |-> {ban}, rights |-> {Owner}, ids |-> 2, crashes |-> TRUE]

\* Staff bans, gags and kills by commands.
Staff == [opers |-> [Nobody EXCEPT ![p1] = Owner], panels |-> {}, calls |-> {},
          clients |-> {c1}, lines |-> {"LOGIN", "USER", "SETUSERMODE", "DELUSERMODE", "KLINE"},
          forms |-> {gag}, rights |-> {}, ids |-> 2, crashes |-> FALSE]

\* One client kills another, or itself.
Kills(mask) == [opers |-> [Nobody EXCEPT ![p1] = mask], panels |-> {}, calls |-> {},
                clients |-> {c1, c2}, lines |-> {"LOGIN", "USER", "KILL"},
                forms |-> {}, rights |-> {}, ids |-> 1, crashes |-> FALSE]

\* Opers are made and unmade while they log in; the chat server ends.
Opers == [opers |-> Nobody, panels |-> {w1}, calls |-> {"SetGlobalOper", "DelGlobalOper"},
          clients |-> {c1}, lines |-> {"LOGIN", "QUIT"},
          forms |-> {}, rights |-> {{"KILL"}, Owner}, ids |-> 2, crashes |-> TRUE]

MCUses == {Bans, Crossed, Staff, Kills({"KILL"}), Kills(Owner), Opers}
=============================================================================
