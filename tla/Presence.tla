------------------------------ MODULE Presence ------------------------------
(***************************************************************************)
(* The buddy server (src/playerspy): sessions on the list of clients, the  *)
(* buddies and blocks each keeps in memory, the tables of Presence.sql     *)
(* they are loaded from, what a session is told of its buddies' status,    *)
(* and the messages kept for a profile that is not online.                 *)
(*                                                                         *)
(* One thread runs it all, one command of one client at a time.  A client  *)
(* that is deleted by a command still has the rest of its datagram read:   *)
(* parseIncoming goes on, on the freed object ("gone").                    *)
(***************************************************************************)
EXTENDS Integers, SequencesExt

CONSTANTS
    Slot,         \* memory a Client object may occupy
    NoClient,     \* the null Client pointer
    Profile,      \* profile ids of the database
    TheProfile,   \* the one that handleLogin gives to every client: 1
    NoProfile,    \* profile id 0
    Junk,         \* what a freed object may hold for a profile id
    Named,        \* profile ids that commands name
    Status,       \* what the status command sets
    Unset,        \* the status member as the constructor leaves it
    Offline,      \* what is told of a profile that is not online
    Untold,       \* nothing told
    Text,         \* message bodies
    Uses,         \* bound: sets of commands that the clients keep to
    MaxCopies,    \* bound: equal rows of a table, equal entries of a list
    MaxRows       \* bound: different rows of a table

Owner == Profile \union {NoProfile, Junk}

ASSUME PresenceAssumption ==
    /\ NoClient \notin Slot
    /\ TheProfile \in Profile /\ NoProfile \notin Profile /\ Junk \notin Profile
    /\ NoProfile # Junk
    /\ Named \subseteq Owner
    /\ Unset \notin Status /\ Offline \notin Status \union {Unset}
    /\ Untold \notin Status \union {Unset, Offline}
    /\ MaxCopies \in Nat /\ MaxRows \in Nat

VARIABLES
    clients,    \* server.client_list: slots, oldest first
    session,    \* the members of the Client object in each slot
    gone,       \* deleted, with commands of its datagram left to run
    buddyRows,  \* Presence.buddies, Presence.blocks: the rows of TheProfile, per
    blockRows,  \* target; those of other profiles are never read
    requests,   \* Presence.addrequest: pairs of profiles
    messages,   \* Presence.messages
    profiles,   \* GameTracker.profiles that belong to a user, not deleted
    made,       \* profile ids that have been given out
    view,       \* what the player of a session has been told of profiles
    use,        \* the commands the clients of this behaviour keep to
    sent        \* the messages the last step has sent, with the slot of each

tables == <<buddyRows, blockRows, requests, messages, profiles, made>>
vars   == <<clients, session, gone, tables, view, use, sent>>

Bag     == [Owner -> Nat]
Client  == [profileid : Owner, userid : BOOLEAN, buddies : Bag, blocklist : Bag,
            status : Status \union {Unset}, sentBuddies : BOOLEAN]
Word    == [status : Status \union {Unset, Offline, Untold}, by : Slot \union {NoClient}]
Message == [to : Owner, text : Text]

None  == [p \in Owner |-> 0]
Fresh == [profileid |-> NoProfile, userid |-> FALSE, buddies |-> None, blocklist |-> None,
          status |-> Unset, sentBuddies |-> FALSE]

Silence == [p \in Owner |-> [status |-> Untold, by |-> NoClient]]

Live == {clients[i] : i \in DOMAIN clients}

Init ==
    /\ use \in Uses
    /\ clients = <<>> /\ gone = NoClient
    /\ session = [s \in Slot |-> Fresh]
    /\ buddyRows = None /\ blockRows = None
    /\ requests = {} /\ messages = {}
    /\ made = {TheProfile} /\ profiles = made
    /\ view = [s \in Slot |-> Silence] /\ sent = {}

-----------------------------------------------------------------------------
(* Lists of profiles, in memory and in the tables, are bags.               *)

More(bag, p)    == [bag EXCEPT ![p] = @ + 1]
OneLess(bag, p) == [bag EXCEPT ![p] = @ - 1]
NoneOf(bag, p)  == [bag EXCEPT ![p] = 0]

\* The bound on a list, or on the rows of an owner.
Space(bag, p) ==
    bag[p] < MaxCopies /\ Cardinality({p} \union {q \in Owner : bag[q] > 0}) <= MaxRows

\* A change to the rows of a profile.
Rows(rows, owner, changed) == IF owner = TheProfile THEN changed ELSE rows

hasBuddy(c, p)   == session[c].buddies[p] > 0

\* Fault: the walk ends in "found" also when it finds nothing.
AlwaysBlocked(c, p) == TRUE

hasBlocked(c, p) == session[c].blocklist[p] > 0

\* The oldest session of a profile: the list is walked from its front.
First(list, ss, p, i) ==
    /\ i \in DOMAIN list /\ ss[list[i]].profileid = p
    /\ \A j \in 1..(i - 1) : ss[list[j]].profileid # p

getProfileOf(list, ss, p) ==
    IF \E i \in DOMAIN list : First(list, ss, p, i)
    THEN list[CHOOSE i \in DOMAIN list : First(list, ss, p, i)]
    ELSE NoClient

getProfile(p) == getProfileOf(clients, session, p)

-----------------------------------------------------------------------------
(* Telling players about their buddies.  The list is the one of the step's *)
(* outset; ss are the sessions as the step has made them so far.           *)

\* What sendBuddyInfo says of p: the blocklist it asks is the one of p's own
\* session, and whether p is on it.
Info(ss, p) ==
    LET c == getProfileOf(clients, ss, p)
    IN  [status |-> IF c = NoClient \/ ss[c].blocklist[p] > 0 THEN Offline ELSE ss[c].status,
         by     |-> c]

\* sendBuddies; the socket of a deleted client is closed.
Told(v, ss, s) ==
    IF s \notin Live THEN v
    ELSE [v EXCEPT ![s] = [p \in Owner |-> IF ss[s].buddies[p] > 0 THEN Info(ss, p) ELSE @[p]]]

\* Fault: only the first session that has the profile as a buddy is told.
Overheard(v, ss, p) ==
    LET c == CHOOSE c \in Live : ss[c].buddies[p] > 0
    IN  IF \E c1 \in Live : ss[c1].buddies[p] > 0
        THEN [v EXCEPT ![c][p] = Info(ss, p)] ELSE v

\* sendStatusUpdateToBuddies: every session that has p as a buddy.
sendStatusUpdateToBuddies(v, ss, p) ==
    [c \in Slot |-> IF c \in Live /\ ss[c].buddies[p] > 0
                    THEN [v[c] EXCEPT ![p] = Info(ss, p)] ELSE v[c]]

\* The session s has ended, or has another profile now: what was told of it is of
\* no profile any more, and its own player starts anew.
Forgotten(v, s) ==
    [c \in Slot |-> IF c = s THEN Silence
                    ELSE [p \in Owner |-> IF v[c][p].by = s THEN Silence[p] ELSE v[c][p]]]

-----------------------------------------------------------------------------
(* Sessions come and go.                                                   *)

\* Commands are run for a client on the list, or for the one just deleted.
Running(s) == IF gone = NoClient THEN s \in Live ELSE s = gone

\* Most commands are for those who have logged in.
Runs(s, command) == Running(s) /\ session[s].userid /\ command \in use

\* A client that the database is not there for is turned away, unchanged.
Accept(s) ==
    /\ gone = NoClient /\ s \in Slot \ Live
    /\ clients' = Append(clients, s)
    /\ sent' = {}
    /\ UNCHANGED <<use, session, gone, tables, view>>

\* What reads of the freed object may give: the first words of the memory are
\* the allocator's, and the nodes of its lists are freed as well.
Remains(c) ==
    LET With(p, u) == [profileid : {p}, userid : {u}, buddies : {c.buddies, None},
                       blocklist : {c.blocklist, None}, status : {c.status},
                       sentBuddies : {c.sentBuddies}]
    IN  With(c.profileid, c.userid) \union With(Junk, TRUE)

\* Its place on the list goes.
Unlisted(s) == \E i \in DOMAIN clients : clients[i] = s /\ clients' = RemoveAt(clients, i)

\* deleteClient from within a command; of a client that is already gone, nothing.
Deleted(s) ==
    IF s \in Live
    THEN /\ Unlisted(s)
         /\ \E c \in Remains(session[s]) : session' = [session EXCEPT ![s] = c]
         /\ gone' = s
         /\ view' = Forgotten(view, s)
    ELSE UNCHANGED <<clients, session, gone, view>>

deleteClient(s) == Deleted(s) /\ sent' = {} /\ UNCHANGED <<use, tables>>

\* recv has returned nothing.
Disconnect(s) ==
    /\ gone = NoClient /\ s \in Live
    /\ Unlisted(s)
    /\ session' = [session EXCEPT ![s] = Fresh]
    /\ view' = Forgotten(view, s)
    /\ sent' = {}
    /\ UNCHANGED <<use, gone, tables>>

\* The datagram of a deleted client has been read to its end.
EndOfData ==
    /\ gone # NoClient
    /\ gone' = NoClient
    /\ session' = [session EXCEPT ![gone] = Fresh]
    /\ sent' = {}
    /\ UNCHANGED <<use, clients, tables, view>>

\* A command that does not parse, comes before a login, or ends the session.
Refuse(s) == Running(s) /\ deleteClient(s)

-----------------------------------------------------------------------------
(* Logging in and registering.                                             *)

\* What getProfileUserID may answer: its query may fail.
HasUser(p) == {yes \in BOOLEAN : yes => p \in profiles}

\* The profile id is 0 if the row could not be inserted.
makeNewProfile(p, owned) ==
    /\ p \in (Profile \ made) \union {NoProfile}
    /\ made' = (made \union {p}) \ {NoProfile}
    /\ profiles' = IF owned THEN (profiles \union {p}) \ {NoProfile} ELSE profiles

For(p) == {m \in messages : m.to = p}

\* Fault: the kept messages are deleted, whether or not they could be read.
LoseMessages(s, p) ==
    /\ \E read \in BOOLEAN : sent' = IF read /\ s \in Live THEN {s} \X For(p) ELSE {}
    /\ messages' = messages \ For(p)

\* Either query may fail: nothing is sent, or what is sent is kept as well.
sendMessages(s, p) ==
    \/ sent' = {} /\ UNCHANGED messages
    \/ /\ sent' = IF s \in Live THEN {s} \X For(p) ELSE {}
       /\ messages' \in {messages, messages \ For(p)}

\* loadBuddies and loadBlockedList: a query that fails leaves the list alone.
\* The size they give for the query is the length of what was received, so
\* that a short datagram makes it fail.
Loaded(list, rows) == {list, rows}

\* Everyone becomes TheProfile, whatever the password.  The player's program
\* starts its buddy list anew; new ones ask for it at once.
handleLogin(s) ==
    /\ Running(s)
    /\ \E inUse \in HasUser(TheProfile), newList \in BOOLEAN,
          b \in Loaded(session[s].buddies, buddyRows), l \in Loaded(session[s].blocklist, blockRows) :
         LET c  == [session[s] EXCEPT !.profileid = TheProfile, !.userid = inUse, !.buddies = b,
                                      !.blocklist = l, !.sentBuddies = @ \/ newList]
             ss == [session EXCEPT ![s] = c]
             v  == Forgotten(view, s)
         IN  /\ session' = ss
             /\ view' = IF newList THEN Told(v, ss, s) ELSE v
    /\ sendMessages(s, TheProfile)
    /\ UNCHANGED <<use, clients, gone, buddyRows, blockRows, requests, profiles, made>>

\* A profile for an account that exists, or the first one of a new account; that
\* one becomes the session's own, with the lists it had.  It has no user if
\* registering failed.
handleNewUser(s) ==
    /\ Running(s) /\ "newuser" \in use
    /\ \E p \in Owner, registered, first \in BOOLEAN :
         /\ first \/ registered
         /\ makeNewProfile(p, registered)
         /\ IF first THEN /\ session' = [session EXCEPT ![s].profileid = p]
                          /\ view' = Forgotten(view, s)
                     ELSE UNCHANGED <<session, view>>
    /\ sent' = {}
    /\ UNCHANGED <<use, clients, gone, buddyRows, blockRows, requests, messages>>

\* newprofile makes another profile of the user, or renames the session's own
\* and ends the session; the latter is left to Refuse.
handleNewProfile(s) ==
    /\ Runs(s, "newprofile")
    /\ \E p \in Owner : makeNewProfile(p, TRUE)
    /\ sent' = {}
    /\ UNCHANGED <<use, clients, session, gone, buddyRows, blockRows, requests, messages, view>>

handleDelProfile(s) ==
    /\ Runs(s, "delprofile")
    /\ profiles' = profiles \ {session[s].profileid}
    /\ Deleted(s)
    /\ sent' = {}
    /\ UNCHANGED <<use, buddyRows, blockRows, requests, messages, made>>

-----------------------------------------------------------------------------
(* Status.                                                                 *)

\* The session's own list is sent once, with the first status or getprofile.
Listed(v, ss, s) == IF session[s].sentBuddies THEN v ELSE Told(v, ss, s)

handleStatus(s) ==
    /\ Runs(s, "status")
    /\ \E st \in Status \union {session[s].status} :
         LET ss == [session EXCEPT ![s].status = st, ![s].sentBuddies = TRUE]
         IN  /\ session' = ss
             /\ view' = sendStatusUpdateToBuddies(Listed(view, ss, s), ss, ss[s].profileid)
    /\ sent' = {}
    /\ UNCHANGED <<use, clients, gone, tables>>

handleGetProfile(s) ==
    /\ Runs(s, "getprofile")
    /\ session' = [session EXCEPT ![s].sentBuddies = TRUE]
    /\ view' = Listed(view, session, s)
    /\ sent' = {}
    /\ UNCHANGED <<use, clients, gone, tables>>

-----------------------------------------------------------------------------
(* Messages.                                                               *)

saveMessage(to, text) == messages' = messages \union {[to |-> to, text |-> text]}

\* A message goes to the oldest session of the profile, if one of the two has
\* the other as a buddy; one for a profile without a session is kept for it.
\* The other types (ping, pong, utm) are not kept.
handleBM(s) ==
    /\ Runs(s, "bm")
    /\ \E to \in Named, text \in Text :
         LET target == getProfile(to)
         IN  \/ /\ target # NoClient /\ ~hasBlocked(target, session[s].profileid)
                /\ hasBuddy(target, session[s].profileid) \/ hasBuddy(s, to)
                /\ sent' = {<<target, [to |-> to, text |-> text]>>}
                /\ UNCHANGED messages
             \/ /\ target = NoClient
                /\ saveMessage(to, text)
                /\ sent' = {}
    /\ UNCHANGED <<use, clients, session, gone, buddyRows, blockRows, requests, profiles, made, view>>

-----------------------------------------------------------------------------
(* Buddies and blocks.  A query that fails ends the handler there.         *)

\* The oldest session of the profile is asked to authorise it; that changes
\* nothing but what its player sees.
handleAddBuddy(s) ==
    /\ Runs(s, "addbuddy")
    /\ \E p \in Named :
         /\ ~hasBuddy(s, p) /\ TRUE \in HasUser(p)
         /\ requests' = requests \union {<<session[s].profileid, p>>}
         /\ Cardinality(requests') <= MaxRows
    /\ sent' = {}
    /\ UNCHANGED <<use, clients, session, gone, buddyRows, blockRows, messages, profiles, made, view>>

\* Only while the one who asked is online, and whether or not it asked: it is
\* told so only if it did.
handleAuthAdd(s) ==
    /\ Runs(s, "authadd")
    /\ \E from \in Named, inserted \in BOOLEAN :
         LET me == session[s].profileid
             c  == getProfile(from)
         IN  /\ c # NoClient
             /\ Space(buddyRows, me) /\ Space(session[c].buddies, me)
             /\ view' = IF <<from, me>> \in requests
                        THEN [view EXCEPT ![c][me] = Info(session, me)] ELSE view
             /\ IF inserted
                THEN /\ buddyRows' = Rows(buddyRows, from, More(buddyRows, me))
                     /\ session' = [session EXCEPT ![c].buddies = More(@, me)]
                ELSE UNCHANGED <<buddyRows, session>>
    /\ sent' = {}
    /\ UNCHANGED <<use, clients, gone, blockRows, requests, messages, profiles, made>>

\* Every row goes, and one entry of this session's list.  The player drops what
\* it knew of the buddy.
handleDelBuddy(s) ==
    /\ Runs(s, "delbuddy")
    /\ \E p \in Named :
         /\ hasBuddy(s, p)
         /\ buddyRows' = Rows(buddyRows, session[s].profileid, NoneOf(buddyRows, p))
         /\ session' = [session EXCEPT ![s].buddies = OneLess(@, p)]
         /\ view' = IF s \in Live THEN [view EXCEPT ![s][p] = Silence[p]] ELSE view
    /\ sent' = {}
    /\ UNCHANGED <<use, clients, gone, blockRows, requests, messages, profiles, made>>

\* The number of rows is read from an uninitialised result, so that the rows may
\* go whether there are any or not; the list of the other session keeps them.
handleRevoke(s) ==
    /\ Runs(s, "revoke")
    /\ \E p \in Named : buddyRows' = Rows(buddyRows, p, NoneOf(buddyRows, session[s].profileid))
    /\ sent' = {}
    /\ UNCHANGED <<use, clients, session, gone, blockRows, requests, messages, profiles, made, view>>

handleAddBlock(s) ==
    /\ Runs(s, "addblock")
    /\ \E p \in Named :
         /\ ~hasBlocked(s, p)
         /\ Space(blockRows, p) /\ Space(session[s].blocklist, p)
         /\ blockRows' = Rows(blockRows, session[s].profileid, More(blockRows, p))
         /\ session' = [session EXCEPT ![s].blocklist = More(@, p)]
    /\ sent' = {}
    /\ UNCHANGED <<use, clients, gone, buddyRows, requests, messages, profiles, made, view>>

\* Every row goes, and one entry of the list.
handleRemoveBlock(s) ==
    /\ Runs(s, "removeblock")
    /\ \E p \in Named :
         /\ hasBlocked(s, p)
         /\ blockRows' = Rows(blockRows, session[s].profileid, NoneOf(blockRows, p))
         /\ session' = [session EXCEPT ![s].blocklist = OneLess(@, p)]
    /\ sent' = {}
    /\ UNCHANGED <<use, clients, gone, buddyRows, requests, messages, profiles, made, view>>

-----------------------------------------------------------------------------
Command(s) ==
    \/ handleLogin(s) \/ handleNewUser(s) \/ handleNewProfile(s) \/ handleDelProfile(s)
    \/ handleStatus(s) \/ handleGetProfile(s) \/ handleBM(s)
    \/ handleAddBuddy(s) \/ handleAuthAdd(s) \/ handleDelBuddy(s) \/ handleRevoke(s)
    \/ handleAddBlock(s) \/ handleRemoveBlock(s) \/ Refuse(s)

Next ==
    \/ \E s \in Slot : Accept(s) \/ Disconnect(s) \/ Command(s)
    \/ EndOfData

Spec == Init /\ [][Next]_vars

-----------------------------------------------------------------------------
TypeOK ==
    /\ clients \in Seq(Slot) /\ gone \in Slot \union {NoClient}
    /\ session \in [Slot -> Client]
    /\ buddyRows \in Bag /\ blockRows \in Bag
    /\ requests \subseteq Owner \X Owner /\ messages \subseteq Message
    /\ made \subseteq Profile /\ profiles \subseteq made
    /\ view \in [Slot -> [Owner -> Word]] /\ sent \subseteq Slot \X Message

\* What a player was last told of a buddy by a session that is still there is
\* that session's status, or that it is offline: whatever was done since, to
\* lists, blocks or other sessions of the same profile.  (The sessions that
\* sendStatusUpdateToBuddies reaches are those with the buddy in memory.)
HeardIsCurrent ==
    \A s \in Live, p \in Owner :
        LET by == view[s][p].by
        IN  by \in Live /\ hasBuddy(s, p) => view[s][p].status \in {session[by].status, Offline}

\* A message kept for a profile leaves the table only when a session on the list,
\* of that profile, has it: as long as no deleted session's commands are run.
SavedUntilReceived ==
    [][gone = NoClient =>
         \A m \in messages \ messages' :
             \E s \in Live : session'[s].profileid = m.to /\ <<s, m>> \in sent']_vars
=============================================================================
