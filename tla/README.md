# OpenSpy core: verification project

OpenSpy re-implements the servers behind GameSpy's services: chat, lists of game
servers, NAT negotiation, presence, statistics. This directory models the parts
that keep state and have several parties acting on it, checks the models with TLC
and proves theorems about them with TLAPS.

## 1. The system

`openspy/main.cpp` loads each service from a shared object and gives it a detached
thread (`openspy/module.cpp:40-52`). A module can call another one through
`sendModuleMessage` (`openspy/main.cpp:14-24`): the target's `openspy_mod_query`
then runs *in the caller's thread*, and no module takes a lock. A MySQL database
stands behind all of them; its triggers send one UDP datagram per change to the
chat server (`udf/Matrix`).

| component | state | operations | what makes it correct | here |
|---|---|---|---|---|
| natneg | one object per source address: cookie, index, marks, four time stamps | INIT, ACK, other datagrams; expiry, retry, deadbeat notice | everybody learns where its partner is or that there is none, once, and only partners are introduced | `Natneg` |
| peerchat | clients, channels with members and modes, invitations, user modes, channel properties | IRC commands, messages from the queue, disconnection, time-outs | who may get on a channel, who may change whom, no pointers to what is gone | `PeerchatChannel`, `Peerchat` |
| qr | one object per game server: instance key, game, challenge, keys | heartbeats of two protocols, challenge, keep-alive, sweep of silent servers | a server is listed only after its challenge, and not for ever | `QrRegistry`, `Qr` |
| serverbrowsing | game clients: options, game, header sent | list requests, subscription; pushes that arrive in qr's thread | list and pushes together tell of every server, and of none that is gone | `Browsing` |
| playerspy | sessions, their buddies and blocks; tables of the same, requests, kept messages | login, profiles, buddies, blocks, status, messages | what a player was told of a buddy is so; a kept message is not lost | `Presence` |
| legacystats, legacystatsprocessor | sessions with one game each; rows of persistent data | both logins, newgame, updgame, setpd, getpd; merge and scripts | an announced game is saved; each kind of data is changed by whom it belongs to | `Persist`, `Stats` |
| legacyms | one request per connection, and qr's list | the proof of the game, list | an answer lacks a steady server only if the entry under the iterator was erased | `LegacyMs` |
| playersearch, keyserver | none | one query per request | stateless | no |
| queue and database | tables of opers and user modes; a datagram per change | stored procedures, the datagrams, the chat server's start | the chat server's lists are the tables but for what is on its way, lost or overtaken | `Matrix`, `UserModes` |
| openspy, common, motd, registration | none of their own | | | no |

What is hard in this code: two threads over the same lists (qr and serverbrowsing);
objects freed while others point at them (peerchat, serverbrowsing); lists searched
in order, where an older entry hides a younger one (natneg); every line of a buffer
being executed, those behind QUIT too (peerchat); datagrams lost, doubled and late;
time-outs that race the next datagram; tables and their copies in memory, with queries that
fail and datagrams that cross (peerchat, playerspy). `PROJECT.json` lists these hazards line by line.

## 2. Modules

* `Natneg`: the registry of peers and the loop. `NatnegMC`, `Natneg_proofs`.
* `PeerchatChannel`: pure operators on one channel: `addUser`, modes and ranks, properties.
* `Peerchat`: extends it with clients, membership, invitations, staff's messages and
  the loop. `PeerchatMC`, `Peerchat_proofs`.
* `QrRegistry`: what a reader of the list of game servers may rely on.
* `Qr`: the qr thread; `Registry == INSTANCE QrRegistry WITH ...` shows that it implements it.
  `QrMC`, `Qr_proofs`.
* `Browsing`: extends `Qr` with serverbrowsing: the composition of the two threads. `BrowsingMC`,
  `Browsing_proofs`.
* `LegacyMs`: extends `Qr` with legacyms, the other composition. `LegacyMsMC`, `LegacyMs_proofs`.
* `Matrix`: the database behind the chat server: two tables, their procedures, the datagrams.
* `UserModes`: extends `Matrix` with the chat server as the holder of a copy of these
  tables. `UserModesMC`, `UserModes_proofs`.
* `Presence`: playerspy and its tables. `PresenceMC`, `Presence_proofs`.
* `Persist`: pure operators: keys, merging, the processor's script. `Stats`: extends it with
  legacystats. `StatsMC`, `Stats_proofs`.

Operators under a comment "Fault: ..." are not part of a model. Each is a variant of the
definition that follows it, as a plausible mistake in the code would make it, and
`PROJECT.json` "mutants" says which property finds it.

### Natneg

`client[p]` is the `Client` object of a source address, `before` the order of
`client_list`, `phase` where `openspy_mod_run`'s loop is: one turn per socket, then the
three scans of `checkTimeouts`; `todo` is what the resend scan has yet to visit. A
datagram's handler is one action (`handleInitPacket`, `handleConnectAck`, `handleOther`,
...), with the search for the partner and the sending inside it. `sent` and `told` record
the verdicts. Time stamps are ages that stop one past the threshold that the code compares
them with, so time needs no bound. `sentconnecttime` is not initialised by the
constructor: an object that its partner marked connected first has any value there (`Garbage`).

### Peerchat

Objects are named by memory: a new `Client` or `Channel` may be given the place of a
freed one, and a pointer left behind then points at it. `processClients` walks a copy
of the client list (`todo`, `turn`); each of the `lines` of a client's buffer is an action,
and a JOIN of several names (`joining`) and `quitUser` (`leaving`) take one step per name or
channel. The messages from the database's queue are actions that may come at any time,
or never. Names are members of a small set with a fold (`Fold`) that says which the code
takes for equal; modes and ranks are sets of letters.
Not in the model: wildcard masks, user modes of channels set at run time (those in force
at the start are; those of the whole service are in `UserModes`), nick uniqueness, flood weights
and ping intervals, messages and keys, auditorium visibility, expiry of channel properties.

### Matrix and UserModes

A procedure changes its table (`SetUserMode`, `DelGlobalOper`, ...), and its session has then yet
to send the datagram (`pending`, `matrixqueue`); another session may come between, and a datagram
is lost unless the chat server listens and its buffer has room (`Received`). `astray` collects, as
history, the keys whose datagrams were lost or overtaken: the properties about the copies except
them, and nothing else, until the chat server reads the table again. The chat server's own calls run
in the session "server", and its thread waits for their end (`Running`): so its own datagrams are sent
before it reads on. `stage` is how far its start has come: user modes, opers, listening. `crash` ends
it anywhere; a procedure it had called is carried through ("old").

In `UserModes` the loop is: a datagram if there is one (`processQueue`), else the clients
(`startPass`, `deleteClient`, `startLines`, the `cmd_`s, `endLines`), then `checkExpiry`. Abstracted:
only modes of the mask x, which gag, ban or exempt on the whole service; hosts are equal or not;
an id made with rand() is one that nothing else has; the order of client_list is not kept, so that
"the first client", from whom `removeUsermode` takes a gag back, is any; the walk of `checkExpiry`
takes expired modes in any order and may end early, since it goes on from a freed node. Rights
of SETRIGHTS stay with `Peerchat`. Each behaviour keeps to one way of using the service (`Uses`,
chosen at the start): they do not all meet in one instance, but each meets what can disturb it.

### LegacyMs

`walk` is a request under way: the registry is walked entry by entry, with qr's thread changing it
between (`qr/main.cpp:10-30` runs in legacyms's thread). Erasing the entry under the iterator may end
the walk (`adrift`), and the answer then lacks what was still ahead; `AnswersLackNothing` says that
this is the only way to lack a server that was there all the time. `steady` is history: the servers that were registered under one port all through the
walk. The ciphers of the answers are left out.

### Presence

`session[s]` is the `Client` object, `clients` the list in its order: `getProfile` takes the first. At this
commit `handleLogin` gives everybody profile 1 (`TheProfile`) whatever the password, so that
several sessions have one profile, each with its own copy of the tables; another profile comes by newuser only.
`gone` is a client that a command has deleted while the rest of its datagram is still to be run:
what its members read as then is chosen from what freed memory may hold (`Remains`). Every query may fail.
`view` is what a player has been told of others. Left out: the profile's other fields, invitations with
their product lists.

### Persist and Stats

`session[s]` has the game, the proven profile and the game's keys; `rows` the table of
persistent data by type, player and game; `handed` the snapshot the last step gave to the processor, which
runs in the same call. Both `mergeKeys` select a row without naming the game: any of the player's
may come. The script is `process.lua` of one game, whose score is kept if it is better (`Better`) and
whose games are counted; the others are of the same kind. `gone` is as in `Presence`. `trouble` says that a query of
the step failed.

### Qr

The thread is at "recv", "sweep", "handle" or "keys". A datagram's contents are chosen when
it is handled, since nothing reads them before. A heartbeat is two actions, because it first
clears the keys (another thread may look at that moment) and then fills them in. `news` is
what the thread is telling serverbrowsing; it goes on when `news` is empty, as the call is
synchronous. The read of freed memory after a datagram of fewer than three bytes
(`Client.cpp:48-50`) is modelled by its one visible outcome, a push after the deletion.
Player and team keys and the rules query are left out; a filter passes or rejects any entry.

### Browsing

serverbrowsing's thread answers one request in several actions: the options are stored
(`handleListRequest`), the registry is walked entry by entry (`Look`), the list is sent
(`Answered`). qr's thread copies the list of clients (`Called`), visits each (`PushTo`,
`PushToFreed`) and returns. A freed `Client` keeps its contents until its memory is used
again; a message to one may reach whoever has its descriptor now. `told[c]` is what the
connection carried: entries listed or pushed, without those deleted since. `garbled[c]` says
that a message came where the client expects a header or its first list; what such a client
makes of its connection is not asked. Server rules and relayed messages change nothing and
are left out, as is a subscription to a game that does not exist (the process then ends on a
NULL pointer). Options of later requests are arbitrary because the code parses them askew:
it skips the reading of names it already has (`Client.cpp:152-163`).

## 3. Runs

| run | instance | shows |
|---|---|---|
| natneg_cookies | 2 peers, 2 sockets, cookies 0 and 1, time-outs 0 to 2 | a verdict is not revoked (`VerdictStands`); only opposite sides of the first socket meet |
| natneg_live | 2 peers, fair | everybody is answered; a lost CONNECT is repeated |
| peerchat_objects | 2 clients, 2 channels, 3 names (2 alike), 2 invitations, 2 lines a buffer | what can point at freed clients and channels; who gets on a channel; what stays behind |
| peerchat_ranks | 2 clients, 1 channel, letters o v h O, staff rights | owners stand, ranks come from who may give them |
| peerchat_props | 2 clients, 1 channel, properties of three kinds, +p +s +v | never private and secret; local modes do not outlive channels |
| qr | 2 servers, 1 served and 1 disabled game, 2 keys, 2 ports, fair | implements `QrRegistry`; the silent are forgotten |
| browsing | 1 server, 2 games, 1 client, all sets of options, filters | no server is missed; ghosts have one of three causes |
| browsing_retry (violation) | 1 client, fair | after a database error nobody is let in again (`main.cpp:88`) |
| legacyms | 2 servers, a served and a disabled game, connections that prove one game and ask for another | an answer lacks a server that stood all through the walk only if the entry under the iterator was erased (`AnswersLackNothing`; without that exception TLC finds the cut answer); of a disabled game only old-style servers are told |
| usermodes | 2 hosts, 1 profile, 2 clients, 2 sockets, 2 other database sessions, 2 ids, a buffer of 2, six ways of use | the lists are the tables but for datagrams on their way (`ModesInStep`, `OpersInStep`), no twins, rights got by logging in are current, logins are not mixed up, bans reach everybody |
| presence | 2 sessions, 2 profiles, 4 parts of the commands | `HeardIsCurrent`, `SavedUntilReceived` |
| stats | 1 connection, 2 players, 2 games, scores 0 to 2 | a game is saved, data is changed by its owner or the scripts, a high score stands |

Why the bounds are enough. natneg's hazards need a pair; a second cookie or socket is another crowd,
and cookie 0 is there because it is what an object without INIT has. Time-outs of 0, 1 and 2 put each
of the three in front of and behind the others. In peerchat a rule is between an actor and a
target, or between two channels of one client; two lines a buffer are the least for
something behind QUIT. In qr each entry is independent but for the one thread; two show
that one entry's sweep does not starve or spoil the other's. In Browsing the properties
are about one client and one entry, which may come back in another game (1.6 million states).
 In usermodes a descriptor and a slot are used again after one client has left, two
ids and a buffer of two are the least in which datagrams about one key cross and about another do not, and
numUsersByIP's limit of 5 is 1 (`MaxPerIp`), so that the second client of a host is refused. In presence two sessions
of the one profile are what differs from one; more only repeat. Stats's sessions share nothing but the
rows, which a second connection in the same slot finds as the first left them.
What a theorem states does not depend on these bounds.

Symmetry is used for interchangeable peers, clients, channels, sessions and invitations only in runs without
liveness. Deadlock is checked in every run.

### Fairness

* `NatnegLive`: the loop's actions and the clock. select() returns after five seconds at
  the latest, and nothing in a turn waits.
* `Qr.cfg`: the loop (recvfrom has a time-out of sixty seconds), the return of the call into
  serverbrowsing (its sends to subscribers use `MSG_DONTWAIT`) and the clock. Datagrams are
  not fair: a server may be silent for ever, which is what `SilentServersGo` is about.
* `BrowsingRetry.cfg`: the same, the answering thread, and that the refused client is
  accepted if it stays possible: the loop looks at the listening socket before anything else.
  With the connection closed instead of the listening socket, the property holds under the same fairness.

## 4. Theorems

For all values of the constants, from the assumptions named in the modules
(`NatnegAssumption`, `PeerchatAssumption` and those of `PeerchatChannel`, `QrAssumption`,
`BrowsingAssumption`, `LegacyMsAssumption`, `PresenceAssumption`, `PersistAssumption`, `StatsAssumption`, `MatrixAssumption`,
`UserModesAssumption`).

* `Natneg_proofs`: `TypeCorrect`, `FirstSocket`, `VerdictsStand`, `OppositesMeet`. The
  invariant adds to the types that objects of other sockets and such without INIT carry no
  marks (`Clean`), and that whoever was told anything is marked connected
  (`ToldIsConnected`). Without the latter, a deadbeat notice after a CONNECT cannot be
  excluded: the notice is sent to whoever is not marked.
* `Peerchat_proofs`: `TypeCorrect` has one lemma per group of actions. For the
  others a step is looked at from the channels: `Moved(b0, c)` says that nobody but c gets on
  a channel and no channel but b0 gets a name, one nobody answered to; `Tame` is the same
  for one channel, and every operator of `PeerchatChannel` is shown to be tame. From that
  follow `PrivateXorSecret`, `OneName` and, with what each action does to a client's life,
  `Lingering`: a pointer to a client that is gone is left only by one that got on a channel
  after its QUIT or before a refused welcome. The properties of steps (`OwnersAreSafe`,
  `NobodyRisesAlone`, `NobodySlipsIn`, `CrowdsAreRare`, `NothingIsDeserted`) rest on one more invariant,
  `Seated`: a block is a live channel or as freed, and who is not on a channel has nothing there, no
  rank and no mode, which a later JOIN could bring back. With it, `ChannelSteps` and `StaffSteps` sort
  all actions by what they do to the channels (somebody leaves, one client gets on, modes are set, a new channel,
  properties), and each property is shown once per sort. `StoreSteps` does the same for the lists beside the channels:
  for `DanglingEntries`, whose invariant adds that `older` never holds both ways (`OneOrder`), so that the
  oldest entry is one, and for `LocalModesEnd`. The latter has a hypothesis: no two names fold to the same one.
  `clearnonGlobalModes` compares spellings where `find_chan` does not, so that without it a channel found under another
  spelling takes its end without its modes; the run of the property has names spelled alike for the same reason.
* `Qr_proofs`: `TypeCorrect` and `Implementation`, the refinement of `QrRegistry`. The invariant
  says what an entry may be (`Sound`): a dead one is as new, only a challenged or old-style entry
  is registered, and a game comes with a challenge or the older protocol and a challenge with a
  game. Without the last, a right answer could list an entry that `QrRegistry` has
  not seen challenged. It also says that the entry of a heartbeat is live between the heartbeat's two
  actions (`Inside`). A first heartbeat's keys map to `Challenge`, a right answer to `List`, a first
  old-style datagram to `Age`, old-style keys to `ListOldStyle`, deletions to `Forget`, and all
  else to a stutter.
* `Browsing_proofs`: `BrowsingTypeCorrect`, `NobodyMisses`, `GhostsAreCaused` and, since a step of the two threads
  is a step of `Qr` or leaves it alone, `RegistryBeside`. `NoneMissed` says nothing of a client
  that is being answered; the invariant does (`Informed`): what it does not know of yet and is not
  about to be told is in the part of the list already copied, or the walk has yet to come to
  it. The second half of the argument is `Effect`, what one step of qr's thread does: an entry that is
  registered after it was so before, with the same game, or is in the news. `NewsTrue` says that
  news of a deletion are of an entry that is not there, without which a push could undo what
  a client knows. `NotCalled` being no set of clients is assumed.
  `GhostsAreCaused` is the converse of `NobodyMisses`, a property of steps. `Fate` says what one step of qr's thread
  makes of a registered entry: a heartbeat has it in hand, it stays what a list shows, or its deletion is the first of the news
  (if it has a game: `Named` says that a subscriber's game is one). Of the other thread's steps only the answer makes
  a client hold more. The attempt at this proof corrected the property: `Coming` once took news of another game for
  news that reach a client, and TLC, with a second game, showed an entry nobody was ever told the end of. It asks for the
  client's game now, which makes `NoneMissed` stronger too, and the run has two games.
* `LegacyMs_proofs`: `LegacyTypeCorrect`, `OnlyTheAdriftMiss`, `DisabledAreHidden`. A step of either thread is a
  step of the registry (`Qr_proofs`) or leaves it alone, so qr's invariant carries over; `OldStyle`
  adds that an entry of a disabled game is of the older protocol, which follows from `QrRegistry` alone.
  `Standing` says that what is in `steady` is still registered; with it, an entry that stood all through the walk is ahead
  of the iterator or in the answer (`NoneOverlooked`). The step that answers is taken with nothing ahead, so that
  the answer is full, or from an erased entry, and then it may lack what was ahead: `OnlyTheAdriftMiss`.
* `Stats_proofs`: `StatsTypeCorrect`, `Privacy`, `GamesAreSaved`, `Ownership`, `ScoresStand`. The invariant adds
  that whoever was let in or plays has a game (without which a snapshot could be of none). A merge is looked at
  as one row that differs (`Differ`); that a script's row is not worse than the one it read is a lemma about
  `ProcessResults`, and the exceptions of `HighScoresStand` are what the selection without a game leaves open.
* `UserModes_proofs`: `UserModesTypeCorrect`, `RightsFollowTheList`, `LoginsAreNotMixed`, `BansReachEverybody`.
  Most steps leave a client who it was (`Later`, `Calm`); what such a step need not show again is in
  `LaterClients`, `BansKept` and `CalmStep`. The argument of `LoginsAreNotMixed`: descriptors of clients differ
  (`SdsDiffer`), and a login under way or in the buffer is owed (`Owed`) to a client with that descriptor which the pass
  has already visited; it is read before the next pass, hence before that client can be deleted. The
  mutant that starts the pass without looking at the queue breaks just that.
  `NoModeIsTwice`, `ModesStayInStep` and `OpersStayInStep` have an invariant each, `ModesInv` and `OpersInv`, both on top of
  the one above. The runs' properties are about the lists once the server is up; the invariants hold from the moment
  a table has been read, and say what is still to come. For an id (`Mode`): ids that occur anywhere have been given out
  (`KnownId`), a datagram that deletes is of a row that is gone for good (`Erased`), and unless it is astray a row is on the
  list or will be, and what will put a row without place there is followed by what takes it off (`InStep`).
  `NoModeIsTwice` needs no exception. For a profile (`Oper`): one session at most is to tell of it, and tells what
  the table has; without one, the last datagram about it or else the list has it (`Says`). `astray` has keys of both tables, which
  is why `MatrixAssumption` asks for profiles that are no ids.
* `Presence_proofs`: `PresenceTypeCorrect`, `WordIsCurrent`, `MessagesAreKept`. `HeardIsCurrent` is not inductive: a buddy
  that comes back on a list brings its old word with it. `Heard` adds that a word was said by a session of that profile,
  and that who has it of somebody not on its list has asked that one to authorise it, so that `handleAuthAdd` tells it
  anew. While a status changes, the words of that one session are excepted (the parameter `but`).

Only model-checked: liveness under fairness, for which the prover has no ENABLED (`EverybodyIsAnswered`,
`LostConnectIsRepeated`, `SilentServersGo`, and the violated `TryAgainLater`). Every invariant and
every action property of the runs is proved. There is no recursion in the modules.

## 5. Findings

* `serverbrowsing/main.cpp:88` closes the listening socket where the connection is meant; the
  service is dead from then on (run browsing_retry).

Met while modelling, and modelled as the code has it: properties with kickexisting empty a channel but do not
apply to it, unlike the comment at `peerchat/channel.cpp:876`; a game client entry with id 0 bars all who
use CRYPT, where `structs.h:98` says "anything", and deleting channel properties adds one by falling through in
`main.cpp:206`; `isGlobalExcempt` gives tolower the comparison (`server.cpp:507`); `removeUsermode` takes a gag from
the first client only (`server.cpp:802`); `Client.cpp:38-39` of legacystats lacks a semicolon, so that `return gamespy3dxor(...)`
is what a failed database check runs and every other datagram is read undecoded; playerspy's `handleRevoke` asks an
uninitialised result for its rows.

## 6. Not modelled

* playersearch, keyserver, motd, registration, ChatMonitor.py, the host's module loader: no state of their own between
  two requests.
* common: encodings, ciphers, hashes, string helpers: data only.
* qr's filters, player and team keys, rules; serverbrowsing's rules and relayed messages: data that no property needs.
* peerchat: nicks and their uniqueness, flood weights, ping intervals, messages, keys, LISTs, auditorium; user modes of
  channel masks set at run time; wildcards.
* playerspy: profile fields and invitations; legacystats: the data index, ratings and names of the script.

## 7. Plan

1. `Natneg`, `PeerchatChannel`, `Peerchat`, `QrRegistry`, `Qr`, `Browsing`: done.
2. `Presence`, `Persist`, `Stats`, `LegacyMs`, `Matrix`, `UserModes`: done.
3. Theorems about every invariant and action property of the runs: done. Left: an abstract specification of
   the channels (who is on which, of what rank) that `Peerchat` implements, out of `ChannelSteps` and `StaffSteps`.
4. Peerchat's session module: nicks, flood, ping time-out, auditorium; user modes of channel masks at run time.
