# Exile Voice: specifications and proofs

Exile Voice gives a game server spatial voice chat. A **bridge** (Python, one
process, `src/bridge`) polls the game for player positions, computes who should
hear whom and how loud, and sends the result to a **Mumble plugin** (C++,
`src/client-plugin`) in each player's Mumble client, which scales the audio it
plays. A player is known by a Steam ID in the game and by a certificate hash in
Mumble; the bridge learns which belong together by a verification code.

This directory holds TLA+ models of the bridge and of the plugin's threads, TLC
configurations that check them on small instances, and TLAPS proofs of the
safety properties for every value of the constants. Paths below are relative to
the repository's `src/`.

## 1. Inventory

| Component | Code | State | Operations |
|---|---|---|---|
| Falloff server | `bridge/exile_bridge/falloff_server.py` | `_clients` (hash to socket), stop event, time of the last send | accept, handle a client (HELLO, register, greet, PING), publish, stop |
| Plugin worker and callbacks | `client-plugin/src/exile_voice_plugin.cpp` | `g_worker_running`, `g_worker_thread`, `g_connection`, `g_local_hash`, user hashes, gains, `g_lock` | worker loop; `onServerSynchronized`, `onServerDisconnected`, `onUserAdded`, `onUserRemoved`, `onChannelEntered`, `mumble_shutdown` |
| Plugin gain table, audio callback | same file | the tables the worker and the callbacks fill | `parse_update_line`, `mumble_onAudioSourceFetched` |
| Verification | `bridge/exile_bridge/verification.py` | `_players_by_name`, `_pending`, the identity map file, repeater threads | game command, `!verify NAME`, `!verify CODE`, issue, complete, repeat, fall back, expire |
| Game chat log reader | same file | offset into the log | `poll_game_chat` |
| Identity map | `bridge/exile_bridge/identity.py` | indexes by Steam ID, EOS ID, name, hash | load, apply |
| Bridge loop | `bridge/exile_bridge/bridge.py` | the components | tick, run |
| Proximity engine | `bridge/exile_bridge/proximity.py` | none | channels, gains, pans |
| Player list parser | `bridge/exile_bridge/parser.py` | none | parse, merge rows |
| RCON client | `bridge/exile_bridge/rcon_client.py` | one socket per command | connect, command, read until idle |
| Mumble adapters | `bridge/exile_bridge/mumble.py` | Ice proxies | sync |
| Configuration, command line | `config.py`, `__main__.py` | none after start | read once |
| Installer | `client-plugin/installer` | none | copy two files |

**Interaction.** `Bridge.tick`, on the bridge's main thread, fetches the players
over RCON, hands them to the verification, reads new lines of the game's chat
log, loads the identity map file, attaches Mumble hashes, computes the matrix of
gains and publishes it through the falloff server. Murmur delivers Mumble chat
messages to the verification in an Ice dispatch thread, which writes the
identity map file; each code has a thread that repeats it in game. Each plugin
connection has a handler thread in the falloff server, at the other end of which
is a worker thread of the plugin, and the plugin's callbacks run in Mumble's
main and connection threads.

**What is hard, and what makes each component correct.**

- *Falloff server.* Handlers, the publishing main thread and `stop()` share one
  dictionary; registration is outside the lock, publishing works on a copy, and
  clean-up goes by hash rather than by connection. Correct: a client gets the
  states of its own hash and of no other; nothing leaks; clients of different
  hashes do not disturb one another; every handler ends.
- *Plugin.* A flag, a thread handle and a join that times out control a worker
  that may be asleep for longer; start and stop run in two threads; a worker that
  logs waits for the thread that may be waiting for it. Correct: no start is
  lost; gains do not outlive the session they came from; whoever lives beside the
  current worker, or with gains of an earlier user, is one that a stop had to give up
  on; callbacks return; stopped workers end; a settled client connects.
- *Verification.* Three kinds of threads issue, repeat, complete and expire
  codes around a lock that covers single dictionary accesses; the result is a
  file written in place, and read by the other thread. Correct: nobody is linked
  to someone else's hash, but where a code is drawn twice or sent to a namesake; an
  announced link is kept.
- *Log reader.* The log grows, ends inside a line, or is another file between
  stat, open and read; the offset is in memory. Correct: a command is handled at
  most once and in its turn, none that was read whole is passed over, and each is
  noticed in the end.
- *RCON, parser, identity.* A reply has no length: one that pauses is cut
  anywhere, and the parser makes players of the pieces; a line of `PlayerData` keeps
  the first word of a name; two replies of two moments are merged. Correct: whoever is
  taken for someone by such a name, it does not matter to anybody else.
- *Proximity, Mumble adapter.* Positions and users are old by the time they are
  used; `setState` raises for a user who left. Correct: what is published was true
  of one moment; hearing is mutual; only people who were met in the game are
  moved; when the world is quiet everyone is where they belong.

`PROJECT.json` lists each hazard at its line with the properties that cover it.

## 2. Modules

| Module | Models |
|---|---|
| `ListenerBinding` | abstract promise of the falloff server |
| `FalloffServer` | its threads and registry, one shared access per step |
| `FalloffServerProofs` | five theorems, among them that it implements `ListenerBinding` |
| `FalloffWorker` | the plugin's worker threads and the callbacks that start and stop them |
| `FalloffWorkerProofs` | six theorems |
| `LinkLedger` | abstract promise of the verification |
| `Verification` | codes, repeaters, links and the file, in the tick and the Ice thread |
| `VerificationProofs` | five theorems |
| `LedgerProofs` | that it implements `LinkLedger` |
| `GameLog` | the game's chat log and the bridge's reading of it |
| `GameLogProofs` | four theorems |
| `Roster` | operators: the replies of the game, cut or whole, what the parser makes of them, and whom `IdentityMap` takes the players for |
| `Proximity` | operators: channels, gains, pans and the matrix (extends `Roster`) |
| `ProximityProofs` | four theorems on gains and pans |
| `BridgeTick` | `Bridge.run` and `Bridge.tick` over the last three, with the Mumble server (extends `GameLog`, `Proximity`) |
| `BridgeTickProofs` | nine theorems, and as a lemma that the tick implements `GameLog` |
| `QuietTickProofs` | one theorem: what a tick that nothing disturbs leads to |
| `MCFalloffServer`, `MCFalloffWorker`, `MCVerification`, `MCBridgeTick` | constants and symmetry for TLC |

### FalloffServer

`handler[c]` is the program counter of the thread that runs `_handle_client` for
connection `c`; `name[c]` its local `mumble_hash`, `open` and `peer` the two ends
of the socket, `sent[c]` the lines written to it. `registry` is `_clients`;
`main`, `snapshot`, `matrix` and `todo` are the main thread in `publish()` and
`stop()`. Every access to `_clients` or to a socket is an action: eviction
(under the lock) and registration (outside it) are two, publishing is one for
the copy and one for each listener. `DropClient` is `_drop_client`, by hash. The code
removes the connection under the lock and closes it after; the model does both in one
step, since nobody finds the connection in between, and what its handler or a copy of
the registry does with it then could have come before the removal.
Keys of the matrix may be spelled in upper case (`Key`, `Lower`), as a
hand-edited identity map spells them.

Abstractions: a line is written whole or not at all; gains and pans are
represented by the listener they were computed for; the send interval is the
choice of when a round begins. A client names a hash freely: the server cannot
tell whose it is.

### ListenerBinding

A connection claims one hash, once; a hash is bound to at most one connection,
which claimed it; what a connection hears is computed for its hash. The
refinement mapping takes `name`, `registry` and the hashes whose states occur in
`sent`.

### FalloffWorker

`worker[w]` is the program counter of a `falloff_worker` thread, `as[w]` its copy
of the local hash, `link[w]` its socket, `timedOut[w]` whether the last socket
error of the thread is an old `WSAETIMEDOUT`. `pc` gives the place of Mumble's
main thread, which runs most callbacks, and of its connection thread, which runs
`onServerDisconnected` (`MumblePlugin.h` says so). `running`, `handle`, `online`,
`localHash`, `roster`, `states` and `lock` are the plugin's globals.

Two constants say how benign the environment is. `Patient` is the set of calls
of a worker that can outlast `stop_worker`'s six-second join: with the default
`reconnect_sec = 8` it holds `"sleep"`, `"connect"` for an unreachable host,
and `"reply"` and `"read"` for a line that comes byte by byte, each within its five
seconds. `Overlap` says whether a disconnect may interrupt a main-thread callback, and
callbacks come while it is under way.

`strays` is history: the workers that a join gave up on while they lived, and those that
a disconnect missed because it cleared the flag before they were created, or whose
handle was overwritten then. The code does leave such workers behind; `OneWorker`,
`QuietAfterDisconnect` and `GainsAreOurs` say of every other worker that it is alone,
ends with the connection and speaks for the local user.

### Verification

`pc` and `job` are the program counters and locals of the bridge's main thread
and of Ice's dispatch thread; `byName`, `pending`, `repeats` are the dictionaries
and the repeater threads; `rows` and `torn` the identity map file, which is
truncated and written in two steps. `UpsertFails` is an exception in either of them,
which Ice's callback drops: the file cannot be read, opened or written, and stays torn if
it was truncated. `drawn`, `seen` and `linked` are history: which codes were drawn for
whom, who was shown which code, and who was told that they are linked. So is `loose`,
the codes that went astray by themselves: drawn a second time, for whomever, or sent by
the fallback to a Mumble user who is not their player. A person stands for
their Steam ID and for their hash, so that a right link is one of a person to
themselves. RCON exchanges, writes and dictionary accesses are separate actions;
an exchange may fail after the game delivered the message. An exception in the
main thread ends the bridge and systemd restarts it (`Restart`); `Killed` is an
abrupt end. A half-written file keeps the bridge from starting, as
`IdentityMap.load` raises.

`Fallback` is the setting `game_code_mumble_fallback`. `_new_code` may return any code
that is not pending when it looks, also one that another thread holds already or that
expired; nothing is assumed about `randbelow`. `NobodyIsMislinked` and `LinksAreAdded`
therefore name the one way to a wrong link: a loose code of the player (`Astray`).

### LinkLedger

Which codes were issued for whom, who was told which, which codes are loose or spent,
the links, and who was told that they are linked. A code is issued for one person and
told to that person, is spent by the link it makes, or dropped. One that is issued again
or leaks to somebody else is loose from then on: the ledger lets it link the people it was
issued for to those it was told to, and nobody else. The refinement mapping takes `drawn`, `seen`, `loose`,
the pairs in `rows` and `linked`; a code counts as `Spent` once it was drawn and is
neither pending nor on its way into `_pending`, nor in the hands of the thread that
completes it. `TypeCode` reads the code, `WriteFile` earns the link and `ForgetCode`
comes after, so that a code may be spent and still be pending: the mapping has to look
at the program counter.

### GameLog

`present`, `before` and `size` are the file: whether it exists, how many commands
earlier files held, its length. Lengths count parts of lines, three for each line
with a command, so that a write, and a read, can end inside the command or after
it but before the line end. Other lines of the log are not represented: a chunk
has the commands that lie in it whole, as `CHAT_LINE_RE` finds them. `reader` is
the place in `poll_game_chat`, `offset` is `_game_log_offset`, `todo` the rest of
the chunk. `Stat`, opening with reading (`Read`, `OpenFails`), and each handled
command are separate actions; `OpenFails` is a log that is gone, or there and unreadable; the game may write, remove or replace the file
between any two. `LogDown` and `LogStart` are the end and the next start of the
bridge.

`handled`, `of` and `excused` are history. A command is excused when the code
cannot have seen it whole: it was in the log when the bridge started, an earlier
read ended inside it, the offset came from another file, or an exception dropped
the rest of its chunk. That these commands are lost is what the code does, and no
property notices it; the properties say that nothing else is.

### Roster and Proximity

A `Player` is what `parse_players` returns. A person stands for their Steam ID and
their hash. `ListReplies` and `DataReplies` are the whole replies to `PlayerList` and
`PlayerData`, `CutListReplies` and `CutDataReplies` what the parser finds when
`_read_until_idle` gives up early: some of the players, and at the cut the pieces of one.
Names are read in three ways. `PlayerList` has them whole; `KEY_VALUE_RE` ends a
value at a space, so that a line of `PlayerData` has the first word
(`FirstWord`, `LineName`); a reply that is cut has what is left (`Cuts`). Both
may be another person's name, or the name in another person's row. `TornName` stands for
all names that are nobody's, `TornId` for a piece of an ID.

`Merge` is `parse_players` over both replies. `ByName` and `Resolved` are the index by name of
`IdentityMap`, and its `apply`. The rows hold the names people had when they were linked
(`RowGameName`, `RowMumbleName`), which may differ from today's.

`Proximity` has positions on a line of integers. The engine computes distances in
the plane, but what it does with a distance, a first coordinate and a cell is the
same; gains are in units of `1/Span`, pans in units of `1/Width`.

### BridgeTick

`at` is the program counter of the main thread: the two replies, the log, the
identity map, `getUsers`, the moves, the matrix. A log that cannot be read is `ChatUnread`,
after which the tick goes on. `players`, `queue` and `users`
are its locals; `heard` is what the falloff server was handed last; `place`,
`channel` and `links` are the game, Mumble and the identity map file, which change at
any time. `left` are the users who left since `getUsers`, for whom `setState`
raises; `seen` and `met` are history. An exception anywhere (`Ends`), or a kill,
ends the bridge, its plugins lose their connection and thereby all gains, and
systemd starts another (`Restart`).

## 3. Runs

| Run | Instance | Checks |
|---|---|---|
| `MCFalloffServer` | 2 connections, 2 hashes, one of them in two spellings, 1 publish round, connections interchangeable | `TypeOK`, `NoLeak`, `SoleConnectionStaysUp`, `RefusedGetsNothing`, `ListenersGetTheirOwnStates` |
| `MCFalloffServerLive` | 2 connections, 1 hash, pings | `HandlersFinish` |
| `MCFalloffWorker` | 2 workers, 2 hashes, joins time out, callbacks overlap, 2 callbacks | `TypeOK`, `RunningHasWorker`, `GainsHaveASession`, `OneWorker`, `QuietAfterDisconnect`, `GainsAreOurs` |
| `MCFalloffWorkerCalm` | 3 workers, 2 hashes, no call outlasts the join, no overlap, 5 callbacks | `ShutdownLeavesALoggerAtMost` |
| `MCFalloffWorkerLive` | 2 workers, sleeps outlast the join, 2 callbacks | `StoppedWorkersEnd`, `SettledClientConnects`, `CloseIsNoticed`, `CallbacksReturn` |
| `MCVerification` | 2 namesakes, 2 codes and 2 draws, the second also of the first's code, no fallback, failing writes, 1 kill | `TypeOK`, `NobodyIsMislinked`, `LinksAreEarned` |
| `MCVerificationKept` | 2 names, swapped in Mumble, 1 code drawn twice, fallback, failing writes, 1 kill | `LinksAreKept`, `OneRowPerSteamId`, `LinksAreAdded` |
| `MCBridgeTick` | 2 people, one with a name of two words and another one when they were linked, 3 places in 3 cells, 2 log lines, bounded events | `TypeOK`, `HearingIsMutual`, `NoLoss`, `HandledOnce`, `PublishedIsTrue`, `MovesAreTheirs`, `Settles`, `CommandsAreNoticed` |

Every property of these runs has a mutant in `PROJECT.json`: a definition of the
module marked "Wrong on purpose" that TLC finds to violate it.

Four runs show where the code does not do what its documentation says, or what
its own structure asks for. They are expected to end in a violation.

| Run | What TLC finds |
|---|---|
| `MCFalloffServerForgotten` | A live, greeted client is no longer registered, and its socket stays open: the plugin sees a healthy connection without updates. Two handlers of one hash both evict before either registers, and the second replaces the first without closing it. |
| `MCFalloffWorkerShutdown` | A worker sleeps through the join and is alive when `mumble_shutdown` has deleted the lock and returned. |
| `MCVerificationMapped` | The tick loads the identity map while Ice's thread has truncated it, raises and ends the bridge. |
| `MCBridgeTickLinked` | A player who is not linked is given the hash of the person who uses their name in Mumble, as `IdentityMap` keeps game names and Mumble names in one index. |

**Bounds.** `MaxRounds` bounds publish rounds: a round starts from the registry
alone and leaves nothing but lines, so one round against every interleaving of
two handlers shows what a round can do. `MaxLines` stops pings on connections
that were sent that many lines: each ping adds one OK. With 2 a connection is
served but not pinged, with 3 (in the liveness run) also pinged. Two connections
are what eviction needs; the theorems cover any number. `MaxEvents` bounds main-thread
callbacks: two let the client connect, disconnect and connect again, while the
worker of the first connection is still asleep. Two workers are then alive at once. `MaxDraws` bounds
the codes drawn: with two a code is drawn for two players, or twice for one, by two threads
or after it was used. `MaxKills` bounds
abrupt ends, one of which is enough to leave the file torn; ends by exception are
not bounded. Connections are opened once, workers are created once and a torn
file stops the bridge for good, so the models may halt, and deadlock is not checked.

In `MCBridgeTick`, `MaxEvents` bounds what comes from outside: a step of a player,
a Mumble user or a link, a cut reply, an unreadable log or an end of the bridge costs 2, a change of
the log 1. With 4 two of the former meet (a user leaves after `getUsers` and
another walks; two replies of one tick are cut), or a line written in pieces meets
a rotation and the new file. Two people can hear each other, and two lines are
what an order needs. The three places lie in three cells, one of negative
coordinates: people at one place hear each other at full volume, at neighbouring
ones faintly across the border of a cell, at the outer ones not at all. `MCInit` leaves out
beginnings: everyone is in the lobby, the log is empty, one person is linked and
in the game, and the other is elsewhere; they may meet later. Ticks go on for ever, so deadlock is checked.

**Symmetry** is used for connections, hashes, codes and namesakes in runs that check
invariants or action formulas, never for liveness.

**Fairness.** In `FalloffServer` a handler's own steps are weakly fair, except a
read from a live client: its timeout is per byte, so that a client may draw it out
for ever. Main-thread and client steps are not fair. In `FalloffWorker`,
callbacks, stop steps and workers are weakly fair: reads and the join have
timeouts, `Sleep` and `connect` return, pings are sent every 20 s. `HelloOk` is
strongly fair: a bridge that is up and asked again and again answers in the end, with OK
as the first line. The falloff server does not guarantee that (an UPDATE2 may overtake
OK each time), so that `SettledClientConnects` is about everything else that may keep a
client from its session. The
environment (Mumble, the user, the bridge process) is not fair. The
liveness properties about a settled client therefore take its stability as their premise.
In `BridgeTick` the tick is weakly fair, but for cut replies and unreadable logs, which are
events of the world: its waits have timeouts, and the loop and
systemd's restart go on. The game and Mumble are not fair; as their events are
bounded, `Settles` is about what the bridge does when they are over.

## 4. Theorems

All for arbitrary sets of connections, hashes, workers, people and codes, with
only the named assumptions of the modules (`FalloffAssumption`,
`WorkerAssumption`, `VerificationAssumption`, `LogAssumption`, `RosterAssumption`,
`ProximityAssumption`, `TickAssumption`). These type the constants and keep apart the
values that stand for nothing (`NoConn`, `NoWorker`, `Nobody`, `NoId`, `TornId`, `NoPos`,
`Away`) from those that stand for something. `TornName \notin Name` is of the second
kind: `TornName` is whatever is nobody's name, and a name that is cut to somebody's is in `Cuts`.
That a separator line is nobody's name is assumed with it.

| Theorem | States |
|---|---|
| `FalloffServerProofs!TypeCorrect`, `NothingLeaks`, `SoleConnectionSafe`, `RefusedIsSilenced` | the four invariants of `MCFalloffServer` |
| `FalloffServerProofs!ServerImplementsBinding` | `Spec => ListenerBinding!Spec` under the mapping |
| `FalloffWorkerProofs!TypeCorrect`, `NoLostStart`, `NoOrphanedGains`, `AtMostOneWorker`, `NoWorkerOffline`, `OwnGains` | the six invariants of `MCFalloffWorker`, for any `Patient` and `Overlap` |
| `VerificationProofs!TypeCorrect`, `UniqueRows`, `KeptLinks`, `TrueLinks`, `AddedLinks` | `TypeOK`, `OneRowPerSteamId`, `LinksAreKept`, `NobodyIsMislinked`, `LinksAreAdded`, with and without the fallback |
| `LedgerProofs!EarnedLinks` | `Spec => LinkLedger!Spec` under the mapping, with and without the fallback |
| `GameLogProofs!EachCommandOnce`, `NothingPassedOver` | `HandledOnce` and `NoLoss`, for any log |
| `ProximityProofs!GainIsBounded`, `HeardWithinRange`, `GainFades`, `PanIsOpposite` | gains are bounded, positive exactly within `audible_distance` and fall with distance; two players have each other on opposite sides |
| `BridgeTickProofs!TickHandlesOnce`, `TickPassesNothingOver` | the same for the log within the tick |
| `BridgeTickProofs!TickTypes` | `TypeOK` |
| `BridgeTickProofs!MutualHearing`, `PublishedTrue`, `TheirMoves` | of the people who are `Unshared`, whatever names the others have |
| `BridgeTickProofs!OwnersAreTheirs` | `NobodyIsBorrowed`, assuming `DistinctNames` |
| `QuietTickProofs!QuietTicksSettle` | what `Settles` rests on, assuming `DistinctNames` |

*Server.* The inductive invariant `IInv` adds to the properties: a registered
connection named the hash it is registered for and its handler still has its
`finally` clause ahead (`RegistryInv`); what `publish()` copied named its hash too, though
its handler may be done (`SnapshotInv`); nothing was written to a connection that
has not registered yet (`HandlerInv`); all states written to a connection are of
its hash (`HeardInv`). Without `SnapshotInv` a stale copy could deliver another
hash's states, without `HandlerInv` a refused client might have heard something.

*Plugin.* `NoOrphanedGains` is inductive with the types: gains are only set by a
worker in its session, `as[w]` does not change there, and both ways out clear
them. For the other three, `HostInv` says where the main and connection thread
can be together, and when `online` is set. `HandleInv` follows a stop: while the flag
is cleared either every live worker is a stray or a thread is on its way to wait for
the one that is not; in the join that one is `joining[t]`, and after it only strays
are left; so the next worker that is created on time is alone. `HashInv` says that the copy of the
local hash that a worker speaks for is the current one unless it is a stray, and that
the hash is replaced only while nobody but strays lives. `MCFalloffWorkerShutdown`
shows that strays exist, and `MCFalloffWorkerCalm` that even without timeouts of the
worker's own calls one may be left: a worker in `log_both` waits for the main thread,
whose join times out.

*Verification.* `KeptInv` says that everyone told that they are linked, and
without a namesake, is in the file's rows or the row is about to be written:
`upsert_identity_mapping` overwrites a namesake's row, but nobody else's. For
`TrueLinks`, `KeptFor` says that every pending code, every code in the hands of a thread
and every repeater's was drawn for the player it is kept with, and `OwnersOnly` that a code that is
not loose was drawn for one player and shown to no one else. `LinkInv` then says that
whoever completes a code was shown it, and is its player or the code is loose.
A code is drawn for good: across expiry, late repeats and restarts the history of
`drawn` only grows, which is why these hold without any assumption on `_new_code`.

For `EarnedLinks`, `SecretInv` adds that a code which is not loose and on its way into
`_pending` is not pending, and that the other thread does not have it (`Secret`),
and `WrittenInv` that the link is in the file before the code is dropped.
`IssuedStep`, `TellStep`, `LeakStep`, `EarnStep`, `DropStep` and `AnnounceStep` show what a step of the
threads has to do to be one of the ledger, `UsedStep` that none makes a used code
good again, and `LedgerStep` takes the steps one by one.

*Log.* `LogInv` relates the offset to history: every command handled or about to
be handled lies before the offset of the file it was read from, or in an earlier
file, and what is about to be handled comes after everything handled. When the
offset is reset, all of that is in earlier files (the length of a file only grows, so
a shorter one is another), which is why nothing can be handled twice.

*Tick.* `RowsInv` follows the list of players through the tick: after the first
reply nobody has a position; after the second a player with one has a whole
Steam ID, stands where the game saw them and is there only once; `apply` keeps
that. Pieces of a cut reply therefore have no position: they are in no matrix and
are assigned the lobby. `OwnerInv` adds to it, for each person who is `Unshared`: if they
are given a hash, they were in the game in this tick, and a whole Steam ID beside the hash
is theirs. `Unshared(p)` says that none of the names under which anyone else may show up
(`Shown`: the whole name, its first word, what a cut leaves of either, the name in
Mumble) is in the row of `p`, and none of `p`'s in another row. The three properties therefore
hold of everyone who is so distinguished, whatever names the others share; of two
people such as *Rex* and *Rexy*, or *Rex* and *Rex Two*, they say nothing, since the code does
lend the one's hash to the other. Only `NobodyIsBorrowed` speaks of everybody and needs
`DistinctNames`. `MCBridgeTickLinked` is the case without it.

*Quiet.* `Settles` says that in a quiet world everyone ends where they belong.
`QuietTicksSettle` is its safety half, and says when: `Quiet` is a state in which a
tick begins, or the bridge is down, and from which on only steps of the tick, or
writes to the log, occur. From there on `Agree` is invariant: the list of players is
exactly that of the people in the game, at each stage in the form that `fetch`,
`merge` and `apply` give it (`MergeWhole`, `ResolvedWhole`), `setState` cannot fail, and
every player `sync` is done with sits in the channel of their cell (`TargetTaken`,
`FoundTaken`). So the first matrix published settles everyone (`MatrixTaken`), and a
settled state stays settled. What is left to TLC is that the tick comes to its end.

## 5. Model-checked only

Liveness (`HandlersFinish`, `StoppedWorkersEnd`, `SettledClientConnects`,
`CloseIsNoticed`, `CallbacksReturn`, `Settles`, `CommandsAreNoticed`) is checked by
TLC and not proved: neither fairness nor `ENABLED` is in the provers' reach. So is
`ShutdownLeavesALoggerAtMost`, which is true only where joins do not time out, and the
properties that runs find violated, but for `NobodyIsBorrowed`, which is proved for
distinct names.

The models follow the code also where it goes wrong by itself. Some of these cases no
property notices: an evicted or refused handler drops the connection that is registered
for its hash; UPDATE2 before OK; two keys of one listener, the empty line last; a PING cut
into a blank line; a namesake's row overwritten; a torn file after a kill or a failed write;
commands lost with the rest of a chunk, with a line that was not complete, or before
the offset in a rotated log. `PROJECT.json` lists them as hazards with a note, or with
the properties that say what holds beside them.

## 6. Not modelled, and why

- Two threads that write to one socket at once, and the `RuntimeError` of a
  dictionary that grows while `stop()` walks it: both lie within one call of the
  Python runtime.
- The contents of the plugin's tables, lines cut in two by a late byte, and the
  audio callback (planned below).
- JSON replies and alternative spellings of keys and coordinates: conversions of
  text without state. Names that contain one of `, ; : = |`, at which the parser splits
  lines, or begin like a separator line. EOS IDs, which the two replies do not name. Two pieces of
  Steam IDs that are equal by chance.
- The packets and the authentication of RCON, the connection over Ice, mock mode,
  `probe_rcon` and the dry-run adapter: sequential, and an error in them is the
  `Ends` of `BridgeTick`.
- What `setState` writes back beside the channel: `sync` sends the whole state that
  `getUsers` returned, so that a mute set in between is undone. The model has
  no fields for it.
- `create_channels = false`, where users without a channel stay where they are;
  channels of two cells whose tokens collide.
- Configuration and the installer, which run once and alone; the third-party
  header, from which only the threads of the callbacks are taken.

Reading the code for these models also showed: `bridge/docs/CONFIGURATION.md`
speaks of a 3D distance where `audio_matrix` uses `distance_2d`; a client without a
certificate hash never says HELLO, although `client-plugin/README.md` speaks of a
generated client ID (`CopyHash` in `FalloffWorker` polls for ever).

## 7. Plan

In this order; the first six are done.

1. `FalloffServer` with `ListenerBinding`, and proofs.
2. `FalloffWorker`, and proofs.
3. `Verification`, and proofs.
4. `GameLog`, and proofs.
5. `Roster` and `Proximity`, and proofs.
6. `BridgeTick`, the composition of 4 and 5 with the Mumble server, and proofs.
7. `PluginGains`: the plugin's line reader with its limit of 8191 bytes and its
   timeouts inside a line, `parse_update_line`, the table of gains with its
   limit, and the audio callback. Worth checking: no gain is louder than the one
   published; the table is one update's; in a quiet world it is the last one's.
8. `Verification` as a refinement of what `BridgeTick` has of it: `LinksAreAdded`
   is the part about links, for players without namesakes whose codes do not go
   astray; the commands of both are left.
9. An abstract specification of the plugin (one session at a time, gains only
   within it), which the workers of `FalloffWorker` that are no strays implement.
