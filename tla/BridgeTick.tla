------------------------------ MODULE BridgeTick ------------------------------
(***************************************************************************)
(* Bridge.run and Bridge.tick (bridge.py) with everything the tick calls:  *)
(* the two RCON commands (Roster), the game's chat log (GameLog), the      *)
(* proximity engine (Proximity), the Mumble server over Ice (sync in       *)
(* mumble.py) and the matrix handed to the falloff server.  Players walk,  *)
(* Mumble users come, go and change channels, and people are linked, while *)
(* the tick is under way.                                                  *)
(*                                                                         *)
(* What Verification and FalloffServer detail is one step here: a command  *)
(* handled, a link written, a matrix published.                            *)
(***************************************************************************)
EXTENDS GameLog, Proximity

CONSTANTS
    Place,      \* where players may be
    Away,       \* not in the game
    Off,        \* not in Mumble
    MaxEvents   \* bound on what happens to the bridge from outside

ASSUME TickAssumption ==
    /\ Place \subseteq Int
    /\ Away \notin Int
    /\ MaxEvents \in Nat

VARIABLES
    at,        \* where the tick is
    players,   \* its list of players, from the first reply to the matrix
    queue,     \* the players sync() has not come to
    users,     \* the channels of the users as getUsers returned them
    left,      \* the users who left Mumble since
    seen,      \* where the players were when the game answered PlayerData
    met,       \* who was in the game when it answered either command
    heard,     \* the matrix the falloff server has
    place, channel,   \* where each player and each Mumble user is
    links,     \* the people in the identity map file
    events     \* how much has happened from outside

tick == <<at, players, queue, users, left, seen, met, heard>>
world == <<place, channel, links>>
vars == <<logVars, tick, world, events>>

TickStates == {"list", "data", "poll", "load", "sync", "move", "down"}
InGame == {p \in Person : place[p] # Away}
Channels == {Off, Lobby} \cup {Cell(x) : x \in Place}
Nowhere == [p \in Person |-> Off]

Init ==
    /\ LogInit
    /\ at = "list" /\ players = {} /\ queue = {}
    /\ users = Nowhere /\ left = {}
    /\ seen = [p \in Person |-> Away] /\ met = {}
    /\ heard = {}
    /\ place \in [Person -> Place \cup {Away}]
    /\ channel \in [Person -> {Off, Lobby}]
    /\ links \in SUBSET Person
    /\ events = 0

(***************************************************************************)
(* The game, Mumble and the verification commands.                         *)
(***************************************************************************)
\* The bound counts a change of the log once, and anything else twice.
Happens(cost) == events + cost <= MaxEvents /\ events' = events + cost
Event == Happens(2)

Walk(p, x) ==
    /\ Event /\ place[p] # x
    /\ place' = [place EXCEPT ![p] = x]
    /\ UNCHANGED <<logVars, tick, channel, links>>

\* Mumble refuses a name that is in use.  A user who comes back has a new session.
Switch(p, c) ==
    /\ Event /\ channel[p] # c
    /\ c = Off \/ \A q \in Person \ {p} : MumbleName[q] = MumbleName[p] => channel[q] = Off
    /\ channel' = [channel EXCEPT ![p] = c]
    /\ left' = IF c = Off THEN left \cup {p} ELSE left
    /\ UNCHANGED <<logVars, at, players, queue, users, seen, met, heard, place, links>>

LinkWritten(p) ==
    /\ Event /\ p \notin links
    /\ links' = links \cup {p}
    /\ UNCHANGED <<logVars, tick, place, channel>>

LogWritten == Happens(1) /\ LogWorld /\ UNCHANGED <<tick, world>>

World ==
    \/ \E p \in Person :
        \/ \E x \in Place \cup {Away} : Walk(p, x)
        \/ \E c \in {Off, Lobby} : Switch(p, c)
        \/ LinkWritten(p)
    \/ LogWritten

(***************************************************************************)
(* The bridge ends, by an exception in a step of the tick or abruptly, and *)
(* systemd starts it again.                                                *)
(***************************************************************************)
Down ==
    /\ LogDown
    /\ at' = "down" /\ players' = {} /\ queue' = {}
    /\ users' = Nowhere /\ left' = {}
    /\ seen' = [p \in Person |-> Away] /\ met' = {}
    /\ heard' = {}
    /\ UNCHANGED world

\* RCON, the identity map file, the handler of a command, Ice, or a kill.
Ends == at # "down" /\ Event /\ Down

Restart ==
    /\ at = "down"
    /\ LogStart
    /\ at' = "list"
    /\ UNCHANGED <<players, queue, users, left, seen, met, heard, world, events>>

(***************************************************************************)
(* fetch_players.                                                          *)
(***************************************************************************)
PlayerList(replies) ==
    /\ at = "list"
    /\ at' = "data"
    /\ players' \in replies
    /\ met' = InGame
    /\ UNCHANGED <<logVars, queue, users, left, seen, heard, world>>

PlayerData(replies) ==
    /\ at = "data"
    /\ at' = "poll"
    /\ \E data \in replies : players' = Merge(players, data)
    /\ seen' = place
    /\ met' = met \cup InGame
    /\ UNCHANGED <<logVars, queue, users, left, heard, world>>

Fetch ==
    /\ PlayerList(ListReplies(InGame)) \/ PlayerData(DataReplies(InGame, place))
    /\ UNCHANGED events

CutReply ==
    /\ PlayerList(CutListReplies(InGame)) \/ PlayerData(CutDataReplies(InGame, place))
    /\ Event

(***************************************************************************)
(* poll_game_chat, IdentityMap.load and apply.                             *)
(***************************************************************************)
PollChat ==
    /\ at = "poll"
    /\ Poll
    /\ at' = IF reader' = "idle" THEN "load" ELSE "poll"
    /\ UNCHANGED <<players, queue, users, left, seen, met, heard, world, events>>

\* The log is there, and cannot be read.
ChatUnread ==
    /\ at = "poll" /\ present
    /\ OpenFails
    /\ at' = "load"
    /\ Event
    /\ UNCHANGED <<players, queue, users, left, seen, met, heard, world>>

Identify ==
    /\ at = "load"
    /\ at' = "sync"
    /\ \E byName \in ByName(links) :
        players' = {Resolved(pl, links, byName) : pl \in players}
    /\ UNCHANGED <<logVars, queue, users, left, seen, met, heard, world, events>>

(***************************************************************************)
(* sync: getUsers, then setState with what getUsers returned.              *)
(***************************************************************************)
\* Wrong on purpose: linked people who are not in the list are sent to the lobby.
GetUsersOfAll ==
    /\ at = "sync"
    /\ at' = "move"
    /\ users' = channel /\ left' = {}
    /\ players' = players \cup
        {[hash |-> p, key |-> p, pos |-> NoPos, rank |-> 2] :
            p \in links \ {pl.hash : pl \in players}}
    /\ queue' = players'
    /\ UNCHANGED <<logVars, seen, met, heard, world, events>>

GetUsers ==
    /\ at = "sync"
    /\ at' = "move"
    /\ users' = channel /\ left' = {}
    /\ queue' = players
    /\ UNCHANGED <<logVars, players, seen, met, heard, world, events>>

IsNext(pl) == at = "move" /\ pl \in queue /\ \A q \in queue : pl.rank <= q.rank
Target(pl) == Assigned(players, pl.key)

\* _find_user: the first in no known order who has the hash of the row or its Mumble name.
Found(pl) ==
    {q \in Person : /\ pl.hash # Nobody /\ users[q] # Off
                    /\ q = pl.hash \/ MumbleName[q] = RowMumbleName[pl.hash]}

\* Wrong on purpose: only users in the lobby are moved.
MisplacedInLobby(pl) == {q \in Found(pl) : users[q] = Lobby /\ users[q] # Target(pl)}

Misplaced(pl) == {q \in Found(pl) : users[q] # Target(pl)}

\* Nobody is found, or the user found is there already.
Skip(pl) ==
    /\ IsNext(pl)
    /\ Found(pl) = {} \/ ~(Found(pl) \subseteq Misplaced(pl))
    /\ queue' = queue \ {pl}
    /\ UNCHANGED <<logVars, at, players, users, left, seen, met, heard, world, events>>

SetState(pl, q) ==
    /\ IsNext(pl) /\ q \in Misplaced(pl) \ left
    /\ queue' = queue \ {pl}
    /\ users' = [users EXCEPT ![q] = Target(pl)]
    /\ channel' = [channel EXCEPT ![q] = Target(pl)]
    /\ UNCHANGED <<logVars, at, players, left, seen, met, heard, place, links, events>>

\* The session is gone: setState raises.
SetStateFails(pl, q) ==
    /\ IsNext(pl) /\ q \in Misplaced(pl) \cap left
    /\ Down
    /\ UNCHANGED events

\* publish, and the pause until the next tick.
Publish ==
    /\ at = "move" /\ queue = {}
    /\ at' = "list"
    /\ \E last \in LastOf(players) : heard' = AudioMatrix(players, last)
    /\ players' = {} /\ users' = Nowhere /\ left' = {}
    /\ seen' = [p \in Person |-> Away] /\ met' = {}
    /\ UNCHANGED <<logVars, queue, world, events>>

Tick ==
    \/ Fetch \/ PollChat \/ Identify \/ GetUsers
    \/ \E pl \in queue :
        Skip(pl) \/ \E q \in Person : SetState(pl, q) \/ SetStateFails(pl, q)
    \/ Publish \/ Restart

Next == Tick \/ CutReply \/ ChatUnread \/ Ends \/ World

Spec == Init /\ [][Next]_vars /\ WF_vars(Tick)

TickTypeOK ==
    /\ at \in TickStates
    /\ at \in {"data", "poll", "load"} => players \subseteq Player
    /\ at \in {"sync", "move"} => players \subseteq Known
    /\ queue \subseteq players
    /\ users \in [Person -> Channels] /\ left \subseteq Person
    /\ seen \in [Person -> Place \cup {Away}] /\ met \subseteq Person
    /\ heard \subseteq [listener : Person, speaker : Person, gain : Int, pan : Int]
    /\ place \in [Person -> Place \cup {Away}]
    /\ channel \in [Person -> Channels]
    /\ links \subseteq Person
    /\ events \in 0 .. MaxEvents

TypeOK == LogTypeOK /\ TickTypeOK

(***************************************************************************)
(* Properties.                                                             *)
(***************************************************************************)
\* The bridge takes people for each other by their names.  It cannot take this
\* person for another, or another for them: no name under which either of two may
\* show up, a first word or what is left of a cut name too, is in the other's row.
Shown(p) == ReadNames(p) \cup {MumbleName[p]}
Unshared(p) ==
    \A q \in Person \ {p} : Shown(p) \cap RowNames(q) = {} /\ Shown(q) \cap RowNames(p) = {}

\* What is published was true of one moment: a state in the matrix is between
\* two different linked people who were both in the game when it answered, with
\* the gain and the side of where they were, whatever replies were cut and
\* however the lists were merged (bridge.py 48-64, rcon_client.py 138-151,
\* parser.py 27-62, 182-213, 251-260, proximity.py 50-67).
IsTrue(s) ==
    LET l == s.listener  k == s.speaker IN
    /\ l # k /\ {l, k} \subseteq links
    /\ seen[l] # Away /\ seen[k] # Away
    /\ s.gain = Gain(Distance(seen[l], seen[k])) /\ s.gain > 0
    /\ s.pan = Pan(seen[l], seen[k])
PublishedIsTrue ==
    [][\A s \in heard' \ heard :
        Unshared(s.listener) /\ Unshared(s.speaker) => IsTrue(s)]_vars

\* Hearing is mutual: two people hear each other equally loud, from opposite
\* sides, or not at all (proximity.py 50-81).
HearingIsMutual ==
    \A s \in heard : Unshared(s.listener) /\ Unshared(s.speaker) =>
        [listener |-> s.speaker, speaker |-> s.listener, gain |-> s.gain, pan |-> -s.pan] \in heard

\* The bridge moves only users whose players it met in the game, to the channel
\* of the cell where the game saw them or to the lobby; a reply cut anywhere
\* moves nobody else (mumble.py 94-105).
MovesAreTheirs ==
    [][at = "move" /\ queue' # queue =>
        \A p \in Person : Unshared(p) /\ channel'[p] # channel[p] =>
            /\ p \in links \cap met
            /\ channel'[p] # Lobby => seen[p] # Away /\ channel'[p] = Cell(seen[p])]_vars

\* Once the world is quiet, everyone who is linked, in the game and in Mumble
\* sits in the channel of their cell and hears exactly those within range,
\* whatever failed before: cut replies, users who came and went, restarts.
Talkers == {p \in links : place[p] # Away}
InRange(l, k) == l # k /\ Gain(Distance(place[l], place[k])) > 0
Settled ==
    /\ \A p \in Talkers : channel[p] \in {Off, Cell(place[p])}
    /\ heard =
        UNION {{[listener |-> l, speaker |-> k, gain |-> Gain(Distance(place[l], place[k])),
                 pan |-> Pan(place[l], place[k])] : k \in {q \in Talkers : InRange(l, q)}} :
               l \in Talkers}
Settles == <>[]Settled

\* Nobody is taken for someone else: a player whom the bridge gives a hash is the
\* person linked with it, or their Steam ID was cut (identity.py 26-30, 42-54).
NobodyIsBorrowed ==
    at \in {"sync", "move"} =>
        \A pl \in players : pl.hash # Nobody /\ pl.key \in Person => pl.hash = pl.key
================================================================================
