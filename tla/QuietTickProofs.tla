---------------------------- MODULE QuietTickProofs ----------------------------
(***************************************************************************)
(* One tick that nothing disturbs puts everyone where they belong, and the *)
(* ticks after it leave them there, for any people, places and settings,   *)
(* if no name may be taken for another's.  Settles rests on this; that      *)
(* a tick comes to its end is left to TLC.                                 *)
(***************************************************************************)
EXTENDS BridgeTickProofs

\* A player of two whole replies, and as the identity map leaves them.
Sighted(p, spot) == [id |-> p, name |-> GameName[p], pos |-> spot[p], rank |-> 0]
Taken(p) == [hash |-> IF p \in links THEN p ELSE Nobody, key |-> p,
             pos |-> place[p], rank |-> 0]
TakenPlayers == {Taken(p) : p \in InGame}

\* What the tick has agrees with the world, which is quiet; whoever sync() has
\* come to is where they belong, or not in Mumble.
Agree ==
    /\ at = "data" => players = Listed(InGame)
    /\ at \in {"poll", "load"} => players = {Sighted(p, place) : p \in InGame}
    /\ at \in {"sync", "move"} => players = TakenPlayers
    /\ at = "move" =>
        /\ users = channel /\ left = {}
        /\ \A pl \in players \ queue :
            pl.hash # Nobody => channel[pl.hash] \in {Off, Cell(place[pl.hash])}

--------------------------------------------------------------------------------
(***************************************************************************)
(* The players of whole replies.                                           *)
(***************************************************************************)
\* The two replies make one player of everyone in the game.
LEMMA MergeWhole ==
    ASSUME NEW G \in SUBSET Person, NEW spot
    PROVE  Merge(Listed(G), Located(G, spot)) = {Sighted(p, spot) : p \in G}
  <1> DEFINE row(p) == [id |-> p, name |-> LineName(p), pos |-> spot[p], rank |-> 1]
             item(p) == [id |-> p, name |-> GameName[p], pos |-> NoPos, rank |-> 0]
             data == Located(G, spot)
             pos(l) == IF \E d \in data : d.id = l.id /\ d.id \in Person
                       THEN (CHOOSE d \in data : d.id = l.id).pos ELSE NoPos
  <1>1. data = {row(p) : p \in G} /\ Listed(G) = {item(p) : p \in G}
    BY DEF Located, Listed, ListPlayer
  <1>2. ASSUME NEW p \in G PROVE [item(p) EXCEPT !.pos = pos(item(p))] = Sighted(p, spot)
    <2>1. row(p) \in data /\ row(p).id = item(p).id /\ row(p).id \in Person
      BY <1>1
    <2>2. \A d \in data : d.id = item(p).id => d = row(p)
      BY <1>1
    <2>3. (CHOOSE d \in data : d.id = item(p).id) = row(p)
      BY <2>1, <2>2
    <2>4. \E d \in data : d.id = item(p).id /\ d.id \in Person
      BY <2>1
    <2>5. pos(item(p)) = row(p).pos
      <3> HIDE DEF data, row, item
      <3> QED BY <2>3, <2>4
    <2> HIDE DEF pos
    <2> QED BY <2>5 DEF Sighted
  <1>3. {d \in data : d.id \notin Person \/ \A l \in Listed(G) : l.id # d.id} = {}
    <2>1. ASSUME NEW d \in data PROVE d.id \in Person /\ \E l \in Listed(G) : l.id = d.id
      <3>1. PICK p \in G : d = row(p)
        BY <1>1
      <3>2. item(p) \in Listed(G) /\ item(p).id = d.id /\ d.id \in Person
        BY <1>1, <3>1
      <3> QED BY <3>2
    <2> QED BY <2>1
  <1>4. Merge(Listed(G), data) =
            {[l EXCEPT !.pos = pos(l)] : l \in Listed(G)}
            \cup {d \in data : d.id \notin Person \/ \A l \in Listed(G) : l.id # d.id}
    BY DEF Merge
  <1> HIDE DEF pos, item, row, data
  <1>5. {[l EXCEPT !.pos = pos(l)] : l \in Listed(G)} = {Sighted(p, spot) : p \in G}
    BY <1>1, <1>2
  <1> QED BY <1>3, <1>4, <1>5 DEF data

\* The identity map takes everyone for themselves.
LEMMA ResolvedWhole ==
    ASSUME DistinctNames, NEW L \in SUBSET Person, NEW byName \in ByName(L),
           NEW p \in Person, NEW spot
    PROVE  Resolved(Sighted(p, spot), L, byName) =
               [hash |-> IF p \in L THEN p ELSE Nobody, key |-> p, pos |-> spot[p], rank |-> 0]
  <1> DEFINE pl == Sighted(p, spot)
  <1>1. pl.id = p /\ pl.name = GameName[p] /\ pl.pos = spot[p] /\ pl.rank = 0 /\ p # NoId
    BY RosterAssumption DEF Sighted
  <1>2. Owner(pl, L, byName) = IF p \in L THEN p ELSE Nobody
    <2>1. CASE p \in L
      BY <1>1, <2>1 DEF Owner
    <2>2. CASE p \notin L
      <3>1. GameName[p] \in Name
        BY RosterAssumption
      <3>2. {q \in L : GameName[p] \in RowNames(q)} = {}
        BY <2>2, ReadNamesFacts DEF DistinctNames, Unshared, Shown
      <3>3. byName[GameName[p]] = Nobody
        BY <3>1, <3>2 DEF ByName
      <3> QED BY <1>1, <2>2, <3>3 DEF Owner
    <2> QED BY <2>1, <2>2
  <1> HIDE DEF pl
  <1> QED BY <1>1, <1>2 DEF Resolved, pl

--------------------------------------------------------------------------------
(***************************************************************************)
(* What sync() and publish make of the players.                            *)
(***************************************************************************)
\* Whoever is in the game has a place, and is a person of their own.
LEMMA TakenFacts ==
    ASSUME BaseInv, NEW p \in InGame
    PROVE  /\ p \in Person /\ p # Nobody /\ place[p] \in Int /\ place[p] # NoPos
           /\ Taken(p).key = p /\ Taken(p).pos = place[p] /\ Taken(p).rank = 0
           /\ Taken(p).hash = IF p \in links THEN p ELSE Nobody
  BY RosterAssumption, TickAssumption DEF BaseInv, TickTypeOK, InGame, Taken

\* They are sent to the channel of their cell.
LEMMA TargetTaken ==
    ASSUME BaseInv, players = TakenPlayers, NEW p \in InGame
    PROVE  Target(Taken(p)) = Cell(place[p])
  <1> DEFINE P == {q \in players : q.key = p}
  <1>1. \A q \in players : \E r \in InGame : q = Taken(r)
    BY DEF TakenPlayers
  <1>2. P = {Taken(p)}
    BY <1>1, TakenFacts DEF TakenPlayers
  <1>3. (CHOOSE r \in P : \A q \in P : q.rank <= r.rank) = Taken(p)
    BY <1>2, TakenFacts
  <1>4. Assigned(players, p) = Channel(Taken(p).pos)
    BY <1>3 DEF Assigned
  <1> QED BY <1>4, TakenFacts DEF Target, Channel

\* The user found for them is their own.
LEMMA FoundTaken ==
    ASSUME DistinctNames, BaseInv, NEW p \in InGame
    PROVE  Found(Taken(p)) = IF p \in links /\ users[p] # Off THEN {p} ELSE {}
  <1>1. CASE p \in links
    <2>1. Taken(p).hash = p /\ p \in Person /\ p # Nobody
      BY <1>1, TakenFacts
    <2>2. \A q \in Person : q = p \/ MumbleName[q] = RowMumbleName[p] <=> q = p
      BY <2>1 DEF DistinctNames, Unshared, Shown, RowNames
    <2> QED BY <1>1, <2>1, <2>2 DEF Found
  <1>2. CASE p \notin links
    BY <1>2, TakenFacts DEF Found
  <1> QED BY <1>1, <1>2

\* The matrix of the players is what everyone should hear.
LEMMA MatrixTaken ==
    ASSUME BaseInv, players = TakenPlayers, NEW last \in LastOf(players)
    PROVE  AudioMatrix(players, last) =
        UNION {{[listener |-> l, speaker |-> k, gain |-> Gain(Distance(place[l], place[k])),
                 pan |-> Pan(place[l], place[k])] : k \in {q \in Talkers : InRange(l, q)}} :
               l \in Talkers}
  <1> DEFINE row(l, k) == [listener |-> l, speaker |-> k,
                           gain |-> Gain(Distance(place[l], place[k])),
                           pan |-> Pan(place[l], place[k])]
  <1>1. Talkers = {p \in InGame : p \in links}
    BY DEF Talkers, InGame, BaseInv, TickTypeOK
  <1>2. ASSUME NEW p \in Talkers
        PROVE  Taken(p) \in Present(players) /\ Taken(p).hash = p
    BY <1>1, TakenFacts DEF Present, TakenPlayers
  <1>3. ASSUME NEW r \in Present(players) PROVE r.hash \in Talkers /\ r = Taken(r.hash)
    <2>1. PICK p \in InGame : r = Taken(p)
      BY DEF Present, TakenPlayers
    <2>2. r.hash # Nobody
      BY DEF Present
    <2>3. r.hash = p /\ p \in links
      BY <2>1, <2>2, TakenFacts
    <2> QED BY <1>1, <2>1, <2>3
  <1>4. DOMAIN last = Talkers
    BY <1>2, <1>3 DEF LastOf
  <1>5. ASSUME NEW l \in Talkers PROVE last[l] = Taken(l)
    <2>1. last[l] \in Present(players) /\ last[l].hash = l
      BY <1>4 DEF LastOf
    <2> QED BY <1>3, <2>1
  <1>6. ASSUME NEW l \in Talkers, NEW k \in Talkers
        PROVE  /\ Hears(Taken(l), Taken(k)) <=> InRange(l, k)
               /\ State(Taken(l), Taken(k)) = row(l, k)
    BY <1>1, <1>2, TakenFacts DEF Hears, InRange, State
  <1>7. ASSUME NEW l \in Talkers
        PROVE  {State(last[l], s) : s \in {q \in Present(players) : Hears(last[l], q)}}
             = {row(l, k) : k \in {q \in Talkers : InRange(l, q)}}
    <2> DEFINE A == {State(last[l], s) : s \in {q \in Present(players) : Hears(last[l], q)}}
               B == {row(l, k) : k \in {q \in Talkers : InRange(l, q)}}
    <2> HIDE DEF row
    <2>1. ASSUME NEW s \in Present(players), Hears(last[l], s) PROVE State(last[l], s) \in B
      <3>1. s.hash \in Talkers /\ s = Taken(s.hash) /\ last[l] = Taken(l)
        BY <1>3, <1>5
      <3>2. InRange(l, s.hash) /\ State(last[l], s) = row(l, s.hash)
        BY <1>6, <2>1, <3>1
      <3> QED BY <3>1, <3>2
    <2>2. ASSUME NEW k \in Talkers, InRange(l, k) PROVE row(l, k) \in A
      <3>1. Taken(k) \in Present(players) /\ last[l] = Taken(l)
        BY <1>2, <1>5
      <3>2. Hears(last[l], Taken(k)) /\ State(last[l], Taken(k)) = row(l, k)
        BY <1>6, <2>2, <3>1
      <3> QED BY <3>1, <3>2
    <2> QED BY <2>1, <2>2
  <1> HIDE DEF row
  <1>8. AudioMatrix(players, last) =
            UNION {{row(l, k) : k \in {q \in Talkers : InRange(l, q)}} : l \in Talkers}
    BY <1>4, <1>7 DEF AudioMatrix
  <1> QED BY <1>8 DEF row

--------------------------------------------------------------------------------
(***************************************************************************)
(* The steps of a quiet time.  The log may be written and replaced in it.  *)
(***************************************************************************)
Undisturbed == Tick \/ LogWritten

\* A moved user is one whose player the tick has come to, and goes to their cell.
LEMMA MoveTaken ==
    ASSUME DistinctNames, BaseInv, Agree, NEW pl \in queue, NEW q \in Person,
           SetState(pl, q)
    PROVE  q \in Talkers /\ pl = Taken(q) /\ Target(pl) = Cell(place[q])
  <1>1. at = "move" /\ players = TakenPlayers /\ pl \in players /\ q \in Found(pl)
    BY DEF SetState, IsNext, Misplaced, Agree, BaseInv, TickTypeOK
  <1>2. PICK p \in InGame : pl = Taken(p)
    BY <1>1 DEF TakenPlayers
  <1>3. p = q /\ p \in links
    BY <1>1, <1>2, FoundTaken
  <1> QED BY <1>1, <1>2, <1>3, TargetTaken DEF InGame, Talkers

\* Whoever is skipped is in their channel already, or not in Mumble.
LEMMA SkipTaken ==
    ASSUME DistinctNames, BaseInv, Agree, NEW pl \in queue, Skip(pl), pl.hash # Nobody
    PROVE  channel[pl.hash] \in {Off, Cell(place[pl.hash])}
  <1>1. at = "move" /\ players = TakenPlayers /\ pl \in players /\ users = channel
    BY DEF Skip, IsNext, Agree, BaseInv, TickTypeOK
  <1>2. PICK p \in InGame : pl = Taken(p)
    BY <1>1 DEF TakenPlayers
  <1>3. p \in links /\ pl.hash = p
    BY <1>2, TakenFacts
  <1>4. Found(pl) = IF users[p] # Off THEN {p} ELSE {}
    BY <1>2, <1>3, FoundTaken
  <1>5. Target(pl) = Cell(place[p])
    BY <1>1, <1>2, TargetTaken
  <1>6. CASE users[p] = Off
    BY <1>1, <1>3, <1>6
  <1>7. CASE users[p] # Off
    <2>1. Found(pl) = {p}
      BY <1>4, <1>7
    <2>2. p \notin Misplaced(pl)
      BY <2>1 DEF Skip
    <2> QED BY <1>1, <1>3, <1>5, <2>1, <2>2 DEF Misplaced
  <1> QED BY <1>6, <1>7

\* setState does not fail, for nobody has left.
LEMMA NothingFails ==
    ASSUME Agree, NEW pl \in queue, NEW q \in Person PROVE ~SetStateFails(pl, q)
  BY DEF SetStateFails, IsNext, Agree

\* Every such step keeps the tick in agreement with the world.
LEMMA AgreeStep ==
    ASSUME DistinctNames, BaseInv, Agree, [Undisturbed]_vars
    PROVE  Agree'
  <1>1. CASE UNCHANGED vars
    BY <1>1 DEF vars, tick, world, Agree, Sighted, Taken, TakenPlayers, InGame
  <1>2. CASE LogWritten
    BY <1>2 DEF LogWritten, tick, world, Agree, Sighted, Taken, TakenPlayers, InGame
  <1>3. CASE Fetch
    <2>1. CASE PlayerList(ListReplies(InGame))
      BY <2>1 DEF PlayerList, ListReplies, world, Agree, InGame
    <2>2. CASE PlayerData(DataReplies(InGame, place))
      <3>1. /\ at = "data" /\ at' = "poll" /\ place' = place
            /\ players' = Merge(players, Located(InGame, place))
        BY <2>2 DEF PlayerData, DataReplies, world
      <3>2. players = Listed(InGame) /\ InGame \in SUBSET Person
        BY <3>1 DEF Agree, InGame
      <3>3. players' = {Sighted(p, place) : p \in InGame}
        BY <3>1, <3>2, MergeWhole
      <3> QED BY <3>1, <3>3 DEF Agree, InGame, Sighted
    <2> QED BY <1>3, <2>1, <2>2 DEF Fetch
  <1>4. CASE PollChat
    <2>1. at = "poll" /\ at' \in {"poll", "load"} /\ UNCHANGED <<players, place>>
      BY <1>4 DEF PollChat, world
    <2> QED BY <2>1 DEF Agree, Sighted, InGame
  <1>5. CASE Identify
    <2>1. at = "load" /\ at' = "sync" /\ UNCHANGED <<place, links>> /\ links \in SUBSET Person
      BY <1>5 DEF Identify, world, BaseInv, TickTypeOK
    <2>2. PICK byName \in ByName(links) :
              players' = {Resolved(pl, links, byName) : pl \in players}
      BY <1>5 DEF Identify
    <2>3. players = {Sighted(p, place) : p \in InGame}
      BY <2>1 DEF Agree
    <2>4. \A p \in InGame : Resolved(Sighted(p, place), links, byName) = Taken(p)
      BY <2>1, ResolvedWhole DEF InGame, Taken
    <2>5. players' = TakenPlayers
      BY <2>2, <2>3, <2>4 DEF TakenPlayers
    <2>6. TakenPlayers' = TakenPlayers
      BY <2>1 DEF TakenPlayers, Taken, InGame
    <2> QED BY <2>1, <2>5, <2>6 DEF Agree
  <1>6. CASE GetUsers
    <2>1. /\ at = "sync" /\ at' = "move" /\ users' = channel /\ left' = {} /\ queue' = players
          /\ UNCHANGED <<players, place, channel, links>>
      BY <1>6 DEF GetUsers, world
    <2>2. TakenPlayers' = TakenPlayers
      BY <2>1 DEF TakenPlayers, Taken, InGame
    <2> QED BY <2>1, <2>2 DEF Agree
  <1>7. ASSUME NEW pl \in queue, Skip(pl) PROVE Agree'
    <2>1. /\ at = "move" /\ queue' = queue \ {pl}
          /\ UNCHANGED <<at, players, users, left, place, channel, links>>
      BY <1>7 DEF Skip, IsNext, world
    <2>2. TakenPlayers' = TakenPlayers
      BY <2>1 DEF TakenPlayers, Taken, InGame
    <2>3. pl.hash # Nobody => channel[pl.hash] \in {Off, Cell(place[pl.hash])}
      BY <1>7, SkipTaken
    <2> QED BY <2>1, <2>2, <2>3 DEF Agree
  <1>8. ASSUME NEW pl \in queue, NEW q \in Person, SetState(pl, q) PROVE Agree'
    <2>1. /\ at = "move" /\ queue' = queue \ {pl}
          /\ users' = [users EXCEPT ![q] = Target(pl)]
          /\ channel' = [channel EXCEPT ![q] = Target(pl)]
          /\ UNCHANGED <<at, players, left, place, links>>
      BY <1>8 DEF SetState, IsNext
    <2>2. TakenPlayers' = TakenPlayers
      BY <2>1 DEF TakenPlayers, Taken, InGame
    <2>3. q \in Talkers /\ pl = Taken(q) /\ Target(pl) = Cell(place[q])
      BY <1>8, MoveTaken
    <2>4. channel \in [Person -> Channels] /\ players = TakenPlayers
      BY <2>1 DEF BaseInv, TickTypeOK, Agree
    <2>5. pl.hash = q
      BY <2>3, TakenFacts DEF Talkers, InGame, BaseInv, TickTypeOK
    <2>6. \A r \in players \ queue' :
              r.hash # Nobody => channel'[r.hash] \in {Off, Cell(place[r.hash])}
      <3> SUFFICES ASSUME NEW r \in players \ queue', r.hash # Nobody
                   PROVE  channel'[r.hash] \in {Off, Cell(place[r.hash])}
        OBVIOUS
      <3>1. r.hash \in Person
        BY <2>1 DEF BaseInv, TickTypeOK, Known
      <3>2. CASE r.hash = q
        BY <2>1, <2>3, <2>4, <3>1, <3>2
      <3>3. CASE r.hash # q
        BY <2>1, <2>4, <2>5, <3>1, <3>3 DEF Agree
      <3> QED BY <3>2, <3>3
    <2>7. users' = channel' /\ left' = {}
      BY <2>1 DEF Agree
    <2> QED BY <2>1, <2>2, <2>4, <2>6, <2>7 DEF Agree
  <1>9. CASE Publish \/ Restart
    BY <1>9 DEF Publish, Restart, Agree
  <1> QED BY <1>1, <1>2, <1>3, <1>4, <1>5, <1>6, <1>7, <1>8, <1>9, NothingFails
      DEF Undisturbed, Tick

\* A matrix published in a quiet time settles everyone,
LEMMA PublishSettles ==
    ASSUME DistinctNames, BaseInv, Agree, Publish
    PROVE  Settled'
  <1>1. at = "move" /\ queue = {} /\ players = TakenPlayers /\ UNCHANGED <<place, channel, links>>
    BY DEF Publish, Agree, world
  <1>2. PICK last \in LastOf(players) : heard' = AudioMatrix(players, last)
    BY DEF Publish
  <1>3. ASSUME NEW p \in Talkers PROVE channel[p] \in {Off, Cell(place[p])}
    <2>1. p \in InGame /\ p \in links
      BY DEF Talkers, InGame, BaseInv, TickTypeOK
    <2>2. Taken(p) \in players \ queue /\ Taken(p).hash = p /\ p # Nobody
      BY <1>1, <2>1, TakenFacts DEF TakenPlayers
    <2> QED BY <1>1, <2>2 DEF Agree
  <1>4. Talkers' = Talkers
    BY <1>1 DEF Talkers
  <1>5. heard' =
        UNION {{[listener |-> l, speaker |-> k, gain |-> Gain(Distance(place[l], place[k])),
                 pan |-> Pan(place[l], place[k])] : k \in {q \in Talkers : InRange(l, q)}} :
               l \in Talkers}
    BY <1>1, <1>2, MatrixTaken
  <1> QED BY <1>1, <1>3, <1>4, <1>5 DEF Settled, InRange

\* and no step of a quiet time moves them away or changes what they hear.
LEMMA SettledStays ==
    ASSUME DistinctNames, BaseInv, Agree, Settled, [Undisturbed]_vars
    PROVE  Settled'
  <1>1. UNCHANGED <<place, links>> /\ Talkers' = Talkers
    BY NothingFails DEF Undisturbed, vars, world, LogWritten, Tick, Fetch, PlayerList,
       PlayerData, PollChat, Identify, GetUsers, Skip, SetState, Publish, Restart, Talkers
  <1>2. CASE Publish
    BY <1>2, PublishSettles
  <1>3. ASSUME NEW pl \in queue, NEW q \in Person, SetState(pl, q) PROVE Settled'
    <2>1. channel' = [channel EXCEPT ![q] = Target(pl)] /\ UNCHANGED heard
      BY <1>3 DEF SetState
    <2>2. Target(pl) = Cell(place[q]) /\ channel \in [Person -> Channels]
      BY <1>3, MoveTaken DEF BaseInv, TickTypeOK
    <2>3. \A p \in Talkers : channel'[p] \in {Off, Cell(place[p])}
      BY <2>1, <2>2 DEF Settled
    <2> QED BY <1>1, <2>1, <2>3 DEF Settled, InRange
  <1>4. CASE UNCHANGED <<heard, channel>>
    BY <1>1, <1>4 DEF Settled, InRange
  <1>5. \/ Publish \/ UNCHANGED <<heard, channel>>
        \/ \E pl \in queue, q \in Person : SetState(pl, q)
    BY NothingFails DEF Undisturbed, vars, tick, world, LogWritten, Tick, Fetch, PlayerList,
       PlayerData, PollChat, Identify, GetUsers, Skip, Restart
  <1> QED BY <1>2, <1>3, <1>4, <1>5

\* The world and the bridge are left alone, from the beginning of a tick on, or
\* from the end of the bridge.
Quiet == at \in {"list", "down"} /\ [][Undisturbed]_vars

\* Whenever the world becomes quiet, the next matrix that is published finds
\* everyone who is linked, in the game and in Mumble in the channel of their
\* cell, and tells them exactly whom they should hear; and so it stays
\* (bridge.py 48-76, mumble.py 94-105, proximity.py 50-67).
THEOREM QuietTicksSettle ==
    ASSUME DistinctNames
    PROVE  Spec => [](Quiet => [][Publish \/ Settled => Settled']_vars)
  <1>1. BaseInv /\ at \in {"list", "down"} => Agree
    BY DEF Agree
  <1>2. BaseInv /\ Agree /\ [Undisturbed]_vars => Agree'
    BY AgreeStep
  <1>3. BaseInv /\ Agree /\ [Undisturbed]_vars => [Publish \/ Settled => Settled']_vars
    BY PublishSettles, SettledStays
  <1> QED BY <1>1, <1>2, <1>3, BaseCorrect, PTL DEF Quiet
================================================================================
