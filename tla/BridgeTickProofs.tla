--------------------------- MODULE BridgeTickProofs ---------------------------
(***************************************************************************)
(* What a tick keeps, for any people, names, places and settings.          *)
(***************************************************************************)
EXTENDS BridgeTick, GameLogProofs, ProximityProofs

\* No name under which anyone may show up is in someone else's row.
DistinctNames == \A p \in Person : Unshared(p)

--------------------------------------------------------------------------------
(***************************************************************************)
(* The game's log within the tick.                                         *)
(***************************************************************************)
\* Every step is one of GameLog or leaves its variables alone.
LEMMA LogStep == [Next]_vars => [LogNext]_logVars
  <1> SUFFICES ASSUME Next PROVE [LogNext]_logVars
    BY DEF vars
  <1>1. CASE Tick
    BY <1>1 DEF Tick, Fetch, PlayerList, PlayerData, PollChat, Identify, GetUsers,
                Skip, SetState, SetStateFails, Down, Publish, Restart, LogNext
  <1>2. CASE CutReply \/ ChatUnread
    BY <1>2 DEF CutReply, PlayerList, PlayerData, ChatUnread, LogNext
  <1>3. CASE Ends
    BY <1>3 DEF Ends, Down, LogNext
  <1>4. CASE World
    BY <1>4 DEF World, Walk, Switch, LinkWritten, LogWritten, LogNext
  <1> QED BY <1>1, <1>2, <1>3, <1>4 DEF Next

\* The tick follows the log as GameLog says.
LEMMA TickFollowsLog == Spec => LogSpec
  <1>1. Init => LogInit
    BY DEF Init
  <1> QED BY <1>1, LogStep, PTL DEF Spec, LogSpec

\* Within the tick, too, a command is handled once and in its turn.
THEOREM TickHandlesOnce == Spec => []HandledOnce
  BY TickFollowsLog, EachCommandOnce, PTL

\* Within the tick, too, no command is passed over.
THEOREM TickPassesNothingOver == Spec => []NoLoss
  BY TickFollowsLog, NothingPassedOver, PTL

--------------------------------------------------------------------------------
(***************************************************************************)
(* The replies, cut or not, and the players made of them.                  *)
(***************************************************************************)
\* A player of a reply when the people of G were in the game, at these places.
FromGame(pl, G, spot) ==
    /\ pl \in Player
    /\ pl.id \in Person => pl.id \in G /\ pl.name \in ReadNames(pl.id) \cup {TornName}
    /\ pl.name \in Name => \E g \in G : pl.name \in ReadNames(g)
    /\ pl.pos # NoPos => pl.id \in Person /\ pl.pos = spot[pl.id]

\* Players with a position differ in their Steam ID.
OnePosition(S) ==
    \A a, b \in S : a.pos # NoPos /\ b.pos # NoPos /\ a.id = b.id => a = b

\* Players of the list differ in their Steam ID, unless it was cut.
OneId(S) == \A a, b \in S : a.id \in Person /\ a.id = b.id => a = b

\* The names a person may have in a reply are names.
LEMMA ReadNamesFacts ==
    ASSUME NEW p \in Person
    PROVE  /\ ReadNames(p) \subseteq Name
           /\ GameName[p] \in ReadNames(p) /\ LineName(p) \in ReadNames(p)
           /\ Cuts[GameName[p]] \subseteq ReadNames(p) /\ Cuts[LineName(p)] \subseteq ReadNames(p)
  <1>1. GameName[p] \in Name /\ LineName(p) \in Name
    BY RosterAssumption DEF LineName
  <1>2. Cuts[GameName[p]] \subseteq Name /\ Cuts[LineName(p)] \subseteq Name
    BY <1>1, RosterAssumption
  <1> QED BY <1>1, <1>2 DEF ReadNames

\* A cut reply has whole entries, and what became of one that is not whole.
LEMMA CutListFacts ==
    ASSUME NEW G
    PROVE  \A list \in CutListReplies(G) :
               \E b \in G : \E S \in SUBSET (G \ {b}), T \in CutPairs(b) : list = Listed(S) \cup T
  BY DEF CutListReplies

LEMMA CutDataFacts ==
    ASSUME NEW G, NEW spot
    PROVE  \A data \in CutDataReplies(G, spot) :
               \E b \in G : \E S \in SUBSET (G \ {b}), T \in CutLines(b) :
                   data = Located(S, spot) \cup T
  BY DEF CutDataReplies

\* Every reply to PlayerList lists people who are in the game, without places.
LEMMA ListFacts ==
    ASSUME NEW G \in SUBSET Person, NEW spot,
           NEW list \in ListReplies(G) \cup CutListReplies(G)
    PROVE  /\ \A l \in list : FromGame(l, G, spot) /\ l.pos = NoPos
           /\ OneId(list)
  <1>0. \A L \in CutListReplies(G) :
            \E b \in G : \E S \in SUBSET (G \ {b}), T \in CutPairs(b) : L = Listed(S) \cup T
    BY CutListFacts
  <1> USE RosterAssumption
  <1> DEFINE Names(g) == ReadNames(g) \cup {TornName}
  <1>1. ASSUME NEW g \in G, NEW n \in Names(g)
        PROVE  /\ FromGame(ListPlayer(g, n), G, spot)
               /\ FromGame(ListPlayer(TornId, n), G, spot)
    BY ReadNamesFacts DEF FromGame, ListPlayer, Player
  <1>2. PICK S \in SUBSET G, T \in SUBSET list :
            /\ list = Listed(S) \cup T
            /\ T = {} \/ \E b \in G \ S : T \in CutPairs(b)
    <2>1. CASE list \in ListReplies(G)
      <3>1. list = Listed(G) \cup {}
        BY <2>1 DEF ListReplies
      <3>2. G \in SUBSET G /\ {} \in SUBSET list
        OBVIOUS
      <3> QED BY <3>1, <3>2, Zenon
    <2>2. CASE list \in CutListReplies(G)
      <3>0. \E b \in G : \E S \in SUBSET (G \ {b}), T \in CutPairs(b) : list = Listed(S) \cup T
        BY <2>2, <1>0, Zenon
      <3>1. PICK b \in G :
                \E S \in SUBSET (G \ {b}), T \in CutPairs(b) : list = Listed(S) \cup T
        BY <3>0
      <3>2. PICK S \in SUBSET (G \ {b}), T \in CutPairs(b) : list = Listed(S) \cup T
        BY <3>1
      <3>3. S \in SUBSET G /\ b \in G \ S /\ T \in SUBSET list
        BY <3>2
      <3> QED BY <3>2, <3>3, Zenon
    <2> QED BY <2>1, <2>2
  <1>3. \A l \in Listed(S) : \E g \in S : l = ListPlayer(g, GameName[g])
    BY DEF Listed
  <1>4. \A l \in T : \E b \in G \ S : \E n \in Names(b) :
            /\ l = ListPlayer(b, n) \/ l = ListPlayer(TornId, n)
            /\ l.id \in Person => T = {l}
    <2>1. CASE T = {}
      BY <2>1
    <2>2. ASSUME NEW b \in G \ S, T \in CutPairs(b), T # {}, NEW l \in T
          PROVE  \E n \in Names(b) :
                    /\ l = ListPlayer(b, n) \/ l = ListPlayer(TornId, n)
                    /\ l.id \in Person => T = {l}
      <3>1. CASE \E n \in Cuts[GameName[b]] \cup {TornName} : T = {ListPlayer(b, n)}
        BY <2>2, <3>1, ReadNamesFacts
      <3>2. CASE T = {ListPlayer(TornId, TornName), ListPlayer(TornId, GameName[b])}
        <4>1. l.id = TornId
          BY <2>2, <3>2 DEF ListPlayer
        <4> QED BY <2>2, <3>2, <4>1, ReadNamesFacts
      <3> QED BY <2>2, <3>1, <3>2 DEF CutPairs
    <2> QED BY <1>2, <2>1, <2>2
  <1>5. ASSUME NEW l \in list PROVE FromGame(l, G, spot) /\ l.pos = NoPos
    <2>1. CASE l \in Listed(S)
      <3>1. PICK g \in S : l = ListPlayer(g, GameName[g])
        BY <1>3, <2>1
      <3>0. GameName[g] \in Names(g)
        BY ReadNamesFacts
      <3>2. l.pos = NoPos
        BY <3>1 DEF ListPlayer
      <3> QED BY <1>1, <3>0, <3>1, <3>2
    <2>2. CASE l \in T
      <3>0. PICK b \in G \ S : \E n \in Names(b) :
                l = ListPlayer(b, n) \/ l = ListPlayer(TornId, n)
        BY <1>4, <2>2
      <3>1. PICK n \in Names(b) : l = ListPlayer(b, n) \/ l = ListPlayer(TornId, n)
        BY <3>0
      <3>2. l.pos = NoPos
        BY <3>1 DEF ListPlayer
      <3> QED BY <1>1, <3>1, <3>2
    <2> QED BY <1>2, <2>1, <2>2
  <1>6. OneId(list)
    <2> SUFFICES ASSUME NEW a \in list, NEW b \in list, a.id \in Person, a.id = b.id
                 PROVE a = b
      BY DEF OneId
    <2>1. \A l \in Listed(S) : l.id \in S /\ l = ListPlayer(l.id, GameName[l.id])
      BY <1>3 DEF ListPlayer
    <2>2. \A l \in T : l.id \in Person => l.id \notin S /\ T = {l}
      BY <1>4 DEF ListPlayer
    <2> QED BY <1>2, <2>1, <2>2
  <1> QED BY <1>5, <1>6

\* Every reply to PlayerData has people who are in the game, where they are.
LEMMA DataFacts ==
    ASSUME NEW G \in SUBSET Person, NEW spot, \A g \in G : spot[g] \in Int,
           NEW data \in DataReplies(G, spot) \cup CutDataReplies(G, spot)
    PROVE  (\A d \in data : FromGame(d, G, spot)) /\ OnePosition(data)
  <1>0. \A D \in CutDataReplies(G, spot) :
            \E b \in G : \E S \in SUBSET (G \ {b}), T \in CutLines(b) : D = Located(S, spot) \cup T
    BY CutDataFacts
  <1> USE RosterAssumption
  <1> DEFINE Full(g) == [id |-> g, name |-> LineName(g), pos |-> spot[g], rank |-> 1]
             Names(g) == ReadNames(g) \cup {TornName}
  <1>1. ASSUME NEW g \in G
        PROVE  /\ FromGame(Full(g), G, spot)
               /\ \A n \in Names(g), id \in {NoId, TornId, g} : FromGame(TornLine(id, n), G, spot)
    <2>1. FromGame(Full(g), G, spot)
      BY ReadNamesFacts DEF FromGame, Player
    <2>2. ASSUME NEW n \in Names(g), NEW id \in {NoId, TornId, g}
          PROVE  FromGame(TornLine(id, n), G, spot)
      BY ReadNamesFacts DEF FromGame, TornLine, Player
    <2> QED BY <2>1, <2>2
  <1>2. PICK S \in SUBSET G, T \in SUBSET data :
            /\ data = Located(S, spot) \cup T
            /\ T = {} \/ \E b \in G : T \in CutLines(b)
    <2>1. CASE data \in DataReplies(G, spot)
      <3>1. data = Located(G, spot) \cup {}
        BY <2>1 DEF DataReplies
      <3>2. G \in SUBSET G /\ {} \in SUBSET data
        OBVIOUS
      <3> QED BY <3>1, <3>2, Zenon
    <2>2. CASE data \in CutDataReplies(G, spot)
      <3>0. \E b \in G : \E S \in SUBSET (G \ {b}), T \in CutLines(b) :
                data = Located(S, spot) \cup T
        BY <2>2, <1>0, Zenon
      <3>1. PICK b \in G :
                \E S \in SUBSET (G \ {b}), T \in CutLines(b) : data = Located(S, spot) \cup T
        BY <3>0
      <3>2. PICK S \in SUBSET (G \ {b}), T \in CutLines(b) : data = Located(S, spot) \cup T
        BY <3>1
      <3>3. S \in SUBSET G /\ T \in SUBSET data
        BY <3>2
      <3> QED BY <3>2, <3>3, Zenon
    <2> QED BY <2>1, <2>2
  <1>3. \A d \in Located(S, spot) : \E g \in S : d = Full(g)
    BY DEF Located
  <1>4. \A d \in T : \E b \in G : \E n \in Names(b), id \in {NoId, TornId, b} :
            d = TornLine(id, n)
    <2>1. ASSUME NEW b \in G, T \in CutLines(b), NEW d \in T
          PROVE  \E n \in Names(b), id \in {NoId, TornId, b} : d = TornLine(id, n)
      BY <2>1, ReadNamesFacts DEF CutLines
    <2> QED BY <1>2, <2>1
  <1>5. \A d \in data : FromGame(d, G, spot)
    <2> HIDE DEF Full
    <2> QED BY <1>1, <1>2, <1>3, <1>4
  <1>6. \A d \in data : d.pos # NoPos => d = Full(d.id)
    <2>1. \A d \in T : d.pos = NoPos
      BY <1>4 DEF TornLine
    <2> QED BY <1>2, <1>3, <2>1
  <1>7. OnePosition(data)
    <2> HIDE DEF Full
    <2> QED BY <1>6 DEF OnePosition
  <1> QED BY <1>5, <1>7

\* Merging the two keeps that: whoever has a position has a whole Steam ID, and
\* was there.
LEMMA MergeFacts ==
    ASSUME NEW G1 \in SUBSET Person, NEW G2 \in SUBSET Person,
           NEW spot, NEW list, NEW data,
           \A l \in list : FromGame(l, G1, spot) /\ l.pos = NoPos,
           OneId(list),
           \A d \in data : FromGame(d, G2, spot),
           OnePosition(data)
    PROVE  /\ \A m \in Merge(list, data) : FromGame(m, G1 \cup G2, spot)
           /\ OnePosition(Merge(list, data))
  <1> USE RosterAssumption
  <1> DEFINE Spot(l) == IF \E d \in data : d.id = l.id /\ d.id \in Person
                        THEN (CHOOSE d \in data : d.id = l.id).pos
                        ELSE NoPos
             Merged(l) == [l EXCEPT !.pos = Spot(l)]
  <1>1. ASSUME NEW l \in list
        PROVE  /\ Spot(l) \in Int \cup {NoPos}
               /\ Spot(l) # NoPos => l.id \in Person /\ Spot(l) = spot[l.id]
    <2>1. CASE \E d \in data : d.id = l.id /\ d.id \in Person
      <3>1. PICK d \in data : d = CHOOSE e \in data : e.id = l.id
        BY <2>1
      <3>2. d.id = l.id /\ l.id \in Person /\ Spot(l) = d.pos
        BY <2>1, <3>1
      <3>3. FromGame(d, G2, spot)
        OBVIOUS
      <3> QED BY <3>2, <3>3 DEF FromGame, Player
    <2>2. CASE ~ \E d \in data : d.id = l.id /\ d.id \in Person
      BY <2>2
    <2> QED BY <2>1, <2>2
  <1>2. ASSUME NEW l \in list
        PROVE  /\ Merged(l) = [id |-> l.id, name |-> l.name, pos |-> Spot(l), rank |-> l.rank]
               /\ FromGame(Merged(l), G1 \cup G2, spot)
    <2> HIDE DEF Spot
    <2>1. l \in Player /\ FromGame(l, G1, spot)
      BY DEF FromGame
    <2>2. Merged(l) = [id |-> l.id, name |-> l.name, pos |-> Spot(l), rank |-> l.rank]
      BY <2>1 DEF Player
    <2> HIDE DEF Merged
    <2>3. Merged(l) \in Player
      BY <1>1, <2>1, <2>2 DEF Player
    <2> QED BY <1>1, <2>1, <2>2, <2>3 DEF FromGame
  <1>3. Merge(list, data) = {Merged(l) : l \in list}
            \cup {d \in data : d.id \notin Person \/ \A l \in list : l.id # d.id}
    BY DEF Merge
  <1> HIDE DEF Merged, Spot
  <1>4. \A d \in data : FromGame(d, G1 \cup G2, spot)
    BY DEF FromGame
  <1>5. \A m \in Merge(list, data) : FromGame(m, G1 \cup G2, spot)
    <2>1. ASSUME NEW m \in {Merged(l) : l \in list} PROVE FromGame(m, G1 \cup G2, spot)
      <3>1. PICK l \in list : m = Merged(l)
        OBVIOUS
      <3> QED BY <1>2, <3>1, Zenon
    <2> QED BY <1>3, <1>4, <2>1, Zenon
  <1>6. OnePosition(Merge(list, data))
    <2> SUFFICES ASSUME NEW a \in Merge(list, data), NEW b \in Merge(list, data),
                        a.pos # NoPos, b.pos # NoPos, a.id = b.id
                 PROVE  a = b
      BY DEF OnePosition
    <2>1. a.id \in Person
      BY <1>5 DEF FromGame
    <2>2. CASE a \in data /\ b \in data
      BY <2>2 DEF OnePosition
    <2>3. CASE \E l \in list, k \in list : a = Merged(l) /\ b = Merged(k)
      <3>1. PICK l \in list, k \in list : a = Merged(l) /\ b = Merged(k)
        BY <2>3
      <3>2. l.id = a.id /\ k.id = b.id
        BY <1>2, <3>1
      <3>3. l = k
        BY <2>1, <3>2 DEF OneId
      <3> QED BY <3>1, <3>3
    <2>4. ASSUME NEW l \in list, NEW c \in {a, b}, NEW d \in {a, b}, c = Merged(l),
                 \A k \in list : k.id # d.id
          PROVE  FALSE
      <3>1. l.id = c.id
        BY <1>2, <2>4
      <3> QED BY <2>4, <3>1
    <2> QED BY <1>3, <2>1, <2>2, <2>3, <2>4
  <1> QED BY <1>5, <1>6

\* Whatever byName finds, a player keeps their position, and a whole Steam ID.
LEMMA ResolvedFacts ==
    ASSUME NEW L \in SUBSET Person, NEW byName \in ByName(L), NEW pl \in Player
    PROVE  /\ Resolved(pl, L, byName) \in Known
           /\ Resolved(pl, L, byName).pos = pl.pos
           /\ Resolved(pl, L, byName).hash \in L \cup {Nobody}
           /\ pl.id \in Person => Resolved(pl, L, byName).key = pl.id
  <1> USE RosterAssumption
  <1> DEFINE p == Owner(pl, L, byName)
             k == IF pl.id # NoId THEN pl.id ELSE IF p # Nobody THEN p ELSE NoId
  <1>1. Resolved(pl, L, byName) = [hash |-> p, key |-> k, pos |-> pl.pos, rank |-> pl.rank]
    BY DEF Resolved
  <1>2. p \in L \cup {Nobody}
    BY DEF Owner, ByName, Player
  <1>3. k \in Person \cup {TornId, NoId} /\ (pl.id \in Person => k = pl.id)
    <2> HIDE DEF p
    <2> QED BY <1>2 DEF Player
  <1>4. pl.pos \in Int \cup {NoPos} /\ pl.rank \in 0 .. 2
    BY DEF Player
  <1> HIDE DEF p, k
  <1> QED BY <1>1, <1>2, <1>3, <1>4 DEF Known

\* Who shares no name is taken for a player of theirs only, whom the game named,
\* and their player is taken for nobody else.
LEMMA OwnerFacts ==
    ASSUME NEW L \in SUBSET Person, NEW byName \in ByName(L),
           NEW G \in SUBSET Person, NEW spot, NEW pl, FromGame(pl, G, spot)
    PROVE  LET r == Resolved(pl, L, byName) IN
           /\ r.hash # Nobody /\ Unshared(r.hash) =>
                r.hash \in G /\ (r.key \in Person => r.key = r.hash)
           /\ r.key \in Person /\ Unshared(r.key) => r.hash \in {r.key, Nobody}
  <1> USE RosterAssumption
  <1> DEFINE p == Owner(pl, L, byName)
             k == IF pl.id # NoId THEN pl.id ELSE IF p # Nobody THEN p ELSE NoId
  <1>1. Resolved(pl, L, byName).hash = p /\ Resolved(pl, L, byName).key = k
    BY DEF Resolved
  <1>2. CASE pl.id \in L
    BY <1>1, <1>2 DEF Owner, FromGame
  <1>3. CASE pl.id \notin L /\ p = Nobody
    BY <1>1, <1>3
  <1>4. CASE pl.id \notin L /\ p # Nobody
    <2>1. p = byName[pl.name]
      BY <1>4 DEF Owner
    <2>2. pl.name \in Name \cup {TornName}
      BY DEF FromGame, Player
    <2>3. p \in L /\ pl.name \in RowNames(p)
      BY <1>4, <2>1, <2>2 DEF ByName
    <2>4. pl.name \in Name
      BY <2>3 DEF RowNames
    <2>5. PICK g \in G : pl.name \in ReadNames(g)
      BY <2>4 DEF FromGame
    <2>6. Unshared(p) => p = g
      BY <2>3, <2>5 DEF Unshared, Shown
    <2>7. pl.id \in Person => pl.name \in ReadNames(pl.id)
      BY <2>4 DEF FromGame
    <2>8. pl.id \in Person => ~Unshared(p) /\ ~Unshared(pl.id)
      BY <1>4, <2>3, <2>7 DEF Unshared, Shown
    <2>9. pl.id \in Person \cup {TornId, NoId}
      BY DEF FromGame, Player
    <2>10. k = pl.id \/ k = p
      BY <1>4
    <2> HIDE DEF p
    <2> QED BY <1>1, <1>4, <2>6, <2>8, <2>9, <2>10
  <1> QED BY <1>2, <1>3, <1>4

\* The channel a player is assigned is that of a player with their key.
LEMMA AssignedFacts ==
    ASSUME NEW S \in SUBSET Known, NEW pl \in S
    PROVE  \E q \in S : q.key = pl.key /\ Assigned(S, pl.key) = Channel(q.pos)
  <1> DEFINE P == {q \in S : q.key = pl.key}
             Last(m) == m \in P /\ \A q \in P : q.rank <= m.rank
  <1>1. pl \in P /\ \A q \in P : q.rank \in 0 .. 2
    BY DEF Known
  <1>2. \E m \in P : Last(m)
    <2>1. CASE \E m \in P : m.rank = 2
      BY <1>1, <2>1
    <2>2. CASE (\A q \in P : q.rank # 2) /\ \E m \in P : m.rank = 1
      <3>1. \A q \in P : q.rank <= 1
        BY <1>1, <2>2
      <3> QED BY <2>2, <3>1
    <2>3. CASE \A q \in P : q.rank # 2 /\ q.rank # 1
      <3>1. \A q \in P : q.rank = 0
        BY <1>1, <2>3
      <3> QED BY <1>1, <3>1
    <2> QED BY <2>1, <2>2, <2>3
  <1>3. PICK q \in P : q = CHOOSE m \in P : \A r \in P : r.rank <= m.rank
    BY <1>2
  <1>4. Assigned(S, pl.key) = Channel(q.pos)
    BY <1>3 DEF Assigned
  <1> QED BY <1>3, <1>4

--------------------------------------------------------------------------------
(***************************************************************************)
(* The inductive invariant: a player with a position has a whole Steam ID, *)
(* is there only once, and was at that position.                           *)
(***************************************************************************)
Placed(pl) == pl.pos # NoPos => pl.key \in Person /\ pl.pos = seen[pl.key]
OneKey(S) == \A a, b \in S : a.pos # NoPos /\ b.pos # NoPos /\ a.key = b.key => a = b

\* From the first reply to the second, to the identity map, and then to the end.
RowsInv ==
    /\ at = "data" =>
        OneId(players) /\ \A pl \in players : FromGame(pl, met, seen) /\ pl.pos = NoPos
    /\ at \in {"poll", "load"} =>
        OnePosition(players) /\ \A pl \in players : FromGame(pl, met, seen)
    /\ at \in {"sync", "move"} =>
        OneKey(players) /\ \A pl \in players : Placed(pl)

QueueInv == at # "move" => queue = {}

BaseInv == LogInv /\ TickTypeOK /\ QueueInv /\ RowsInv

\* The invariant holds of a bridge that has just started.
LEMMA BaseInit == Init => BaseInv
  <1> SUFFICES ASSUME Init PROVE BaseInv
    OBVIOUS
  <1>1. LogInv
    BY InitInv DEF Init
  <1>2. TickTypeOK
    BY TickAssumption DEF Init, TickTypeOK, TickStates, Channels, Nowhere
  <1> QED BY <1>1, <1>2 DEF Init, BaseInv, QueueInv, RowsInv

\* Where the target of a player of the list is.
LEMMA TargetFacts ==
    ASSUME BaseInv, at = "move", NEW pl \in players
    PROVE  /\ Target(pl) \in Channels
           /\ Target(pl) # Lobby =>
                pl.key \in Person /\ seen[pl.key] # Away /\ Target(pl) = Cell(seen[pl.key])
  <1>1. players \in SUBSET Known /\ seen \in [Person -> Place \cup {Away}]
    BY DEF BaseInv, TickTypeOK
  <1>2. PICK q \in players : q.key = pl.key /\ Target(pl) = Channel(q.pos)
    BY <1>1, AssignedFacts DEF Target
  <1>3. Placed(q) /\ q.pos \in Int \cup {NoPos}
    BY <1>1 DEF BaseInv, RowsInv, Known
  <1>4. CASE q.pos = NoPos
    BY <1>2, <1>4 DEF Channel, Channels
  <1>5. CASE q.pos # NoPos
    <2>1. pl.key \in Person /\ q.pos = seen[pl.key] /\ q.pos \in Int
      BY <1>2, <1>3, <1>5 DEF Placed
    <2>2. seen[pl.key] \in Place /\ seen[pl.key] # Away
      BY <1>1, <2>1, TickAssumption
    <2> QED BY <1>2, <1>5, <2>1, <2>2 DEF Channel, Channels
  <1> QED BY <1>4, <1>5

\* The matrix has the types that are published.
LEMMA MatrixTypes ==
    ASSUME NEW S \in SUBSET Known, NEW last \in LastOf(S)
    PROVE  AudioMatrix(S, last) \subseteq
               [listener : Person, speaker : Person, gain : Int, pan : Int]
  <1> SUFFICES ASSUME NEW h \in DOMAIN last, NEW k \in Present(S)
               PROVE  State(last[h], k) \in
                         [listener : Person, speaker : Person, gain : Int, pan : Int]
    BY DEF AudioMatrix
  <1>1. last[h] \in Present(S)
    BY DEF LastOf
  <1>2. \A r \in Present(S) : r.hash \in Person /\ r.pos \in Int
    BY DEF Present, Known
  <1>3. Distance(last[h].pos, k.pos) \in Nat /\ Pan(last[h].pos, k.pos) \in Int
    <2>1. last[h].pos \in Int /\ k.pos \in Int
      BY <1>1, <1>2
    <2>2. Pan(last[h].pos, k.pos) \in -Width .. Width
      BY <2>1, PanIsOpposite
    <2>3. Pan(last[h].pos, k.pos) \in Int
      BY <2>2, UnitFacts
    <2>4. Distance(last[h].pos, k.pos) \in Nat
      BY <2>1, DistanceFacts
    <2> QED BY <2>3, <2>4
  <1>4. Gain(Distance(last[h].pos, k.pos)) \in Int
    BY <1>3, GainIsBounded, UnitFacts
  <1> QED BY <1>1, <1>2, <1>3, <1>4 DEF State

\* The world leaves the tick's list alone.
LEMMA BaseWorld == ASSUME BaseInv, World PROVE TickTypeOK' /\ QueueInv' /\ RowsInv'
  <1>1. TickTypeOK /\ QueueInv /\ RowsInv
    BY DEF BaseInv
  <1>2. UNCHANGED <<at, players, queue, users, seen, met, heard>>
    BY DEF World, Walk, Switch, LinkWritten, LogWritten, tick
  <1>3. QueueInv' /\ RowsInv'
    BY <1>1, <1>2 DEF QueueInv, RowsInv, FromGame, Placed
  <1>4. events' \in 0 .. MaxEvents
    BY <1>1, TickAssumption
    DEF World, Walk, Switch, LinkWritten, LogWritten, Event, Happens, TickTypeOK
  <1>5. /\ place' \in [Person -> Place \cup {Away}]
        /\ channel' \in [Person -> Channels]
        /\ links' \subseteq Person /\ left' \subseteq Person
    BY <1>1 DEF World, Walk, Switch, LinkWritten, LogWritten, TickTypeOK, Channels, world, tick
  <1> QED BY <1>1, <1>2, <1>3, <1>4, <1>5 DEF TickTypeOK

\* The end of a bridge, and the start of the next.
LEMMA BaseDown ==
    ASSUME BaseInv, Down, events' \in 0 .. MaxEvents
    PROVE  TickTypeOK' /\ QueueInv' /\ RowsInv'
  <1>1. /\ at' = "down" /\ players' = {} /\ queue' = {} /\ users' = Nowhere /\ left' = {}
        /\ seen' = [p \in Person |-> Away] /\ met' = {} /\ heard' = {}
        /\ UNCHANGED <<place, channel, links>>
    BY DEF Down, world
  <1>2. Nowhere \in [Person -> Channels]
    BY DEF Nowhere, Channels
  <1> QED BY <1>1, <1>2 DEF BaseInv, TickTypeOK, TickStates, QueueInv, RowsInv

\* The two replies.
LEMMA BaseReplies ==
    ASSUME BaseInv, Fetch \/ CutReply PROVE TickTypeOK' /\ QueueInv' /\ RowsInv'
  <1>1. TickTypeOK /\ QueueInv /\ RowsInv
    BY DEF BaseInv
  <1>2. events' \in 0 .. MaxEvents
    BY <1>1, TickAssumption DEF Fetch, CutReply, Event, Happens, TickTypeOK
  <1>3. InGame \in SUBSET Person /\ place \in [Person -> Place \cup {Away}]
    BY <1>1 DEF InGame, TickTypeOK
  <1>4. CASE \E replies \in {ListReplies(InGame), CutListReplies(InGame)} : PlayerList(replies)
    <2>1. /\ at = "list" /\ at' = "data" /\ met' = InGame
          /\ UNCHANGED <<queue, users, left, seen, heard, place, channel, links>>
          /\ players' \in ListReplies(InGame) \cup CutListReplies(InGame)
      BY <1>4 DEF PlayerList, world
    <2>2. /\ \A l \in players' : FromGame(l, InGame, seen) /\ l.pos = NoPos
          /\ OneId(players')
      BY <1>3, <2>1, ListFacts
    <2>3. players' \subseteq Player
      BY <2>2 DEF FromGame
    <2>4. RowsInv'
      BY <2>1, <2>2 DEF RowsInv, FromGame
    <2>5. queue = {} /\ QueueInv'
      BY <1>1, <2>1 DEF QueueInv
    <2> QED BY <1>1, <1>2, <1>3, <2>1, <2>3, <2>4, <2>5 DEF TickTypeOK, TickStates
  <1>5. CASE \E replies \in {DataReplies(InGame, place), CutDataReplies(InGame, place)} :
                PlayerData(replies)
    <2>1. /\ at = "data" /\ at' = "poll" /\ met' = met \cup InGame /\ seen' = place
          /\ UNCHANGED <<queue, users, left, heard, place, channel, links>>
      BY <1>5 DEF PlayerData, world
    <2>2. PICK data \in DataReplies(InGame, place) \cup CutDataReplies(InGame, place) :
              players' = Merge(players, data)
      BY <1>5 DEF PlayerData
    <2>3. \A g \in InGame : place[g] \in Int
      BY <1>3, TickAssumption DEF InGame
    <2>5. (\A d \in data : FromGame(d, InGame, place)) /\ OnePosition(data)
      BY <1>3, <2>2, <2>3, DataFacts
    <2>6. OneId(players) /\ \A pl \in players : FromGame(pl, met, seen) /\ pl.pos = NoPos
      BY <1>1, <2>1 DEF RowsInv
    <2>7. \A pl \in players : FromGame(pl, met, place) /\ pl.pos = NoPos
      BY <2>6 DEF FromGame
    <2>8. met \in SUBSET Person
      BY <1>1 DEF TickTypeOK
    <2>9. /\ \A m \in players' : FromGame(m, met \cup InGame, place)
          /\ OnePosition(players')
      BY <1>3, <2>2, <2>5, <2>6, <2>7, <2>8, MergeFacts
    <2>10. players' \subseteq Player
      BY <2>9 DEF FromGame
    <2>11. RowsInv'
      BY <2>1, <2>9 DEF RowsInv, FromGame
    <2>12. queue = {} /\ QueueInv'
      BY <1>1, <2>1 DEF QueueInv
    <2> QED
      BY <1>1, <1>2, <1>3, <2>1, <2>8, <2>10, <2>11, <2>12 DEF TickTypeOK, TickStates
  <1> QED BY <1>4, <1>5 DEF Fetch, CutReply

\* A log that cannot be read.
LEMMA BaseUnread == ASSUME BaseInv, ChatUnread PROVE TickTypeOK' /\ QueueInv' /\ RowsInv'
  <1>1. TickTypeOK /\ QueueInv /\ RowsInv
    BY DEF BaseInv
  <1>2. /\ at = "poll" /\ at' = "load"
        /\ UNCHANGED <<players, queue, users, left, seen, met, heard, place, channel, links>>
    BY DEF ChatUnread, world
  <1>3. events' \in 0 .. MaxEvents
    BY <1>1, TickAssumption DEF ChatUnread, Event, Happens, TickTypeOK
  <1>4. RowsInv' /\ QueueInv'
    BY <1>1, <1>2 DEF RowsInv, QueueInv, FromGame
  <1> QED BY <1>1, <1>2, <1>3, <1>4 DEF TickTypeOK, TickStates

\* The steps that follow the replies.
LEMMA BaseRest ==
    ASSUME BaseInv,
           \/ PollChat \/ Identify \/ GetUsers \/ Publish \/ Restart
           \/ \E pl \in queue : Skip(pl) \/ \E q \in Person : SetState(pl, q)
    PROVE  TickTypeOK' /\ QueueInv' /\ RowsInv'
  <1>1. TickTypeOK /\ QueueInv /\ RowsInv
    BY DEF BaseInv
  <1>2. CASE PollChat
    <2>1. /\ at = "poll" /\ at' \in {"poll", "load"}
          /\ UNCHANGED <<players, queue, users, left, seen, met, heard, place, channel, links, events>>
      BY <1>2 DEF PollChat, world
    <2>2. RowsInv' /\ QueueInv'
      BY <1>1, <2>1 DEF RowsInv, QueueInv, FromGame
    <2> QED BY <1>1, <2>1, <2>2 DEF TickTypeOK, TickStates
  <1>3. CASE Identify
    <2>1. /\ at = "load" /\ at' = "sync" /\ links \in SUBSET Person
          /\ UNCHANGED <<queue, users, left, seen, met, heard, place, channel, links, events>>
      BY <1>1, <1>3 DEF Identify, world, TickTypeOK
    <2>2. PICK byName \in ByName(links) :
              players' = {Resolved(pl, links, byName) : pl \in players}
      BY <1>3 DEF Identify
    <2>3. ASSUME NEW pl \in players
          PROVE  /\ FromGame(pl, met, seen) /\ pl \in Player
                 /\ Resolved(pl, links, byName) \in Known
                 /\ Resolved(pl, links, byName).pos = pl.pos
                 /\ pl.id \in Person => Resolved(pl, links, byName).key = pl.id
      BY <1>1, <2>1, ResolvedFacts DEF RowsInv, FromGame
    <2>4. players' \subseteq Known
      BY <2>2, <2>3
    <2>5. ASSUME NEW r \in players' PROVE Placed(r)'
      <3>1. PICK pl \in players : r = Resolved(pl, links, byName)
        BY <2>2
      <3> QED BY <2>1, <2>3, <3>1 DEF Placed, FromGame
    <2>6. OneKey(players')
      <3> SUFFICES ASSUME NEW a \in players', NEW b \in players',
                          a.pos # NoPos, b.pos # NoPos, a.key = b.key
                   PROVE  a = b
        BY DEF OneKey
      <3>1. PICK x \in players : a = Resolved(x, links, byName)
        BY <2>2
      <3>2. PICK y \in players : b = Resolved(y, links, byName)
        BY <2>2
      <3>3. x.pos # NoPos /\ x.id \in Person /\ a.key = x.id
        BY <2>3, <3>1 DEF FromGame
      <3>4. y.pos # NoPos /\ y.id \in Person /\ b.key = y.id
        BY <2>3, <3>2 DEF FromGame
      <3>5. x = y
        BY <1>1, <2>1, <3>3, <3>4 DEF RowsInv, OnePosition
      <3> QED BY <3>1, <3>2, <3>5
    <2>7. RowsInv' /\ QueueInv' /\ queue = {}
      BY <1>1, <2>1, <2>5, <2>6 DEF RowsInv, QueueInv
    <2> QED BY <1>1, <2>1, <2>4, <2>7 DEF TickTypeOK, TickStates
  <1>4. CASE GetUsers
    <2>1. /\ at = "sync" /\ at' = "move" /\ users' = channel /\ left' = {}
          /\ queue' = players
          /\ UNCHANGED <<players, seen, met, heard, place, channel, links, events>>
      BY <1>4 DEF GetUsers, world
    <2>2. RowsInv' /\ QueueInv'
      BY <1>1, <2>1 DEF RowsInv, QueueInv, Placed
    <2> QED BY <1>1, <2>1, <2>2 DEF TickTypeOK, TickStates
  <1>5. CASE Publish
    <2>1. /\ at' = "list" /\ players' = {} /\ users' = Nowhere /\ left' = {} /\ queue = {}
          /\ seen' = [p \in Person |-> Away] /\ met' = {} /\ players \in SUBSET Known
          /\ UNCHANGED <<queue, place, channel, links, events>>
      BY <1>1, <1>5 DEF Publish, world, TickTypeOK
    <2>2. PICK last \in LastOf(players) : heard' = AudioMatrix(players, last)
      BY <1>5 DEF Publish
    <2>3. heard' \subseteq [listener : Person, speaker : Person, gain : Int, pan : Int]
      BY <2>1, <2>2, MatrixTypes
    <2>4. Nowhere \in [Person -> Channels]
      BY DEF Nowhere, Channels
    <2> QED BY <1>1, <2>1, <2>3, <2>4 DEF TickTypeOK, TickStates, QueueInv, RowsInv
  <1>6. CASE Restart
    <2>1. /\ at = "down" /\ at' = "list"
          /\ UNCHANGED <<players, queue, users, left, seen, met, heard, place, channel, links, events>>
      BY <1>6 DEF Restart, world
    <2> QED BY <1>1, <2>1 DEF TickTypeOK, TickStates, QueueInv, RowsInv
  <1>7. ASSUME NEW pl \in queue, Skip(pl) PROVE TickTypeOK' /\ QueueInv' /\ RowsInv'
    <2>1. /\ at = "move" /\ queue' = queue \ {pl}
          /\ UNCHANGED <<at, players, users, left, seen, met, heard, place, channel, links, events>>
      BY <1>7 DEF Skip, IsNext, world
    <2>2. RowsInv' /\ QueueInv'
      BY <1>1, <2>1 DEF RowsInv, QueueInv, Placed
    <2> QED BY <1>1, <2>1, <2>2 DEF TickTypeOK
  <1>8. ASSUME NEW pl \in queue, NEW q \in Person, SetState(pl, q)
        PROVE  TickTypeOK' /\ QueueInv' /\ RowsInv'
    <2>1. /\ at = "move" /\ queue' = queue \ {pl}
          /\ users' = [users EXCEPT ![q] = Target(pl)]
          /\ channel' = [channel EXCEPT ![q] = Target(pl)]
          /\ UNCHANGED <<at, players, left, seen, met, heard, place, links, events>>
      BY <1>8 DEF SetState, IsNext
    <2>2. Target(pl) \in Channels
      BY <1>1, <2>1, TargetFacts DEF TickTypeOK
    <2>3. RowsInv' /\ QueueInv'
      BY <1>1, <2>1 DEF RowsInv, QueueInv, Placed
    <2>4. users' \in [Person -> Channels] /\ channel' \in [Person -> Channels]
      BY <1>1, <2>1, <2>2 DEF TickTypeOK
    <2> QED BY <1>1, <2>1, <2>3, <2>4 DEF TickTypeOK
  <1> QED BY <1>2, <1>3, <1>4, <1>5, <1>6, <1>7, <1>8

\* Every step preserves the invariant.
LEMMA BaseStep == BaseInv /\ [Next]_vars => BaseInv'
  <1> SUFFICES ASSUME BaseInv, [Next]_vars PROVE BaseInv'
    OBVIOUS
  <1>1. LogInv'
    BY LogStep, StepInv DEF BaseInv
  <1>2. TickTypeOK' /\ QueueInv' /\ RowsInv'
    <2>1. CASE UNCHANGED vars
      BY <2>1 DEF vars, tick, world, BaseInv, TickTypeOK, QueueInv, RowsInv, FromGame, Placed
    <2>2. CASE World
      BY <2>2, BaseWorld
    <2>7. CASE ChatUnread
      BY <2>7, BaseUnread
    <2>3. CASE Ends
      <3>1. events' \in 0 .. MaxEvents
        BY <2>3, TickAssumption DEF Ends, Event, Happens, BaseInv, TickTypeOK
      <3> QED BY <2>3, <3>1, BaseDown DEF Ends
    <2>4. CASE Fetch \/ CutReply
      BY <2>4, BaseReplies
    <2>5. CASE \E pl \in queue, q \in Person : SetStateFails(pl, q)
      BY <2>5, BaseDown DEF SetStateFails, BaseInv, TickTypeOK
    <2>6. CASE \/ PollChat \/ Identify \/ GetUsers \/ Publish \/ Restart
               \/ \E pl \in queue : Skip(pl) \/ \E q \in Person : SetState(pl, q)
      BY <2>6, BaseRest
    <2> QED BY <2>1, <2>2, <2>3, <2>4, <2>5, <2>6, <2>7 DEF Next, Tick
  <1> QED BY <1>1, <1>2 DEF BaseInv

\* The invariant holds throughout, whatever the names.
THEOREM BaseCorrect == Spec => []BaseInv
  BY BaseInit, BaseStep, PTL DEF Spec

\* Every variable keeps its type.
THEOREM TickTypes == Spec => []TypeOK
  <1>1. BaseInv => TypeOK
    BY DEF BaseInv, LogInv, TypeOK
  <1> QED BY BaseCorrect, <1>1, PTL

--------------------------------------------------------------------------------
(***************************************************************************)
(* What holds of the people who share no name, whatever names others have. *)
(***************************************************************************)
\* Whoever is given a hash is linked with it.  If they share no name, they were
\* in the game, and the Steam ID, if it is a whole one, is theirs.
OwnerInv ==
    at \in {"sync", "move"} =>
        \A pl \in players :
            /\ pl.hash # Nobody => pl.hash \in links
            /\ pl.hash # Nobody /\ Unshared(pl.hash) =>
                 pl.hash \in met /\ (pl.key \in Person => pl.key = pl.hash)
            /\ pl.key \in Person /\ Unshared(pl.key) => pl.hash \in {pl.key, Nobody}

NamesInv == BaseInv /\ OwnerInv /\ HearingIsMutual

\* What the matrix says of two such people was true, and it says it to both.
LEMMA MatrixFacts ==
    ASSUME BaseInv, OwnerInv, at = "move", NEW last \in LastOf(players),
           NEW s \in AudioMatrix(players, last),
           Unshared(s.listener), Unshared(s.speaker)
    PROVE  /\ IsTrue(s)
           /\ [listener |-> s.speaker, speaker |-> s.listener, gain |-> s.gain, pan |-> -s.pan]
                 \in AudioMatrix(players, last)
  <1>1. PICK h \in DOMAIN last :
            \E k \in Present(players) : Hears(last[h], k) /\ s = State(last[h], k)
    BY DEF AudioMatrix
  <1>2. PICK k \in Present(players) : Hears(last[h], k) /\ s = State(last[h], k)
    BY <1>1
  <1> DEFINE l == last[h]
  <1>3. l \in Present(players)
    BY DEF LastOf
  <1>4. ASSUME NEW r \in Present(players), Unshared(r.hash)
        PROVE  /\ r.hash \in Person \cap links /\ r.key = r.hash
               /\ r.pos = seen[r.hash] /\ r.pos \in Int /\ seen[r.hash] # Away
    <2>1. r \in players /\ r.hash # Nobody /\ r.pos # NoPos
      BY DEF Present
    <2>2. r \in Known /\ Placed(r)
      BY <2>1 DEF BaseInv, TickTypeOK, RowsInv
    <2>3. r.key \in Person /\ r.pos = seen[r.key] /\ r.pos \in Int
      BY <2>1, <2>2 DEF Placed, Known
    <2>4. r.hash \in links \cap met /\ r.hash = r.key
      BY <1>4, <2>1, <2>3 DEF OwnerInv
    <2> QED BY <2>3, <2>4, TickAssumption
  <1>0. Unshared(l.hash) /\ Unshared(k.hash)
    BY <1>2 DEF State
  <1>5. l.hash # k.hash /\ Gain(Distance(l.pos, k.pos)) > 0
    BY <1>0, <1>2, <1>3, <1>4 DEF Hears
  <1>6. s = [listener |-> l.hash, speaker |-> k.hash,
             gain |-> Gain(Distance(l.pos, k.pos)), pan |-> Pan(l.pos, k.pos)]
    BY <1>2 DEF State
  <1>7. IsTrue(s)
    <2> HIDE DEF l
    <2>1. /\ l.hash \in links /\ l.pos = seen[l.hash] /\ seen[l.hash] # Away
          /\ k.hash \in links /\ k.pos = seen[k.hash] /\ seen[k.hash] # Away
      BY <1>0, <1>3, <1>4
    <2> QED BY <1>5, <1>6, <2>1 DEF IsTrue
  <1>8. k.hash \in DOMAIN last /\ last[k.hash] = k
    <2>1. k.hash \in DOMAIN last
      BY DEF LastOf
    <2>2. last[k.hash] \in Present(players) /\ last[k.hash].hash = k.hash
      BY <2>1 DEF LastOf
    <2>3. last[k.hash].key = k.key
      BY <1>0, <1>4, <2>2
    <2>4. OneKey(players)
      BY DEF BaseInv, RowsInv
    <2> QED BY <2>1, <2>2, <2>3, <2>4 DEF OneKey, Present
  <1>9. /\ Distance(k.pos, l.pos) = Distance(l.pos, k.pos)
        /\ Pan(k.pos, l.pos) = -Pan(l.pos, k.pos)
    <2>1. l.pos \in Int /\ k.pos \in Int
      BY <1>0, <1>3, <1>4
    <2> QED BY <2>1, DistanceFacts, PanIsOpposite
  <1>10. Hears(k, l) /\ State(k, l) = [listener |-> k.hash, speaker |-> l.hash,
             gain |-> Gain(Distance(l.pos, k.pos)), pan |-> -Pan(l.pos, k.pos)]
    BY <1>2, <1>9 DEF Hears, State
  <1>11. State(k, l) \in AudioMatrix(players, last)
    BY <1>3, <1>8, <1>10 DEF AudioMatrix
  <1>12. State(k, l) =
            [listener |-> s.speaker, speaker |-> s.listener, gain |-> s.gain, pan |-> -s.pan]
    BY <1>6, <1>10
  <1> QED BY <1>7, <1>11, <1>12

\* Every step preserves it.
LEMMA NamesStep == NamesInv /\ [Next]_vars => NamesInv'
  <1> SUFFICES ASSUME NamesInv, [Next]_vars PROVE NamesInv'
    OBVIOUS
  <1>0. BaseInv /\ OwnerInv /\ HearingIsMutual
    BY DEF NamesInv
  <1>1. BaseInv'
    BY <1>0, BaseStep
  <1>2. OwnerInv'
    <2>1. CASE Identify
      <3>1. /\ at = "load" /\ UNCHANGED <<met, links>>
            /\ links \in SUBSET Person /\ met \in SUBSET Person
        BY <1>0, <2>1 DEF Identify, world, BaseInv, TickTypeOK
      <3>2. PICK byName \in ByName(links) :
                players' = {Resolved(pl, links, byName) : pl \in players}
        BY <2>1 DEF Identify
      <3>3. ASSUME NEW pl \in players
            PROVE  LET r == Resolved(pl, links, byName) IN
                   /\ r.hash # Nobody => r.hash \in links
                   /\ r.hash # Nobody /\ Unshared(r.hash) =>
                        r.hash \in met /\ (r.key \in Person => r.key = r.hash)
                   /\ r.key \in Person /\ Unshared(r.key) => r.hash \in {r.key, Nobody}
        <4>1. FromGame(pl, met, seen) /\ pl \in Player
          BY <1>0, <3>1 DEF BaseInv, RowsInv, FromGame
        <4> QED BY <3>1, <4>1, OwnerFacts, ResolvedFacts
      <3> QED BY <3>1, <3>2, <3>3 DEF OwnerInv
    <2>2. CASE at' \in {"sync", "move"} /\ ~Identify
      <3>1. UNCHANGED <<players, met>> /\ links \subseteq links' /\ at \in {"sync", "move"}
        BY <2>2 DEF Next, vars, tick, world, Tick, CutReply, ChatUnread, Ends, World, Fetch,
                    PlayerList, PlayerData, PollChat, GetUsers, Skip, SetState, SetStateFails, Down,
                    IsNext, Publish, Restart, Walk, Switch, LinkWritten, LogWritten
      <3> QED BY <1>0, <3>1 DEF OwnerInv
    <2> QED BY <2>1, <2>2 DEF OwnerInv
  <1>3. HearingIsMutual'
    <2>1. CASE Publish
      <3>1. PICK last \in LastOf(players) : heard' = AudioMatrix(players, last)
        BY <2>1 DEF Publish
      <3>2. at = "move"
        BY <2>1 DEF Publish
      <3> QED BY <1>0, <3>1, <3>2, MatrixFacts DEF HearingIsMutual
    <2>2. CASE ~Publish
      <3>1. heard' = heard \/ heard' = {}
        BY <2>2 DEF Next, vars, tick, world, Tick, CutReply, ChatUnread, Ends, World, Fetch,
                    PlayerList, PlayerData, PollChat, Identify, GetUsers, Skip, SetState, SetStateFails,
                    Down, Restart, Walk, Switch, LinkWritten, LogWritten
      <3> QED BY <1>0, <3>1 DEF HearingIsMutual
    <2> QED BY <2>1, <2>2
  <1> QED BY <1>1, <1>2, <1>3 DEF NamesInv

\* The invariant holds throughout.
THEOREM NamesCorrect == Spec => []NamesInv
  <1>1. Init => NamesInv
    BY BaseInit DEF Init, NamesInv, OwnerInv, HearingIsMutual
  <1> QED BY <1>1, NamesStep, PTL DEF Spec

\* Between people who share no name, hearing is mutual,
THEOREM MutualHearing == Spec => []HearingIsMutual
  <1>1. NamesInv => HearingIsMutual
    BY DEF NamesInv
  <1> QED BY NamesCorrect, <1>1, PTL

\* and what is published was true when the game answered.
THEOREM PublishedTrue == Spec => PublishedIsTrue
  <1>1. NamesInv /\ [Next]_vars =>
            [\A s \in heard' \ heard :
                Unshared(s.listener) /\ Unshared(s.speaker) => IsTrue(s)]_vars
    <2> SUFFICES ASSUME NamesInv, Next, NEW s \in heard' \ heard,
                        Unshared(s.listener), Unshared(s.speaker)
                 PROVE  IsTrue(s)
      BY DEF vars
    <2>1. CASE Publish
      <3>1. PICK last \in LastOf(players) : heard' = AudioMatrix(players, last)
        BY <2>1 DEF Publish
      <3>2. at = "move"
        BY <2>1 DEF Publish
      <3> QED BY <3>1, <3>2, MatrixFacts DEF NamesInv
    <2>2. CASE ~Publish
      BY <2>2 DEF Next, vars, tick, world, Tick, CutReply, ChatUnread, Ends, World, Fetch,
                  PlayerList, PlayerData, PollChat, Identify, GetUsers, Skip, SetState, SetStateFails,
                  Down, Restart, Walk, Switch, LinkWritten, LogWritten
    <2> QED BY <2>1, <2>2
  <1> QED BY <1>1, NamesCorrect, PTL DEF Spec, PublishedIsTrue

\* A user who shares no name is moved only if the bridge met their player, and
\* only to where it saw them.
THEOREM TheirMoves == Spec => MovesAreTheirs
  <1> DEFINE A == at = "move" /\ queue' # queue =>
                \A p \in Person : Unshared(p) /\ channel'[p] # channel[p] =>
                    /\ p \in links \cap met
                    /\ channel'[p] # Lobby => seen[p] # Away /\ channel'[p] = Cell(seen[p])
  <1>1. NamesInv /\ [Next]_vars => [A]_vars
    <2> SUFFICES ASSUME NamesInv, Next, at = "move", queue' # queue,
                        NEW p \in Person, Unshared(p), channel'[p] # channel[p]
                 PROVE  /\ p \in links \cap met
                        /\ channel'[p] # Lobby => seen[p] # Away /\ channel'[p] = Cell(seen[p])
      BY DEF vars
    <2>1. PICK pl \in queue, q \in Person : SetState(pl, q)
      BY DEF Next, tick, world, Tick, CutReply, ChatUnread, Ends, World, Fetch,
             PlayerList, PlayerData, PollChat, Identify, GetUsers, Skip, SetStateFails,
             Down, Publish, Restart, Walk, Switch, LinkWritten, LogWritten
    <2>2. q \in Found(pl) /\ channel' = [channel EXCEPT ![q] = Target(pl)]
      BY <2>1 DEF SetState, Misplaced
    <2>3. BaseInv /\ OwnerInv /\ TickTypeOK /\ pl \in players /\ pl \in Known
      BY DEF NamesInv, BaseInv, TickTypeOK
    <2>4. p = q /\ channel'[p] = Target(pl)
      BY <2>2, <2>3 DEF TickTypeOK
    <2>5. pl.hash \in Person
      BY <2>2, <2>3 DEF Found, Known
    <2>6. q = pl.hash /\ pl.hash \in links \cap met
      <3>1. q = pl.hash
        BY <2>2, <2>4, <2>5 DEF Found, Unshared, Shown, RowNames
      <3> QED BY <2>3, <2>4, <2>5, <3>1, RosterAssumption DEF OwnerInv
    <2>7. Target(pl) # Lobby => seen[p] # Away /\ Target(pl) = Cell(seen[p])
      <3> SUFFICES ASSUME Target(pl) # Lobby
                   PROVE  seen[p] # Away /\ Target(pl) = Cell(seen[p])
        OBVIOUS
      <3>1. pl.key \in Person /\ seen[pl.key] # Away /\ Target(pl) = Cell(seen[pl.key])
        BY <2>3, TargetFacts
      <3>2. pl.hash = pl.key
        BY <2>3, <2>4, <2>5, <2>6, <3>1, RosterAssumption DEF OwnerInv
      <3> QED BY <2>4, <2>6, <3>1, <3>2
    <2> QED BY <2>4, <2>6, <2>7
  <1> QED BY <1>1, NamesCorrect, PTL DEF Spec, MovesAreTheirs

\* With distinct names nobody is taken for someone else.
THEOREM OwnersAreTheirs == ASSUME DistinctNames PROVE Spec => []NobodyIsBorrowed
  <1>1. NamesInv => NobodyIsBorrowed
    BY DEF NamesInv, OwnerInv, NobodyIsBorrowed, DistinctNames
  <1> QED BY NamesCorrect, <1>1, PTL
================================================================================
