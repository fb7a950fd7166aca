------------------------------- MODULE Proximity -------------------------------
(***************************************************************************)
(* ProximityEngine (proximity.py, models.py): the Mumble channel of each   *)
(* player, and who hears whom, how loud and from which side.  Positions    *)
(* are integers on a line: the engine looks at the distance on the map,    *)
(* and at the difference of the first coordinates for the side.  Gains and *)
(* pans are in units of 1/Span and 1/Width.  Players are as IdentityMap    *)
(* leaves them (Known in Roster).                                          *)
(***************************************************************************)
EXTENDS Roster

CONSTANTS
    Audible,   \* audible_distance
    Fade,      \* fade_start
    Shard,     \* shard_size
    PanWidth   \* pan_width

ASSUME ProximityAssumption ==
    /\ Audible \in Nat /\ Fade \in Nat /\ PanWidth \in Nat /\ Shard \in Nat \ {0}

AtLeast(low, n) == IF n < low THEN low ELSE n
Clamp(n, low, high) == AtLeast(low, IF n < high THEN n ELSE high)
Span == AtLeast(1, Audible - Fade)
Width == AtLeast(1, PanWidth)

\* Wrong on purpose: the distance keeps its sign.
SignedDistance(x, y) == y - x

\* Vec3.distance_2d.
Distance(x, y) == IF x < y THEN y - x ELSE x - y

Gain(d) ==
    IF d >= Audible THEN 0
    ELSE IF d <= Fade THEN Span
    ELSE Clamp(Span - (d - Fade), 0, Span)

\* Positive when the speaker is on the listener's right.
Pan(listener, speaker) == Clamp(speaker - listener, -Width, Width)

\* The channel of a cell of the map, and unknown_channel.
Cell(x) == <<x \div Shard>>
Lobby == << >>
Channel(x) == IF x = NoPos THEN Lobby ELSE Cell(x)

\* assign_channels: of players of one identity key the last counts.
Assigned(players, key) ==
    LET P == {p \in players : p.key = key} IN
    Channel((CHOOSE p \in P : \A q \in P : q.rank <= p.rank).pos)

\* audio_matrix: the players with a hash and a position are the listeners and
\* the speakers.
Present(players) == {p \in players : p.hash # Nobody /\ p.pos # NoPos}

\* Of listeners with one hash the last counts.
LastOf(players) ==
    {last \in [{p.hash : p \in Present(players)} -> Present(players)] :
        \A h \in DOMAIN last : last[h].hash = h /\
            \A q \in Present(players) : q.hash = h => q.rank <= last[h].rank}

\* Wrong on purpose: a listener is one of the speakers they hear.
HearsAnyone(l, s) == Gain(Distance(l.pos, s.pos)) > 0

Hears(l, s) == l.key # s.key /\ Gain(Distance(l.pos, s.pos)) > 0
State(l, s) == [listener |-> l.hash, speaker |-> s.hash,
                gain |-> Gain(Distance(l.pos, s.pos)), pan |-> Pan(l.pos, s.pos)]

AudioMatrix(players, last) ==
    UNION {{State(last[h], s) : s \in {q \in Present(players) : Hears(last[h], q)}} :
               h \in DOMAIN last}
================================================================================
