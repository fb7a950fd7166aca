-------------------------------- MODULE Roster --------------------------------
(***************************************************************************)
(* Who is in the game, as the bridge learns it: the replies to PlayerList  *)
(* and PlayerData as TheIsleRconClient reads them (rcon_client.py), the    *)
(* players that parse_players finds in the transcript (parser.py), and the *)
(* Mumble users IdentityMap.apply takes them for (identity.py).            *)
(*                                                                         *)
(* A person stands for their Steam ID and their certificate hash.  Names   *)
(* are in lower case, as wherever they are compared; they may have spaces, *)
(* but none of the characters , ; : = | that the parser splits lines at,   *)
(* and nobody is named like a separator line.  The game's replies name no  *)
(* EOS IDs, and the live protocol has no JSON; both are left out.          *)
(*                                                                         *)
(* A reply carries no length: reading ends at the first pause longer than  *)
(* read_idle_ms, or at the deadline, and what comes later is read as the   *)
(* beginning of the next reply, or never.  A reply can so be cut anywhere. *)
(* What is left of a name may then be somebody else's whole name.          *)
(***************************************************************************)
EXTENDS Integers

CONSTANTS
    Person,
    Name,        \* names, in lower case
    GameName,    \* each person's name in the game
    MumbleName,  \* and in Mumble
    RowGameName, RowMumbleName,   \* the two as they were when the person was linked
    FirstWord,   \* what the parser takes of a name in a line of PlayerData
    Cuts,        \* those of Name that are left when a name is cut short
    TornName,    \* a name that is nobody's: a separator line, or what is left of a name
    TornId,      \* a part of a Steam ID
    NoId,        \* no Steam ID
    Nobody,
    NoPos

ASSUME RosterAssumption ==
    /\ GameName \in [Person -> Name] /\ MumbleName \in [Person -> Name]
    /\ RowGameName \in [Person -> Name] /\ RowMumbleName \in [Person -> Name]
    /\ FirstWord \in [Name -> Name] /\ Cuts \in [Name -> SUBSET Name]
    /\ TornName \notin Name
    /\ TornId \notin Person /\ NoId \notin Person /\ Nobody \notin Person
    /\ TornId # NoId
    /\ NoPos \notin Int

\* What parse_players returns.  Players are in the order of the transcript: by
\* rank those of PlayerList, those PlayerData adds, one of a line cut short.
Player == [id : Person \cup {TornId, NoId}, name : Name \cup {TornName},
           pos : Int \cup {NoPos}, rank : 0 .. 2]

(***************************************************************************)
(* _read_until_idle and the parser.                                        *)
(***************************************************************************)
\* _parse_player_list_blocks: pairs of an ID and a name.
ListPlayer(id, name) == [id |-> id, name |-> name, pos |-> NoPos, rank |-> 0]
Listed(S) == {ListPlayer(p, GameName[p]) : p \in S}

\* Cut in an ID, the parser pairs its head with the separator line, its tail
\* with the name, and goes on; cut after an ID, it takes the separator for the
\* name and stops, cut in a name or between two pairs it stops as well.
CutPairs(b) ==
    {{}, {ListPlayer(TornId, TornName), ListPlayer(TornId, GameName[b])}}
    \cup {{ListPlayer(b, n)} : n \in Cuts[GameName[b]] \cup {TornName}}

ListReplies(G) == {Listed(G)}
CutListReplies(G) ==
    UNION {{Listed(S) \cup T : S \in SUBSET (G \ {b}), T \in CutPairs(b)} : b \in G}

\* _parse_player_line: a name, an ID and a location, in this order.  KEY_VALUE_RE
\* ends a value at the first space.
LineName(p) == FirstWord[GameName[p]]
Located(S, at) ==
    {[id |-> p, name |-> LineName(p), pos |-> at[p], rank |-> 1] : p \in S}

\* A line cut before its location has none.
TornLine(id, name) == [id |-> id, name |-> name, pos |-> NoPos, rank |-> 2]
CutLines(b) ==
    {{}} \cup {{TornLine(NoId, n)} : n \in Cuts[LineName(b)] \cup {TornName}}
    \cup {{TornLine(id, LineName(b))} : id \in {NoId, TornId, b}}

\* The names a person may have in a reply, TornName apart.
ReadNames(p) ==
    {GameName[p], LineName(p)} \cup Cuts[GameName[p]] \cup Cuts[LineName(p)]

\* The last reply: what comes late is lost with the connection.
DataReplies(G, at) == {Located(G, at)}
CutDataReplies(G, at) ==
    UNION {{Located(S, at) \cup T : S \in SUBSET (G \ {b}), T \in CutLines(b)} : b \in G}

\* parse_players and _merge_player: players of one ID become one, with the
\* first name and the last location.
Merge(list, data) ==
    {[l EXCEPT !.pos = IF \E d \in data : d.id = l.id /\ d.id \in Person
                       THEN (CHOOSE d \in data : d.id = l.id).pos
                       ELSE NoPos] : l \in list}
    \cup {d \in data : d.id \notin Person \/ \A l \in list : l.id # d.id}

(***************************************************************************)
(* IdentityMap over the rows of the linked people: each row has a person's *)
(* Steam ID, hash and both names.                                          *)
(***************************************************************************)
RowNames(p) == {RowGameName[p], RowMumbleName[p]}

\* by_name holds game names and Mumble names; of the rows with one the last counts.
ByName(links) ==
    {f \in [Name \cup {TornName} -> links \cup {Nobody}] :
        \A n \in Name \cup {TornName} :
            LET P == {p \in links : n \in RowNames(p)} IN
            IF P = {} THEN f[n] = Nobody ELSE f[n] \in P}

\* Wrong on purpose: a Steam ID is taken for the hash as it is.
OwnerById(pl, links, byName) == pl.id

\* apply: by Steam ID, else by name.
Owner(pl, links, byName) == IF pl.id \in links THEN pl.id ELSE byName[pl.name]

\* The hash, and the identity key: the ID, taken from the row if there is none.
Resolved(pl, links, byName) ==
    LET p == Owner(pl, links, byName) IN
    [hash |-> p,
     key |-> IF pl.id # NoId THEN pl.id ELSE IF p # Nobody THEN p ELSE NoId,
     pos |-> pl.pos, rank |-> pl.rank]

Known == [hash : Person \cup {Nobody}, key : Person \cup {TornId, NoId},
          pos : Int \cup {NoPos}, rank : 0 .. 2]
================================================================================
