\* Distinct names in the game, codes that may be drawn again, the Mumble fallback.
CONSTANTS
    p1 = p1
    p2 = p2
    n1 = n1
    n2 = n2
    k1 = k1
    k2 = k2
    Nobody = Nobody
    Person <- MCPerson
    Name <- MCName
    GameName <- MCDistinct
    MumbleName <- MCSwapped
    Code = {k1}
    Fallback = TRUE
    MaxDraws = 2
    MaxKills = 1
SPECIFICATION Spec
INVARIANTS  OneRowPerSteamId
 
\* A bridge that left its file torn does not start again.
CHECK_DEADLOCK FALSE
