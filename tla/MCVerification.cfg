\* Namesakes, codes that may be drawn again, one abrupt end of the bridge.
CONSTANTS
    p1 = p1
    p2 = p2
    n1 = n1
    n2 = n2
    k1 = k1
    k2 = k2
    Nobody = Nobody
    Person <- MCPerson
    Name <- MCName
    GameName <- MCNamesakes
    MumbleName <- MCNamesakes
    Code = {k1, k2}
    Fallback = FALSE
    MaxDraws = 2
    MaxKills = 1
SYMMETRY MCNamesakesSymmetry
SPECIFICATION Spec
INVARIANTS TypeOK NobodyIsMislinked
PROPERTY LinksAreEarned
\* A bridge that left its file torn does not start again.
CHECK_DEADLOCK FALSE
