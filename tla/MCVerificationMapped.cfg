\* The bridge loads its file while it is being written.
CONSTANTS
    p1 = p1
    p2 = p2
    n1 = n1
    n2 = n2
    k1 = k1
    k2 = k2
    Nobody = Nobody
    Person <- MCPerson
    Name <- MCName
    GameName <- MCDistinct
    MumbleName <- MCDistinct
    Code = {k1, k2}
    Fallback = FALSE
    MaxDraws = 3
    MaxKills = 0
SYMMETRY MCSymmetry
SPECIFICATION Spec
INVARIANT VerifiedAreMapped
\* A bridge that left its file torn does not start again.
CHECK_DEADLOCK FALSE
