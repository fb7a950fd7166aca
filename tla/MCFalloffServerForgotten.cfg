\* Two connections that register at the same time.
CONSTANTS
    c1 = c1
    c2 = c2
    h1 = h1
    h2 = h2
    H1 = H1
    NoConn = NoConn
    NoHash = NoHash
    Conn = {c1, c2}
    Hash <- MCHash
    Key <- MCKey
    Lower <- MCLower
    MaxRounds = 1
    MaxLines = 3
SPECIFICATION Spec
INVARIANT NoClientIsForgotten
\* Connections are opened once and rounds are bounded: the model may stop.
CHECK_DEADLOCK FALSE
