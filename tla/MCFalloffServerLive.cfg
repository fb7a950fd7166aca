\* Two connections that claim one hash: liveness under fairness.
CONSTANTS
    c1 = c1
    c2 = c2
    h1 = h1
    h2 = h2
    H1 = H1
    NoConn = NoConn
    NoHash = NoHash
    Conn = {c1, c2}
    Hash <- MCOneHash
    Key <- MCOneHash
    Lower <- MCOneLower
    MaxRounds = 1
    MaxLines = 3
SPECIFICATION FairSpec
PROPERTY HandlersFinish
\* Connections are opened once and rounds are bounded: the model may stop.
CHECK_DEADLOCK FALSE
