\* Two connections that may name either of two hashes; the identity map
\* spells one of them in two cases.
CONSTANTS
    c1 = c1
    c2 = c2
    h1 = h1
    h2 = h2
    H1 = H1
    NoConn = NoConn
    NoHash = NoHash
    Conn = {c1, c2}
    Hash <- MCHash
    Key <- MCKey
    Lower <- MCLower
    MaxRounds = 1
    MaxLines = 2
SYMMETRY MCConnSymmetry
SPECIFICATION Spec
INVARIANTS TypeOK NoLeak SoleConnectionStaysUp RefusedGetsNothing
PROPERTY ListenersGetTheirOwnStates
\* Connections are opened once and rounds are bounded: the model may stop.
CHECK_DEADLOCK FALSE
