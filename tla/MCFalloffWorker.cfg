\* Default settings: reconnect_sec = 8, a slow connect() and a line that comes
\* byte by byte outlast the join, and a disconnect may interrupt a callback.
CONSTANTS
    h1 = h1
    h2 = h2
    w1 = w1
    w2 = w2
    w3 = w3
    Worker = {w1, w2}
    Hash <- MCHash
    NoWorker = NoWorker
    NoHash = NoHash
    Patient = {"sleep", "connect", "reply", "read"}
    Overlap = TRUE
    MaxEvents = 2
SYMMETRY MCSymmetry
SPECIFICATION Spec
INVARIANTS TypeOK RunningHasWorker GainsHaveASession
INVARIANTS OneWorker QuietAfterDisconnect GainsAreOurs
\* After mumble_shutdown and the last worker nothing happens any more.
CHECK_DEADLOCK FALSE
