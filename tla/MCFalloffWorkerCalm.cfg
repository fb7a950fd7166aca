\* Joins that never time out and callbacks that do not overlap.
CONSTANTS
    h1 = h1
    h2 = h2
    w1 = w1
    w2 = w2
    w3 = w3
    Worker = {w1, w2, w3}
    Hash <- MCHash
    NoWorker = NoWorker
    NoHash = NoHash
    Patient = {}
    Overlap = FALSE
    MaxEvents = 5
SYMMETRY MCSymmetry
SPECIFICATION Spec
INVARIANT ShutdownLeavesALoggerAtMost
\* After mumble_shutdown and the last worker nothing happens any more.
CHECK_DEADLOCK FALSE
