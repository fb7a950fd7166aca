\* Default settings: what mumble_shutdown leaves behind.
CONSTANTS
    h1 = h1
    h2 = h2
    w1 = w1
    w2 = w2
    w3 = w3
    Worker = {w1, w2}
    Hash = {h1}
    NoWorker = NoWorker
    NoHash = NoHash
    Patient = {"sleep"}
    Overlap = FALSE
    MaxEvents = 3
SPECIFICATION Spec
INVARIANT ShutdownLeavesNoWorker
\* After mumble_shutdown and the last worker nothing happens any more.
CHECK_DEADLOCK FALSE
