\* A reconnect_sec that outlasts the join: workers are left behind, end and
\* reconnect, and callbacks return.
CONSTANTS
    h1 = h1
    h2 = h2
    w1 = w1
    w2 = w2
    w3 = w3
    Worker = {w1, w2}
    Hash = {h1}
    NoWorker = NoWorker
    NoHash = NoHash
    Patient = {"sleep"}
    Overlap = FALSE
    MaxEvents = 2
SPECIFICATION FairSpec
PROPERTIES StoppedWorkersEnd SettledClientConnects CloseIsNoticed CallbacksReturn
\* After mumble_shutdown and the last worker nothing happens any more.
CHECK_DEADLOCK FALSE
