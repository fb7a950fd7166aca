----------------------------- MODULE FalloffWorker -----------------------------
(***************************************************************************)
(* The threads of the Mumble plugin, client-plugin/src/                    *)
(* exile_voice_plugin.cpp: Mumble's main thread runs most callbacks, the   *)
(* connection thread runs onServerDisconnected, and worker threads hold    *)
(* the connection to the bridge and fill the table of speaker gains that   *)
(* the audio callback applies.  The plugin starts a worker when the flag   *)
(* g_worker_running is 0 and stops it by clearing the flag and waiting six *)
(* seconds for the thread it has a handle of.                              *)
(*                                                                         *)
(* The table of gains is abstracted to the local hash it was computed for. *)
(***************************************************************************)
EXTENDS Naturals

CONSTANTS
    Worker,      \* the worker threads that may be created
    Hash,        \* Mumble certificate hashes of the local user
    NoWorker, NoHash,
    Patient,     \* the blocking calls of a worker that may outlast the join
    Overlap,     \* may callbacks of the two threads overlap?
    MaxEvents    \* bound on main-thread callbacks

ASSUME WorkerAssumption ==
    /\ NoWorker \notin Worker /\ NoHash \notin Hash
    /\ Patient \subseteq {"sleep", "connect", "reply", "read"}
    /\ Overlap \in BOOLEAN /\ MaxEvents \in Nat

VARIABLES
    running,     \* g_worker_running
    handle,      \* g_worker_thread, NoWorker for NULL
    online,      \* g_connection >= 0
    localHash,   \* g_local_hash, NoHash for ""
    roster,      \* g_user_hashes is filled
    states,      \* the hash g_audio_states was computed for, NoHash if empty
    lock,        \* g_lock exists
    worker,      \* where each worker thread is
    as,          \* its local_hash
    link,        \* its socket
    timedOut,    \* its last socket error is WSAETIMEDOUT
    pc,          \* where the main and the connection thread are
    callback,    \* the callback the main thread runs
    joining,     \* the worker each of the two waits for
    mumble,      \* Mumble is synchronized with its server
    bridge,      \* the bridge accepts connections
    events,      \* main-thread callbacks so far
    strays       \* history: the workers stop_worker missed or gave up on

shared == <<running, handle, online, localHash, roster, states, lock>>
workers == <<worker, as, link, timedOut>>
host == <<pc, callback, joining, mumble, events>>
vars == <<shared, workers, host, bridge, strays>>

WorkerStates == {"unborn", "top", "copy", "sleep", "connect", "reply", "log",
                 "session", "read", "leave", "ended"}
Thread == {"main", "disc"}
ThreadStates == {"idle", "update", "store", "refresh", "table", "start", "create",
                 "stop", "handle", "join", "clear", "gone"}

Init ==
    /\ running = FALSE /\ handle = NoWorker /\ online = FALSE
    /\ localHash = NoHash /\ roster = FALSE /\ states = NoHash /\ lock = TRUE
    /\ worker = [w \in Worker |-> "unborn"]
    /\ as = [w \in Worker |-> NoHash]
    /\ link = [w \in Worker |-> "none"]
    /\ timedOut = [w \in Worker |-> FALSE]
    /\ pc = [t \in Thread |-> "idle"]
    /\ callback = "none"
    /\ joining = [t \in Thread |-> NoWorker]
    /\ mumble = FALSE /\ events = 0
    /\ bridge \in BOOLEAN /\ strays = {}

Live(w) == worker[w] \notin {"unborn", "ended"}
\* The worker is in its session loop, where it writes g_audio_states.
InSession(w) == worker[w] \in {"session", "read", "leave"}

Step(t, from, to) == pc[t] = from /\ pc' = [pc EXCEPT ![t] = to]
WorkerStep(w, from, to) == worker[w] = from /\ worker' = [worker EXCEPT ![w] = to]

(***************************************************************************)
(* Main-thread callbacks.                                                  *)
(***************************************************************************)
\* A callback begins.  Mumble runs main-thread callbacks one at a time.
Begin(name, to) ==
    /\ events < MaxEvents
    /\ Step("main", "idle", to)
    /\ callback' = name
    /\ events' = events + 1

\* onServerSynchronized.  Mumble reconnects after the last connection's
\* thread has ended.
Synchronized ==
    /\ ~mumble /\ pc["disc"] = "idle"
    /\ Begin("sync", "update")
    /\ mumble' = TRUE /\ online' = TRUE
    /\ UNCHANGED <<running, handle, localHash, roster, states, lock, workers, joining, bridge, strays>>

\* Users are added to their channels while Mumble is still connecting, and
\* removed when it disconnects.
UsersChange == Overlap \/ pc["disc"] = "idle"

\* Wrong on purpose: the local hash is updated also when it is known.
UserEventUpdates ==
    /\ UsersChange
    /\ Begin("user", "update")
    /\ UNCHANGED <<shared, workers, joining, mumble, bridge, strays>>

\* onUserAdded, onChannelEntered.
UserEvent ==
    /\ UsersChange
    /\ Begin("user", IF localHash = NoHash THEN "update" ELSE "refresh")
    /\ UNCHANGED <<shared, workers, joining, mumble, bridge, strays>>

UserRemoved ==
    /\ UsersChange
    /\ Begin("removed", "refresh")
    /\ UNCHANGED <<shared, workers, joining, mumble, bridge, strays>>

\* update_local_hash: nothing without a connection, or if Mumble does not
\* know the local user.
UpdateHash ==
    /\ \/ online /\ Step("main", "update", "store")
       \/ Step("main", "update", "refresh")
    /\ UNCHANGED <<shared, workers, callback, joining, mumble, events, bridge, strays>>

\* The hash Mumble returned, or "" if it has none yet.
StoreHash(h) ==
    /\ Step("main", "store", "refresh")
    /\ localHash' = h
    /\ UNCHANGED <<running, handle, online, roster, states, lock,
                   workers, callback, joining, mumble, events, bridge, strays>>

\* Where a callback goes on after refresh_user_hashes: onUserRemoved is done,
\* and onUserAdded and onChannelEntered are if there is no local hash.
AfterRefresh ==
    IF callback = "removed" \/ (callback = "user" /\ localHash = NoHash)
    THEN "idle" ELSE "start"

\* refresh_user_hashes: nothing without a connection, or if a call of
\* Mumble's API fails;
Refresh ==
    /\ \/ online /\ Step("main", "refresh", "table")
       \/ Step("main", "refresh", AfterRefresh)
    /\ UNCHANGED <<shared, workers, callback, joining, mumble, events, bridge, strays>>

\* the table is filled later, whatever the connection has become.
FillTable ==
    /\ Step("main", "table", AfterRefresh)
    /\ roster' = TRUE
    /\ UNCHANGED <<running, handle, online, localHash, states, lock,
                   workers, callback, joining, mumble, events, bridge, strays>>

\* start_worker_if_needed.  Only this thread sets the flag, so that the test
\* and the assignment are one step; CreateThread is another.
StartNotNeeded ==
    /\ running /\ Step("main", "start", "idle")
    /\ UNCHANGED <<shared, workers, callback, joining, mumble, events, bridge, strays>>

\* Wrong on purpose: the flag is set whether it was set or not.
SetRunningAgain ==
    /\ Step("main", "start", "create")
    /\ running' = TRUE
    /\ UNCHANGED <<handle, online, localHash, roster, states, lock,
                   workers, callback, joining, mumble, events, bridge, strays>>

SetRunning ==
    /\ ~running /\ Step("main", "start", "create")
    /\ running' = TRUE
    /\ UNCHANGED <<handle, online, localHash, roster, states, lock,
                   workers, callback, joining, mumble, events, bridge, strays>>

\* The connection's stop has already cleared the flag: it misses a worker that
\* is created now, and the one whose handle is overwritten.
Late == ~mumble /\ pc["disc"] # "stop"

CreateWorker(w) ==
    /\ Step("main", "create", "idle")
    /\ WorkerStep(w, "unborn", "top")
    /\ handle' = w
    /\ strays' = IF Late THEN strays \cup ({w, handle} \ {NoWorker}) ELSE strays
    /\ UNCHANGED <<running, online, localHash, roster, states, lock, as, link, timedOut,
                   callback, joining, mumble, events, bridge>>

\* Wrong on purpose: the flag stays set when CreateThread fails.
CreateFailsRunning ==
    /\ Step("main", "create", "idle")
    /\ handle' = NoWorker
    /\ UNCHANGED <<running, online, localHash, roster, states, lock,
                   workers, callback, joining, mumble, events, bridge, strays>>

CreateFails ==
    /\ Step("main", "create", "idle")
    /\ handle' = NoWorker /\ running' = FALSE
    /\ strays' = IF Late THEN strays \cup ({handle} \ {NoWorker}) ELSE strays
    /\ UNCHANGED <<online, localHash, roster, states, lock,
                   workers, callback, joining, mumble, events, bridge>>

(***************************************************************************)
(* onServerDisconnected, on the connection thread, and mumble_shutdown, on *)
(* the main thread.  Both stop the worker and then clear the globals.      *)
(***************************************************************************)
Disconnected ==
    /\ mumble
    /\ Overlap \/ pc["main"] = "idle"
    /\ Step("disc", "idle", "stop")
    /\ mumble' = FALSE
    /\ UNCHANGED <<shared, workers, callback, joining, events, bridge, strays>>

Shutdown ==
    /\ pc["disc"] = "idle"
    /\ Step("main", "idle", "stop")
    /\ callback' = "shutdown"
    /\ mumble' = FALSE
    /\ UNCHANGED <<shared, workers, joining, events, bridge, strays>>

\* stop_worker clears the flag, and is done if it was not set;
StopWorker(t) ==
    /\ Step(t, "stop", IF running THEN "handle" ELSE "clear")
    /\ running' = FALSE
    /\ UNCHANGED <<handle, online, localHash, roster, states, lock,
                   workers, callback, joining, mumble, events, bridge, strays>>

\* Wrong on purpose: the handle is not tested for NULL.
WaitForAny(t) ==
    /\ Step(t, "handle", "join")
    /\ joining' = [joining EXCEPT ![t] = handle]
    /\ UNCHANGED <<shared, workers, callback, mumble, events, bridge, strays>>

\* it waits for the thread of the handle, if there is one.
TestHandle(t) ==
    /\ Step(t, "handle", IF handle = NoWorker THEN "clear" ELSE "join")
    /\ joining' = [joining EXCEPT ![t] = handle]
    /\ UNCHANGED <<shared, workers, callback, mumble, events, bridge, strays>>

\* Wrong on purpose: the thread is not waited for,
JoinSkipped(t) ==
    /\ Step(t, "join", "clear")
    /\ handle' = NoWorker
    /\ joining' = [joining EXCEPT ![t] = NoWorker]
    /\ UNCHANGED <<running, online, localHash, roster, states, lock,
                   workers, callback, mumble, events, bridge, strays>>

\* or it is waited for without a timeout.
JoinForever(t) ==
    /\ pc[t] = "join" /\ worker[joining[t]] = "ended"
    /\ JoinSkipped(t)

\* The wait ends when the thread has, or after six seconds: because the flag
\* was set again, because the worker is in a call that may take longer (a
\* read waits up to five seconds for every byte), or because it is logging,
\* which waits for the main thread.
JoinEnds(t) ==
    /\ Step(t, "join", "clear")
    /\ \/ worker[joining[t]] = "ended"
       \/ running
       \/ worker[joining[t]] \in Patient
       \/ worker[joining[t]] = "log" /\ t = "main"
    /\ handle' = NoWorker
    /\ joining' = [joining EXCEPT ![t] = NoWorker]
    /\ strays' = strays \cup {w \in {joining[t]} : Live(w)}
    /\ UNCHANGED <<running, online, localHash, roster, states, lock,
                   workers, callback, mumble, events, bridge>>

ClearGlobals(t) ==
    /\ Step(t, "clear", IF t = "main" THEN "gone" ELSE "idle")
    /\ online' = FALSE /\ localHash' = NoHash /\ roster' = FALSE /\ states' = NoHash
    /\ lock' = (lock /\ t # "main")
    /\ UNCHANGED <<running, handle, workers, callback, joining, mumble, events, bridge, strays>>

(***************************************************************************)
(* falloff_worker.                                                         *)
(***************************************************************************)
OnlyWorker == UNCHANGED <<shared, host, bridge, strays>>

\* Wrong on purpose: the worker does not look at the flag.
TopRegardless(w) ==
    /\ WorkerStep(w, "top", "copy")
    /\ OnlyWorker /\ UNCHANGED <<as, link, timedOut>>

Top(w) ==
    /\ WorkerStep(w, "top", IF running THEN "copy" ELSE "ended")
    /\ OnlyWorker /\ UNCHANGED <<as, link, timedOut>>

\* Without a local hash there is nothing to do; wait and look again.
CopyHash(w) ==
    /\ WorkerStep(w, "copy", IF localHash = NoHash THEN "sleep" ELSE "connect")
    /\ as' = [as EXCEPT ![w] = localHash]
    /\ OnlyWorker /\ UNCHANGED <<link, timedOut>>

Sleep(w) ==
    /\ WorkerStep(w, "sleep", "top")
    /\ OnlyWorker /\ UNCHANGED <<as, link, timedOut>>

Connect(w) ==
    /\ bridge /\ WorkerStep(w, "connect", "reply")
    /\ link' = [link EXCEPT ![w] = "up"]
    /\ OnlyWorker /\ UNCHANGED <<as, timedOut>>

\* Wrong on purpose: a worker that cannot connect ends.
ConnectFailsForGood(w) ==
    /\ ~bridge /\ WorkerStep(w, "connect", "ended")
    /\ OnlyWorker /\ UNCHANGED <<as, link, timedOut>>

ConnectFails(w) ==
    /\ ~bridge /\ WorkerStep(w, "connect", "sleep")
    /\ OnlyWorker /\ UNCHANGED <<as, link, timedOut>>

\* HELLO was sent and the first line is OK.
HelloOk(w) ==
    /\ link[w] \in {"up", "closed"} /\ WorkerStep(w, "reply", "log")
    /\ OnlyWorker /\ UNCHANGED <<as, link, timedOut>>

\* Sending failed, or no line came, or one that is not OK.
HelloRejected(w) ==
    /\ WorkerStep(w, "reply", "sleep")
    /\ link' = [link EXCEPT ![w] = "none"]
    /\ timedOut' \in {timedOut, [timedOut EXCEPT ![w] = TRUE]}
    /\ OnlyWorker /\ UNCHANGED as

\* log_both calls Mumble's API, which runs in the main thread once that has
\* returned from its callback.
LogConnected(w) ==
    /\ pc["main"] \in {"idle", "gone"}
    /\ WorkerStep(w, "log", "session")
    /\ OnlyWorker /\ UNCHANGED <<as, link, timedOut>>

SessionLoop(w) ==
    /\ WorkerStep(w, "session", IF running THEN "read" ELSE "leave")
    /\ OnlyWorker /\ UNCHANGED <<as, link, timedOut>>

\* parse_update_line replaces the table; an empty update clears it.  A line
\* may still be read after the bridge closed the connection.
ReadUpdate(w) ==
    /\ link[w] \in {"up", "closed"} /\ WorkerStep(w, "read", "session")
    /\ states' \in {as[w], NoHash}
    /\ UNCHANGED <<running, handle, online, localHash, roster, lock,
                   as, link, timedOut, host, bridge, strays>>

\* Five seconds without a byte, or a line that means nothing.
ReadNothing(w) ==
    /\ link[w] = "up" /\ WorkerStep(w, "read", "session")
    /\ timedOut' \in {timedOut, [timedOut EXCEPT ![w] = TRUE]}
    /\ OnlyWorker /\ UNCHANGED <<as, link>>

\* recv returns 0 on an orderly close and leaves the last error alone: if
\* that is an old WSAETIMEDOUT, the worker takes the close for a timeout.
ReadClosed(w) ==
    /\ link[w] = "closed"
    /\ \/ WorkerStep(w, "read", "leave")
       \/ timedOut[w] /\ WorkerStep(w, "read", "session")
    /\ OnlyWorker /\ UNCHANGED <<as, link, timedOut>>

\* Twenty seconds later a PING is sent, which the other side resets.
PingClosed(w) ==
    /\ worker[w] \in {"session", "read"} /\ link[w] = "closed"
    /\ link' = [link EXCEPT ![w] = "reset"]
    /\ OnlyWorker /\ UNCHANGED <<worker, as, timedOut>>

\* Wrong on purpose: every socket error is taken for a timeout.
ReadResetIgnored(w) ==
    /\ link[w] = "reset" /\ WorkerStep(w, "read", "session")
    /\ OnlyWorker /\ UNCHANGED <<as, link, timedOut>>

ReadReset(w) ==
    /\ link[w] = "reset" /\ WorkerStep(w, "read", "leave")
    /\ timedOut' = [timedOut EXCEPT ![w] = FALSE]
    /\ OnlyWorker /\ UNCHANGED <<as, link>>

\* Wrong on purpose: the gains stay when the session ends.
LeaveGains(w) ==
    /\ WorkerStep(w, "leave", IF running THEN "sleep" ELSE "top")
    /\ link' = [link EXCEPT ![w] = "none"]
    /\ UNCHANGED <<running, handle, online, localHash, roster, states, lock,
                   as, timedOut, host, bridge, strays>>

LeaveSession(w) ==
    /\ WorkerStep(w, "leave", IF running THEN "sleep" ELSE "top")
    /\ link' = [link EXCEPT ![w] = "none"]
    /\ states' = NoHash
    /\ UNCHANGED <<running, handle, online, localHash, roster, lock,
                   as, timedOut, host, bridge, strays>>

(***************************************************************************)
(* The bridge closes a connection, or comes and goes.                      *)
(***************************************************************************)
LinkCloses(w) ==
    /\ link[w] = "up"
    /\ link' = [link EXCEPT ![w] = "closed"]
    /\ OnlyWorker /\ UNCHANGED <<worker, as, timedOut>>

BridgeChanges ==
    /\ bridge' = ~bridge
    /\ UNCHANGED <<shared, workers, host, strays>>

--------------------------------------------------------------------------------
MainCallback ==
    \/ UpdateHash \/ (\E h \in Hash \cup {NoHash} : StoreHash(h)) \/ Refresh \/ FillTable
    \/ StartNotNeeded \/ SetRunning \/ (\E w \in Worker : CreateWorker(w)) \/ CreateFails

StopSteps(t) == StopWorker(t) \/ TestHandle(t) \/ JoinEnds(t) \/ ClearGlobals(t)

Session(w) ==
    \/ SessionLoop(w) \/ ReadUpdate(w) \/ ReadNothing(w) \/ ReadClosed(w)
    \/ ReadReset(w) \/ LeaveSession(w)

WorkerMoves(w) ==
    \/ Top(w) \/ CopyHash(w) \/ Sleep(w) \/ Connect(w) \/ ConnectFails(w)
    \/ HelloOk(w) \/ HelloRejected(w) \/ LogConnected(w) \/ Session(w)

Environment ==
    \/ Synchronized \/ UserEvent \/ UserRemoved \/ Disconnected \/ Shutdown
    \/ BridgeChanges \/ \E w \in Worker : LinkCloses(w)

Next ==
    \/ Environment
    \/ MainCallback
    \/ \E t \in Thread : StopSteps(t)
    \/ \E w \in Worker : WorkerMoves(w) \/ PingClosed(w)

Spec == Init /\ [][Next]_vars

\* No call of a worker or a callback lasts for ever: the reads and the join
\* time out, connect and Sleep return, and the pings are sent.  A bridge that
\* is asked again and again greets the client in the end.
Fairness ==
    /\ WF_vars(MainCallback)
    /\ \A t \in Thread : WF_vars(StopSteps(t))
    /\ \A w \in Worker :
        WF_vars(WorkerMoves(w)) /\ WF_vars(PingClosed(w)) /\ SF_vars(HelloOk(w))
FairSpec == Spec /\ Fairness

--------------------------------------------------------------------------------
(***************************************************************************)
(* Properties.                                                             *)
(***************************************************************************)
SharedTypeOK ==
    /\ running \in BOOLEAN /\ online \in BOOLEAN /\ roster \in BOOLEAN /\ lock \in BOOLEAN
    /\ handle \in Worker \cup {NoWorker}
    /\ localHash \in Hash \cup {NoHash} /\ states \in Hash \cup {NoHash}
    /\ bridge \in BOOLEAN

WorkersTypeOK ==
    /\ worker \in [Worker -> WorkerStates]
    /\ as \in [Worker -> Hash \cup {NoHash}]
    /\ link \in [Worker -> {"none", "up", "closed", "reset"}]
    /\ timedOut \in [Worker -> BOOLEAN]

HostTypeOK ==
    /\ pc \in [Thread -> ThreadStates]
    /\ callback \in {"none", "sync", "user", "removed", "shutdown"}
    /\ joining \in [Thread -> Worker \cup {NoWorker}]
    /\ \A t \in Thread : pc[t] = "join" => joining[t] # NoWorker
    /\ mumble \in BOOLEAN /\ events \in Nat /\ strays \subseteq Worker

\* Types; a thread that waits, waits for a worker.
TypeOK == SharedTypeOK /\ WorkersTypeOK /\ HostTypeOK

\* No start is lost: however stop_worker and start_worker_if_needed
\* interleave, while the flag is set there is a worker, or one is about to
\* be created; so skipping the start is right whenever the flag is set.
RunningHasWorker ==
    running => pc["main"] = "create" \/ \E w \in Worker : Live(w)

\* Gains never outlive the connection they came over: while the table is not
\* empty, a worker that speaks for that local hash is in its session and
\* will clear it on the way out.
GainsHaveASession ==
    states # NoHash => \E w \in Worker : InSession(w) /\ as[w] = states

\* A worker that reads from a closed connection notices, whatever the last
\* socket error says, and leaves the session.
CloseIsNoticed ==
    \A w \in Worker : link[w] \in {"closed", "reset"} ~> link[w] = "none"

\* No callback hangs: stop_worker waits for a worker that may be waiting for
\* the main thread, but only for six seconds.
CallbacksReturn ==
    \A t \in Thread : pc[t] # "idle" ~> pc[t] \in {"idle", "gone"}

\* Once the flag stays cleared, every worker ends, those that stop_worker no
\* longer waited for too.
StoppedWorkersEnd ==
    <>[]~running => <>[](\A w \in Worker : ~Live(w))

\* While Mumble stays online with a known hash, the flag stays set and the
\* bridge is up, some worker gets through to a session.
SettledClientConnects ==
    <>[](online /\ localHash # NoHash /\ running /\ bridge /\ pc["main"] = "idle")
        => []<>(\E w \in Worker : InSession(w))

\* At most one worker at a time, but for strays: whatever order the callbacks
\* of the two threads, the joins and their timeouts come in, a worker that is
\* neither is started twice nor out of reach of the next stop.
OneWorker ==
    \A w \in Worker : Live(w) /\ w \notin strays => w = handle

\* Between connections, and once mumble_shutdown has returned, whoever is
\* alive is a stray: a worker that a stop waited for and gave up on, or that
\* a callback interrupted by the stop created or overwrote.
QuietAfterDisconnect ==
    ~online => \A w \in Worker : Live(w) => w \in strays

\* The gains that are applied are those of the local user, or those of the
\* identity of a stray that is still in its session: nobody else's survive a
\* reconnection under another certificate.
GainsAreOurs ==
    states \in {NoHash, localHash} \cup {as[w] : w \in {v \in strays : InSession(v)}}

\* If no join gives up on a worker in a call of its own and callbacks do not
\* overlap (Patient = {}, Overlap = FALSE), then a worker that outlives
\* mumble_shutdown was waiting to log that it is connected, and only leaves
\* its session.
ShutdownLeavesALoggerAtMost ==
    pc["main"] = "gone" =>
        \A v, w \in Worker : Live(v) /\ Live(w) =>
            v = w /\ worker[w] \in {"log", "session", "leave", "top"}

--------------------------------------------------------------------------------
(***************************************************************************)
(* What the documents say and the code does not do.                        *)
(***************************************************************************)
\* third_party/mumble/MumblePlugin.h: mumble_shutdown is called "when
\* unloading the plugin in order to allow it to clean up after itself".  A
\* worker that is left runs unloaded code and enters a deleted lock.
ShutdownLeavesNoWorker ==
    pc["main"] = "gone" => \A w \in Worker : ~Live(w)
================================================================================
