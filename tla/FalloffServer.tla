----------------------------- MODULE FalloffServer -----------------------------
(***************************************************************************)
(* The bridge's falloff TCP server, bridge/exile_bridge/falloff_server.py: *)
(* an accept loop, one handler thread per connection, and the bridge's     *)
(* main thread that publishes to every registered client and finally stops *)
(* the server.  The threads share the registry _clients, which they read   *)
(* and write in separate steps, sometimes under the lock and sometimes     *)
(* not; each step below is one such access.                                *)
(*                                                                         *)
(* A line is written or not written as a whole.  What a stalled client     *)
(* saw of a line whose write timed out does not matter here: the server    *)
(* drops it.                                                               *)
(***************************************************************************)
EXTENDS Naturals, Sequences

CONSTANTS
    Conn,        \* the TCP connections clients may open
    Hash,        \* Mumble certificate hashes, in lower case
    Key,         \* hashes as the identity map spells them (any case)
    Lower,       \* str.lower() on Key
    NoConn, NoHash,
    MaxRounds,   \* bound on publish() rounds
    MaxLines     \* a connection sent this many lines no longer pings

ASSUME FalloffAssumption ==
    /\ Hash \subseteq Key
    /\ Lower \in [Key -> Hash]
    /\ \A h \in Hash : Lower[h] = h
    /\ NoConn \notin Conn
    /\ NoHash \notin Key
    /\ MaxRounds \in Nat /\ MaxLines \in Nat

VARIABLES
    handler,    \* where each connection's handler thread is
    name,       \* its local variable mumble_hash, NoHash for ""
    open,       \* connections whose server-side socket is open
    peer,       \* the client end of each connection
    sent,       \* the lines written to each connection, oldest first
    registry,   \* _clients: the connection registered for each hash
    main,       \* where the main thread is in publish() and stop()
    snapshot,   \* publish()'s copy of _clients
    matrix,     \* the keys of the matrix being published
    todo,       \* the listener hashes publish() has still to serve
    rounds      \* publish() rounds so far

vars == <<handler, name, open, peer, sent, registry,
          main, snapshot, matrix, todo, rounds>>
publishVars == <<main, snapshot, matrix, todo, rounds>>

Line == [cmd : {"OK", "ERR", "UPDATE2"}, of : Key \cup {NoHash}]
OkLine == [cmd |-> "OK", of |-> NoHash]
ErrLine == [cmd |-> "ERR", of |-> NoHash]
\* UPDATE2 with the states of matrix key k; NoHash is the empty update.
UpdateLine(k) == [cmd |-> "UPDATE2", of |-> k]

HandlerStates == {"free", "hello", "evict", "register", "greet", "clear",
                  "loop", "drop", "close", "done"}

Init ==
    /\ handler = [c \in Conn |-> "free"]
    /\ name = [c \in Conn |-> NoHash]
    /\ open = {}
    /\ peer = [c \in Conn |-> "up"]
    /\ sent = [c \in Conn |-> <<>>]
    /\ registry = [h \in Hash |-> NoConn]
    /\ main = "idle"
    /\ snapshot = [h \in Hash |-> NoConn]
    /\ matrix = {}
    /\ todo = {}
    /\ rounds = 0

(***************************************************************************)
(* Sockets.  A write to a socket another thread closed raises OSError; a   *)
(* write to a client that hung up or stopped reading may raise it (reset,  *)
(* timeout) or land in the send buffer; any other write succeeds.          *)
(***************************************************************************)
SendFails(c) == c \notin open \/ peer[c] # "up"
Write(c, line) == c \in open /\ sent' = [sent EXCEPT ![c] = Append(@, line)]
Goto(c, state) == handler' = [handler EXCEPT ![c] = state]

\* handler[c] writes a line and goes on, or leaves for its finally clause.
WriteOrDrop(c, line, next) ==
    \/ Write(c, line) /\ Goto(c, next)
    \/ SendFails(c) /\ Goto(c, "drop") /\ UNCHANGED sent

\* _drop_client(h): whichever connection is registered for h is removed
\* and closed, also when it is not the one the caller is cleaning up.  The code
\* closes it after the lock: nobody finds the connection any more, and what its
\* handler or a publish() that has a copy of the registry does with it in
\* between could as well have happened before it was removed.
DropClient(h) ==
    /\ registry' = [registry EXCEPT ![h] = NoConn]
    /\ open' = open \ {registry[h]}

(***************************************************************************)
(* The client end and the accept loop.                                     *)
(***************************************************************************)
PeerStalls(c) ==
    /\ handler[c] # "free" /\ peer[c] = "up"
    /\ peer' = [peer EXCEPT ![c] = "stalled"]
    /\ UNCHANGED <<handler, name, open, sent, registry, publishVars>>

PeerHangsUp(c) ==
    /\ handler[c] # "free" /\ peer[c] # "down"
    /\ peer' = [peer EXCEPT ![c] = "down"]
    /\ UNCHANGED <<handler, name, open, sent, registry, publishVars>>

Accept(c) ==
    /\ handler[c] = "free"
    /\ main \notin {"closing", "stopped"}
    /\ Goto(c, "hello")
    /\ open' = open \cup {c}
    /\ UNCHANGED <<name, peer, sent, registry, publishVars>>

(***************************************************************************)
(* _handle_client: the HELLO line.                                         *)
(***************************************************************************)
\* Ten seconds without a byte, or a reset: OSError, and nobody to drop.
HelloFails(c) ==
    /\ handler[c] = "hello"
    /\ Goto(c, "close")
    /\ UNCHANGED <<name, open, peer, sent, registry, publishVars>>

Refuse(c) ==
    /\ handler[c] = "hello"
    /\ \/ Write(c, ErrLine) /\ open' = open \ {c}
       \/ SendFails(c) /\ UNCHANGED <<sent, open>>
    /\ UNCHANGED <<peer, registry, publishVars>>

\* End of file, not a HELLO, or a hash that is not 40 hex digits:
\* mumble_hash is (or is set back to) "".
HelloRejected(c) ==
    /\ Refuse(c)
    /\ Goto(c, "close")
    /\ UNCHANGED name

\* Wrong on purpose: the close and the return after ERR are missing.
ServedUnauthorized(c, h) ==
    /\ handler[c] = "hello"
    /\ name' = [name EXCEPT ![c] = h]
    /\ WriteOrDrop(c, ErrLine, "evict")
    /\ UNCHANGED <<open, peer, registry, publishVars>>

\* A wrong API key: mumble_hash was already assigned, so the finally clause
\* drops whichever client is registered for that hash.
HelloUnauthorized(c, h) ==
    /\ Refuse(c)
    /\ name' = [name EXCEPT ![c] = h]
    /\ Goto(c, "drop")

HelloAccepted(c, h) ==
    /\ handler[c] = "hello"
    /\ name' = [name EXCEPT ![c] = h]
    /\ Goto(c, "evict")
    /\ UNCHANGED <<open, peer, sent, registry, publishVars>>

(***************************************************************************)
(* _handle_client: registration and greeting.                              *)
(***************************************************************************)
\* Under the lock: close the connection registered for this hash.
EvictOld(c) ==
    /\ handler[c] = "evict"
    /\ open' = open \ {registry[name[c]]}
    /\ Goto(c, "register")
    /\ UNCHANGED <<name, peer, sent, registry, publishVars>>

\* Wrong on purpose: the client registered for the hash is closed after the
\* new one took its place.
RegisterThenEvict(c) ==
    /\ handler[c] = "register"
    /\ registry' = [registry EXCEPT ![name[c]] = c]
    /\ open' = open \ {registry'[name[c]]}
    /\ Goto(c, "greet")
    /\ UNCHANGED <<name, peer, sent, publishVars>>

\* Outside the lock: take its place.
Register(c) ==
    /\ handler[c] = "register"
    /\ registry' = [registry EXCEPT ![name[c]] = c]
    /\ Goto(c, "greet")
    /\ UNCHANGED <<name, open, peer, sent, publishVars>>

SendOk(c) ==
    /\ handler[c] = "greet"
    /\ WriteOrDrop(c, OkLine, "clear")
    /\ UNCHANGED <<name, open, peer, registry, publishVars>>

SendClear(c) ==
    /\ handler[c] = "clear"
    /\ WriteOrDrop(c, UpdateLine(NoHash), "loop")
    /\ UNCHANGED <<name, open, peer, registry, publishVars>>

(***************************************************************************)
(* _handle_client: the read loop and the finally clause.                   *)
(***************************************************************************)
ReadPing(c) ==
    /\ handler[c] = "loop" /\ c \in open
    /\ Len(sent[c]) < MaxLines
    /\ WriteOrDrop(c, OkLine, "loop")
    /\ UNCHANGED <<name, open, peer, registry, publishVars>>

\* _read_line forgets what it read when it times out.  If the end of PING\n
\* arrives alone, the line read is blank, which the loop takes for the end.
ReadBlank(c) ==
    /\ handler[c] = "loop" /\ c \in open
    /\ Goto(c, "drop")
    /\ UNCHANGED <<name, open, peer, sent, registry, publishVars>>

\* Wrong on purpose: every empty read is taken for a timeout.
LeaveOnStopOnly(c) ==
    /\ handler[c] = "loop"
    /\ main \in {"stopping", "closing", "stopped"}
    /\ Goto(c, "drop")
    /\ UNCHANGED <<name, open, peer, sent, registry, publishVars>>

\* Stop event, end of file, or a socket another thread closed.
LeaveLoop(c) ==
    /\ handler[c] = "loop"
    /\ \/ main \in {"stopping", "closing", "stopped"}
       \/ peer[c] = "down"
       \/ c \notin open
    /\ Goto(c, "drop")
    /\ UNCHANGED <<name, open, peer, sent, registry, publishVars>>

\* Wrong on purpose: the finally clause forgets the registry.
DropNothing(c) ==
    /\ handler[c] = "drop"
    /\ Goto(c, "close")
    /\ UNCHANGED <<name, open, peer, sent, registry, publishVars>>

DropSelf(c) ==
    /\ handler[c] = "drop"
    /\ DropClient(name[c])
    /\ Goto(c, "close")
    /\ UNCHANGED <<name, peer, sent, publishVars>>

CloseSelf(c) ==
    /\ handler[c] = "close"
    /\ open' = open \ {c}
    /\ Goto(c, "done")
    /\ UNCHANGED <<name, peer, sent, registry, publishVars>>

(***************************************************************************)
(* The main thread: publish() and stop().  A publish() that comes too soon *)
(* after the last one returns at once and changes nothing.                 *)
(***************************************************************************)
\* Wrong on purpose: hashes without a client are served, too.
BeginPublishToAll(M) ==
    /\ main = "idle" /\ rounds < MaxRounds
    /\ main' = "send"
    /\ rounds' = rounds + 1
    /\ snapshot' = registry
    /\ matrix' = M
    /\ todo' = M \cup Hash
    /\ UNCHANGED <<handler, name, open, peer, sent, registry>>

\* The lock is held for the copy of _clients only.
BeginPublish(M) ==
    /\ main = "idle" /\ rounds < MaxRounds
    /\ main' = "send"
    /\ rounds' = rounds + 1
    /\ snapshot' = registry
    /\ matrix' = M
    /\ todo' = {k \in M \cup Hash : registry[Lower[k]] # NoConn}
    /\ UNCHANGED <<handler, name, open, peer, sent, registry>>

\* Wrong on purpose: the states of another listener of the matrix are sent.
SendAnyUpdate(k) ==
    /\ main = "send" /\ k \in todo
    /\ \E j \in matrix : Write(snapshot[Lower[k]], UpdateLine(j))
    /\ todo' = todo \ {k}
    /\ UNCHANGED <<handler, name, open, peer, registry, main, snapshot, matrix, rounds>>

SendUpdate(k) ==
    /\ main = "send" /\ k \in todo
    /\ Write(snapshot[Lower[k]], UpdateLine(IF k \in matrix THEN k ELSE NoHash))
    /\ todo' = todo \ {k}
    /\ UNCHANGED <<handler, name, open, peer, registry, main, snapshot, matrix, rounds>>

\* The write raised: drop whoever is registered for the hash by now.
SendUpdateFails(k) ==
    /\ main = "send" /\ k \in todo
    /\ SendFails(snapshot[Lower[k]])
    /\ DropClient(Lower[k])
    /\ todo' = todo \ {k}
    /\ UNCHANGED <<handler, name, peer, sent, main, snapshot, matrix, rounds>>

EndPublish ==
    /\ main = "send" /\ todo = {}
    /\ main' = "idle"
    /\ snapshot' = [h \in Hash |-> NoConn]
    /\ matrix' = {}
    /\ UNCHANGED <<handler, name, open, peer, sent, registry, todo, rounds>>

\* Bridge.run's finally clause, reached between ticks or in the middle of one.
StopSignal ==
    /\ main \in {"idle", "send"}
    /\ main' = "stopping"
    /\ snapshot' = [h \in Hash |-> NoConn]
    /\ matrix' = {}
    /\ todo' = {}
    /\ UNCHANGED <<handler, name, open, peer, sent, registry, rounds>>

StopListener ==
    /\ main = "stopping"
    /\ main' = "closing"
    /\ UNCHANGED <<handler, name, open, peer, sent, registry, snapshot, matrix, todo, rounds>>

StopClear ==
    /\ main = "closing"
    /\ main' = "stopped"
    /\ open' = {c \in open : \A h \in Hash : registry[h] # c}
    /\ registry' = [h \in Hash |-> NoConn]
    /\ UNCHANGED <<handler, name, peer, sent, snapshot, matrix, todo, rounds>>

--------------------------------------------------------------------------------
\* The steps of a handler thread.
HandlerStep(c) ==
    \/ HelloFails(c) \/ EvictOld(c) \/ Register(c) \/ SendOk(c) \/ SendClear(c)
    \/ LeaveLoop(c) \/ DropSelf(c) \/ CloseSelf(c)

\* The steps a client causes.
ClientStep(c) ==
    \/ PeerStalls(c) \/ PeerHangsUp(c) \/ Accept(c) \/ HelloRejected(c)
    \/ \E h \in Hash : HelloUnauthorized(c, h) \/ HelloAccepted(c, h)
    \/ ReadPing(c) \/ ReadBlank(c)

Stop == StopSignal \/ StopListener \/ StopClear

MainStep ==
    \/ \E M \in SUBSET Key : BeginPublish(M)
    \/ \E k \in Key : SendUpdate(k) \/ SendUpdateFails(k)
    \/ EndPublish
    \/ Stop

Next ==
    \/ \E c \in Conn : HandlerStep(c) \/ ClientStep(c)
    \/ MainStep

Spec == Init /\ [][Next]_vars

\* A read from a dead or closed socket returns or raises at once, and a write
\* does so within its timeout.  A read from a live client may last for ever:
\* the timeout is per byte, so a client that drips bytes postpones it.
Fairness == \A c \in Conn :
    WF_vars(HandlerStep(c) /\ (handler[c] \in {"hello", "loop"} =>
                                   peer[c] = "down" \/ c \notin open))
FairSpec == Spec /\ Fairness

--------------------------------------------------------------------------------
(***************************************************************************)
(* Properties.                                                             *)
(***************************************************************************)
\* States in which a handler has claimed a hash / may be registered for it.
Named == {"evict", "register", "greet", "clear", "loop", "drop"}
Registrable == {"greet", "clear", "loop", "drop"}

\* Types; a handler past HELLO has a hash; publish() only ever serves
\* listeners that were in its copy of the registry.
TypeOK ==
    /\ handler \in [Conn -> HandlerStates]
    /\ name \in [Conn -> Hash \cup {NoHash}]
    /\ \A c \in Conn : handler[c] \in Named => name[c] \in Hash
    /\ open \subseteq Conn
    /\ peer \in [Conn -> {"up", "stalled", "down"}]
    /\ sent \in [Conn -> Seq(Line)]
    /\ registry \in [Hash -> Conn \cup {NoConn}]
    /\ main \in {"idle", "send", "stopping", "closing", "stopped"}
    /\ snapshot \in [Hash -> Conn \cup {NoConn}]
    /\ matrix \subseteq Key
    /\ todo \subseteq {k \in Key : snapshot[Lower[k]] # NoConn}
    /\ rounds \in Nat

\* The registry never outlives a handler: whatever order evictions, failed
\* sends and finally clauses run in, a registered connection has a live
\* handler that will still clean up, and a finished one leaves neither a
\* registration nor an open socket behind.
NoLeak ==
    /\ \A h \in Hash : registry[h] # NoConn => handler[registry[h]] \in Registrable
    /\ \A c \in Conn : handler[c] = "done" => c \notin open

\* _drop_client drops by hash, not by connection, so connections of one
\* hash disturb one another.  That is the only disturbance: a responsive
\* client whose hash no other connection ever named stays registered and
\* open until stop(), whatever happens to all the others.
SoleConnectionStaysUp ==
    \A c \in Conn :
        /\ handler[c] \in {"greet", "clear", "loop"}
        /\ peer[c] = "up"
        /\ main # "stopped"
        /\ \A d \in Conn \ {c} : name[d] # name[c]
        => c \in open /\ registry[name[c]] = c

\* A refused client is told ERR and nothing else is ever written to it: it
\* is not in the registry, nor in a copy of the registry a publish() holds.
RefusedGetsNothing ==
    \A c \in Conn : \A i \in 1..Len(sent[c]) :
        sent[c][i].cmd = "ERR" => Len(sent[c]) = 1

\* Once the client has hung up, or another thread (an eviction, a failed
\* publish, stop) has closed its socket, a handler runs to the end of its
\* finally clause.
HandlersFinish ==
    \A c \in Conn :
        handler[c] # "free" /\ (peer[c] = "down" \/ c \notin open)
            ~> handler[c] = "done"

\* The server implements ListenerBinding: a connection claims one hash, and
\* all the speaker states written to it are that hash's.
Heard(lines) ==
    {Lower[lines[i].of] : i \in {j \in 1..Len(lines) : lines[j].of # NoHash}}
Binding == INSTANCE ListenerBinding WITH
    owner <- name, bound <- registry, heard <- [c \in Conn |-> Heard(sent[c])]
ListenersGetTheirOwnStates == Binding!Spec

--------------------------------------------------------------------------------
(***************************************************************************)
(* What the documents say and the code does not do.                        *)
(***************************************************************************)
\* README.md: the bridge "sends gain/pan updates to the plugin".  A client
\* that was greeted, is responsive and not disconnected is one that
\* publish() serves.  Two handlers of one hash that both evict before either
\* registers are enough to violate it.
NoClientIsForgotten ==
    \A c \in Conn :
        handler[c] = "loop" /\ peer[c] = "up" /\ c \in open => registry[name[c]] = c
================================================================================
