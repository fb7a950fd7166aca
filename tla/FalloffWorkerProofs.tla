-------------------------- MODULE FalloffWorkerProofs --------------------------
(***************************************************************************)
(* Proofs about FalloffWorker, for any number of workers, hashes and       *)
(* callbacks.  Each invariant has a lemma that every step preserves it,    *)
(* with a case per action of the host and one for the worker threads.      *)
(***************************************************************************)
EXTENDS FalloffWorker, TLAPS

\* A step of a worker thread or of its connection.
WorkerMove(w) == WorkerMoves(w) \/ PingClosed(w) \/ LinkCloses(w)

--------------------------------------------------------------------------------
(***************************************************************************)
(* Types, in every step.                                                   *)
(***************************************************************************)
\* Every step keeps every variable in its type.
LEMMA TypeStep ==
    TypeOK /\ [Next]_vars => TypeOK'
<1> SUFFICES ASSUME TypeOK, [Next]_vars PROVE TypeOK'
  OBVIOUS
<1> USE DEF Step, WorkerStep, OnlyWorker, shared, workers, host
<1>0. SharedTypeOK /\ WorkersTypeOK /\ HostTypeOK
  BY DEF TypeOK
<1>1. CASE Synchronized
  <2>1. SharedTypeOK'
    BY <1>0, <1>1 DEF Synchronized, SharedTypeOK
  <2>2. WorkersTypeOK'
    BY <1>0, <1>1 DEF Synchronized, WorkersTypeOK, WorkerStates
  <2>3. HostTypeOK'
    BY <1>0, <1>1 DEF Synchronized, HostTypeOK, ThreadStates, Thread, Begin
  <2> QED
    BY <2>1, <2>2, <2>3 DEF TypeOK
<1>2. CASE UserEvent
  <2>1. SharedTypeOK'
    BY <1>0, <1>2 DEF UserEvent, SharedTypeOK
  <2>2. WorkersTypeOK'
    BY <1>0, <1>2 DEF UserEvent, WorkersTypeOK, WorkerStates
  <2>3. HostTypeOK'
    BY <1>0, <1>2 DEF UserEvent, HostTypeOK, ThreadStates, Thread, Begin
  <2> QED
    BY <2>1, <2>2, <2>3 DEF TypeOK
<1>3. CASE UserRemoved
  <2>1. SharedTypeOK'
    BY <1>0, <1>3 DEF UserRemoved, SharedTypeOK
  <2>2. WorkersTypeOK'
    BY <1>0, <1>3 DEF UserRemoved, WorkersTypeOK, WorkerStates
  <2>3. HostTypeOK'
    BY <1>0, <1>3 DEF UserRemoved, HostTypeOK, ThreadStates, Thread, Begin
  <2> QED
    BY <2>1, <2>2, <2>3 DEF TypeOK
<1>4. CASE Disconnected
  <2>1. SharedTypeOK'
    BY <1>0, <1>4 DEF Disconnected, SharedTypeOK
  <2>2. WorkersTypeOK'
    BY <1>0, <1>4 DEF Disconnected, WorkersTypeOK, WorkerStates
  <2>3. HostTypeOK'
    BY <1>0, <1>4 DEF Disconnected, HostTypeOK, ThreadStates, Thread
  <2> QED
    BY <2>1, <2>2, <2>3 DEF TypeOK
<1>5. CASE Shutdown
  <2>1. SharedTypeOK'
    BY <1>0, <1>5 DEF Shutdown, SharedTypeOK
  <2>2. WorkersTypeOK'
    BY <1>0, <1>5 DEF Shutdown, WorkersTypeOK, WorkerStates
  <2>3. HostTypeOK'
    BY <1>0, <1>5 DEF Shutdown, HostTypeOK, ThreadStates, Thread
  <2> QED
    BY <2>1, <2>2, <2>3 DEF TypeOK
<1>6. CASE BridgeChanges
  <2>1. SharedTypeOK'
    BY <1>0, <1>6 DEF BridgeChanges, SharedTypeOK
  <2>2. WorkersTypeOK'
    BY <1>0, <1>6 DEF BridgeChanges, WorkersTypeOK, WorkerStates
  <2>3. HostTypeOK'
    BY <1>0, <1>6 DEF BridgeChanges, HostTypeOK, ThreadStates, Thread
  <2> QED
    BY <2>1, <2>2, <2>3 DEF TypeOK
<1>7. CASE UpdateHash
  <2>1. SharedTypeOK'
    BY <1>0, <1>7 DEF UpdateHash, SharedTypeOK
  <2>2. WorkersTypeOK'
    BY <1>0, <1>7 DEF UpdateHash, WorkersTypeOK, WorkerStates
  <2>3. HostTypeOK'
    BY <1>0, <1>7 DEF UpdateHash, HostTypeOK, ThreadStates, Thread
  <2> QED
    BY <2>1, <2>2, <2>3 DEF TypeOK
<1>8. ASSUME NEW h \in Hash \cup {NoHash}, StoreHash(h) PROVE TypeOK'
  <2>1. SharedTypeOK'
    BY <1>0, <1>8 DEF StoreHash, SharedTypeOK
  <2>2. WorkersTypeOK'
    BY <1>0, <1>8 DEF StoreHash, WorkersTypeOK, WorkerStates
  <2>3. HostTypeOK'
    BY <1>0, <1>8 DEF StoreHash, HostTypeOK, ThreadStates, Thread
  <2> QED
    BY <2>1, <2>2, <2>3 DEF TypeOK
<1>9. CASE Refresh
  <2>1. SharedTypeOK'
    BY <1>0, <1>9 DEF Refresh, SharedTypeOK
  <2>2. WorkersTypeOK'
    BY <1>0, <1>9 DEF Refresh, WorkersTypeOK, WorkerStates
  <2>3. HostTypeOK'
    BY <1>0, <1>9 DEF Refresh, AfterRefresh, HostTypeOK, ThreadStates, Thread
  <2> QED
    BY <2>1, <2>2, <2>3 DEF TypeOK
<1>10. CASE StartNotNeeded
  <2>1. SharedTypeOK'
    BY <1>0, <1>10 DEF StartNotNeeded, SharedTypeOK
  <2>2. WorkersTypeOK'
    BY <1>0, <1>10 DEF StartNotNeeded, WorkersTypeOK, WorkerStates
  <2>3. HostTypeOK'
    BY <1>0, <1>10 DEF StartNotNeeded, HostTypeOK, ThreadStates, Thread
  <2> QED
    BY <2>1, <2>2, <2>3 DEF TypeOK
<1>11. CASE SetRunning
  <2>1. SharedTypeOK'
    BY <1>0, <1>11 DEF SetRunning, SharedTypeOK
  <2>2. WorkersTypeOK'
    BY <1>0, <1>11 DEF SetRunning, WorkersTypeOK, WorkerStates
  <2>3. HostTypeOK'
    BY <1>0, <1>11 DEF SetRunning, HostTypeOK, ThreadStates, Thread
  <2> QED
    BY <2>1, <2>2, <2>3 DEF TypeOK
<1>12. ASSUME NEW w \in Worker, CreateWorker(w) PROVE TypeOK'
  <2>1. SharedTypeOK'
    BY <1>0, <1>12 DEF CreateWorker, SharedTypeOK
  <2>2. WorkersTypeOK'
    BY <1>0, <1>12 DEF CreateWorker, WorkersTypeOK, WorkerStates
  <2>3. HostTypeOK'
    BY <1>0, <1>12 DEF CreateWorker, SharedTypeOK, HostTypeOK, ThreadStates, Thread
  <2> QED
    BY <2>1, <2>2, <2>3 DEF TypeOK
<1>13. CASE CreateFails
  <2>1. SharedTypeOK'
    BY <1>0, <1>13 DEF CreateFails, SharedTypeOK
  <2>2. WorkersTypeOK'
    BY <1>0, <1>13 DEF CreateFails, WorkersTypeOK, WorkerStates
  <2>3. HostTypeOK'
    BY <1>0, <1>13 DEF CreateFails, SharedTypeOK, HostTypeOK, ThreadStates, Thread
  <2> QED
    BY <2>1, <2>2, <2>3 DEF TypeOK
<1>14. ASSUME NEW t \in Thread, StopWorker(t) PROVE TypeOK'
  <2>1. SharedTypeOK'
    BY <1>0, <1>14 DEF StopWorker, SharedTypeOK
  <2>2. WorkersTypeOK'
    BY <1>0, <1>14 DEF StopWorker, WorkersTypeOK, WorkerStates
  <2>3. HostTypeOK'
    BY <1>0, <1>14 DEF StopWorker, HostTypeOK, ThreadStates, Thread
  <2> QED
    BY <2>1, <2>2, <2>3 DEF TypeOK
<1>15. ASSUME NEW t \in Thread, JoinEnds(t) PROVE TypeOK'
  <2>1. SharedTypeOK'
    BY <1>0, <1>15 DEF JoinEnds, SharedTypeOK
  <2>2. WorkersTypeOK'
    BY <1>0, <1>15 DEF JoinEnds, WorkersTypeOK, WorkerStates
  <2>3. HostTypeOK'
    BY <1>0, <1>15 DEF JoinEnds, HostTypeOK, ThreadStates, Thread
  <2> QED
    BY <2>1, <2>2, <2>3 DEF TypeOK
<1>16. ASSUME NEW t \in Thread, ClearGlobals(t) PROVE TypeOK'
  <2>1. SharedTypeOK'
    BY <1>0, <1>16 DEF ClearGlobals, SharedTypeOK
  <2>2. WorkersTypeOK'
    BY <1>0, <1>16 DEF ClearGlobals, WorkersTypeOK, WorkerStates
  <2>3. HostTypeOK'
    BY <1>0, <1>16 DEF ClearGlobals, HostTypeOK, ThreadStates, Thread
  <2> QED
    BY <2>1, <2>2, <2>3 DEF TypeOK
<1>17. ASSUME NEW w \in Worker, WorkerMove(w) PROVE TypeOK'
  <2>1. CASE Top(w)
    <3>1. SharedTypeOK'
      BY <1>0, <2>1 DEF Top, SharedTypeOK
    <3>2. WorkersTypeOK'
      BY <1>0, <2>1 DEF Top, WorkersTypeOK, WorkerStates
    <3>3. HostTypeOK'
      BY <1>0, <2>1 DEF Top, HostTypeOK, ThreadStates, Thread
    <3> QED
      BY <3>1, <3>2, <3>3 DEF TypeOK
  <2>2. CASE CopyHash(w)
    <3>1. SharedTypeOK'
      BY <1>0, <2>2 DEF CopyHash, SharedTypeOK
    <3>2. WorkersTypeOK'
      BY <1>0, <2>2 DEF CopyHash, WorkersTypeOK, SharedTypeOK, WorkerStates
    <3>3. HostTypeOK'
      BY <1>0, <2>2 DEF CopyHash, HostTypeOK, ThreadStates, Thread
    <3> QED
      BY <3>1, <3>2, <3>3 DEF TypeOK
  <2>3. CASE Sleep(w)
    <3>1. SharedTypeOK'
      BY <1>0, <2>3 DEF Sleep, SharedTypeOK
    <3>2. WorkersTypeOK'
      BY <1>0, <2>3 DEF Sleep, WorkersTypeOK, WorkerStates
    <3>3. HostTypeOK'
      BY <1>0, <2>3 DEF Sleep, HostTypeOK, ThreadStates, Thread
    <3> QED
      BY <3>1, <3>2, <3>3 DEF TypeOK
  <2>4. CASE Connect(w)
    <3>1. SharedTypeOK'
      BY <1>0, <2>4 DEF Connect, SharedTypeOK
    <3>2. WorkersTypeOK'
      BY <1>0, <2>4 DEF Connect, WorkersTypeOK, WorkerStates
    <3>3. HostTypeOK'
      BY <1>0, <2>4 DEF Connect, HostTypeOK, ThreadStates, Thread
    <3> QED
      BY <3>1, <3>2, <3>3 DEF TypeOK
  <2>5. CASE ConnectFails(w)
    <3>1. SharedTypeOK'
      BY <1>0, <2>5 DEF ConnectFails, SharedTypeOK
    <3>2. WorkersTypeOK'
      BY <1>0, <2>5 DEF ConnectFails, WorkersTypeOK, WorkerStates
    <3>3. HostTypeOK'
      BY <1>0, <2>5 DEF ConnectFails, HostTypeOK, ThreadStates, Thread
    <3> QED
      BY <3>1, <3>2, <3>3 DEF TypeOK
  <2>6. CASE HelloOk(w)
    <3>1. SharedTypeOK'
      BY <1>0, <2>6 DEF HelloOk, SharedTypeOK
    <3>2. WorkersTypeOK'
      BY <1>0, <2>6 DEF HelloOk, WorkersTypeOK, WorkerStates
    <3>3. HostTypeOK'
      BY <1>0, <2>6 DEF HelloOk, HostTypeOK, ThreadStates, Thread
    <3> QED
      BY <3>1, <3>2, <3>3 DEF TypeOK
  <2>7. CASE HelloRejected(w)
    <3>1. SharedTypeOK'
      BY <1>0, <2>7 DEF HelloRejected, SharedTypeOK
    <3>2. WorkersTypeOK'
      BY <1>0, <2>7 DEF HelloRejected, WorkersTypeOK, WorkerStates
    <3>3. HostTypeOK'
      BY <1>0, <2>7 DEF HelloRejected, HostTypeOK, ThreadStates, Thread
    <3> QED
      BY <3>1, <3>2, <3>3 DEF TypeOK
  <2>8. CASE LogConnected(w)
    <3>1. SharedTypeOK'
      BY <1>0, <2>8 DEF LogConnected, SharedTypeOK
    <3>2. WorkersTypeOK'
      BY <1>0, <2>8 DEF LogConnected, WorkersTypeOK, WorkerStates
    <3>3. HostTypeOK'
      BY <1>0, <2>8 DEF LogConnected, HostTypeOK, ThreadStates, Thread
    <3> QED
      BY <3>1, <3>2, <3>3 DEF TypeOK
  <2>9. CASE SessionLoop(w)
    <3>1. SharedTypeOK'
      BY <1>0, <2>9 DEF SessionLoop, SharedTypeOK
    <3>2. WorkersTypeOK'
      BY <1>0, <2>9 DEF SessionLoop, WorkersTypeOK, WorkerStates
    <3>3. HostTypeOK'
      BY <1>0, <2>9 DEF SessionLoop, HostTypeOK, ThreadStates, Thread
    <3> QED
      BY <3>1, <3>2, <3>3 DEF TypeOK
  <2>10. CASE ReadUpdate(w)
    <3>1. SharedTypeOK'
      BY <1>0, <2>10 DEF ReadUpdate, SharedTypeOK, WorkersTypeOK
    <3>2. WorkersTypeOK'
      BY <1>0, <2>10 DEF ReadUpdate, WorkersTypeOK, WorkerStates
    <3>3. HostTypeOK'
      BY <1>0, <2>10 DEF ReadUpdate, HostTypeOK, ThreadStates, Thread
    <3> QED
      BY <3>1, <3>2, <3>3 DEF TypeOK
  <2>11. CASE ReadNothing(w)
    <3>1. SharedTypeOK'
      BY <1>0, <2>11 DEF ReadNothing, SharedTypeOK
    <3>2. WorkersTypeOK'
      BY <1>0, <2>11 DEF ReadNothing, WorkersTypeOK, WorkerStates
    <3>3. HostTypeOK'
      BY <1>0, <2>11 DEF ReadNothing, HostTypeOK, ThreadStates, Thread
    <3> QED
      BY <3>1, <3>2, <3>3 DEF TypeOK
  <2>12. CASE ReadClosed(w)
    <3>1. SharedTypeOK'
      BY <1>0, <2>12 DEF ReadClosed, SharedTypeOK
    <3>2. WorkersTypeOK'
      BY <1>0, <2>12 DEF ReadClosed, WorkersTypeOK, WorkerStates
    <3>3. HostTypeOK'
      BY <1>0, <2>12 DEF ReadClosed, HostTypeOK, ThreadStates, Thread
    <3> QED
      BY <3>1, <3>2, <3>3 DEF TypeOK
  <2>13. CASE ReadReset(w)
    <3>1. SharedTypeOK'
      BY <1>0, <2>13 DEF ReadReset, SharedTypeOK
    <3>2. WorkersTypeOK'
      BY <1>0, <2>13 DEF ReadReset, WorkersTypeOK, WorkerStates
    <3>3. HostTypeOK'
      BY <1>0, <2>13 DEF ReadReset, HostTypeOK, ThreadStates, Thread
    <3> QED
      BY <3>1, <3>2, <3>3 DEF TypeOK
  <2>14. CASE LeaveSession(w)
    <3>1. SharedTypeOK'
      BY <1>0, <2>14 DEF LeaveSession, SharedTypeOK
    <3>2. WorkersTypeOK'
      BY <1>0, <2>14 DEF LeaveSession, WorkersTypeOK, WorkerStates
    <3>3. HostTypeOK'
      BY <1>0, <2>14 DEF LeaveSession, HostTypeOK, ThreadStates, Thread
    <3> QED
      BY <3>1, <3>2, <3>3 DEF TypeOK
  <2>15. CASE PingClosed(w)
    <3>1. SharedTypeOK'
      BY <1>0, <2>15 DEF PingClosed, SharedTypeOK
    <3>2. WorkersTypeOK'
      BY <1>0, <2>15 DEF PingClosed, WorkersTypeOK, WorkerStates
    <3>3. HostTypeOK'
      BY <1>0, <2>15 DEF PingClosed, HostTypeOK, ThreadStates, Thread
    <3> QED
      BY <3>1, <3>2, <3>3 DEF TypeOK
  <2>16. CASE LinkCloses(w)
    <3>1. SharedTypeOK'
      BY <1>0, <2>16 DEF LinkCloses, SharedTypeOK
    <3>2. WorkersTypeOK'
      BY <1>0, <2>16 DEF LinkCloses, WorkersTypeOK, WorkerStates
    <3>3. HostTypeOK'
      BY <1>0, <2>16 DEF LinkCloses, HostTypeOK, ThreadStates, Thread
    <3> QED
      BY <3>1, <3>2, <3>3 DEF TypeOK
  <2> QED
    BY <1>17, <2>1, <2>2, <2>3, <2>4, <2>5, <2>6, <2>7, <2>8, <2>9, <2>10, <2>11,
       <2>12, <2>13, <2>14, <2>15, <2>16
       DEF WorkerMove, WorkerMoves, Session
<1>18. CASE FillTable
  <2>1. SharedTypeOK'
    BY <1>0, <1>18 DEF FillTable, SharedTypeOK
  <2>2. WorkersTypeOK'
    BY <1>0, <1>18 DEF FillTable, WorkersTypeOK, WorkerStates
  <2>3. HostTypeOK'
    BY <1>0, <1>18 DEF FillTable, AfterRefresh, HostTypeOK, ThreadStates, Thread
  <2> QED
    BY <2>1, <2>2, <2>3 DEF TypeOK
<1>19. ASSUME NEW t \in Thread, TestHandle(t) PROVE TypeOK'
  <2>1. SharedTypeOK'
    BY <1>0, <1>19 DEF TestHandle, SharedTypeOK
  <2>2. WorkersTypeOK'
    BY <1>0, <1>19 DEF TestHandle, WorkersTypeOK, WorkerStates
  <2>3. HostTypeOK'
    BY <1>0, <1>19 DEF TestHandle, HostTypeOK, SharedTypeOK, ThreadStates, Thread
  <2> QED
    BY <2>1, <2>2, <2>3 DEF TypeOK
<1>20. CASE UNCHANGED vars
  <2>1. SharedTypeOK'
    BY <1>0, <1>20 DEF vars, SharedTypeOK
  <2>2. WorkersTypeOK'
    BY <1>0, <1>20 DEF vars, WorkersTypeOK
  <2>3. HostTypeOK'
    BY <1>0, <1>20 DEF vars, HostTypeOK
  <2> QED
    BY <2>1, <2>2, <2>3 DEF TypeOK
<1> QED
  BY <1>1, <1>2, <1>3, <1>4, <1>5, <1>6, <1>7, <1>8, <1>9, <1>10, <1>11, <1>12,
     <1>13, <1>14, <1>15, <1>16, <1>17, <1>18, <1>19, <1>20
     DEF Next, Environment, MainCallback, StopSteps, WorkerMove

--------------------------------------------------------------------------------
(***************************************************************************)
(* The flag and the gains.                                                 *)
(***************************************************************************)
\* A step of worker w leaves the host and the other workers alone; it does
\* not create w, and it does not end it while the flag is set.
LEMMA WorkerFrame ==
    ASSUME TypeOK, NEW w \in Worker, WorkerMove(w)
    PROVE  /\ UNCHANGED <<running, handle, online, localHash, roster, lock, host, bridge, strays>>
           /\ \A v \in Worker \ {w} : worker'[v] = worker[v] /\ as'[v] = as[v]
           /\ worker'[w] \notin {"unborn", "ended"} => Live(w)
           /\ running /\ Live(w) => worker'[w] \notin {"unborn", "ended"}
<1> USE DEF TypeOK, WorkersTypeOK, WorkerStep, OnlyWorker, shared, host, Live
<1>1. CASE Top(w)
  BY <1>1 DEF Top
<1>2. CASE CopyHash(w)
  BY <1>2 DEF CopyHash
<1>3. CASE Sleep(w)
  BY <1>3 DEF Sleep
<1>4. CASE Connect(w)
  BY <1>4 DEF Connect
<1>5. CASE ConnectFails(w)
  BY <1>5 DEF ConnectFails
<1>6. CASE HelloOk(w)
  BY <1>6 DEF HelloOk
<1>7. CASE HelloRejected(w)
  BY <1>7 DEF HelloRejected
<1>8. CASE LogConnected(w)
  BY <1>8 DEF LogConnected
<1>9. CASE SessionLoop(w)
  BY <1>9 DEF SessionLoop
<1>10. CASE ReadUpdate(w)
  BY <1>10 DEF ReadUpdate
<1>11. CASE ReadNothing(w)
  BY <1>11 DEF ReadNothing
<1>12. CASE ReadClosed(w)
  BY <1>12 DEF ReadClosed
<1>13. CASE ReadReset(w)
  BY <1>13 DEF ReadReset
<1>14. CASE LeaveSession(w)
  BY <1>14 DEF LeaveSession
<1>15. CASE PingClosed(w)
  BY <1>15 DEF PingClosed
<1>16. CASE LinkCloses(w)
  BY <1>16 DEF LinkCloses
<1> QED
  BY <1>1, <1>2, <1>3, <1>4, <1>5, <1>6, <1>7, <1>8, <1>9, <1>10, <1>11, <1>12,
     <1>13, <1>14, <1>15, <1>16 DEF WorkerMove, WorkerMoves, Session

\* A worker that ends found the flag cleared, and whoever sets it creates one.
LEMMA RunningStep ==
    TypeOK /\ RunningHasWorker /\ [Next]_vars => RunningHasWorker'
<1> SUFFICES ASSUME TypeOK, RunningHasWorker, [Next]_vars PROVE RunningHasWorker'
  OBVIOUS
<1> USE DEF Step, Begin, Thread, shared, workers, host, TypeOK, SharedTypeOK, WorkersTypeOK, HostTypeOK, RunningHasWorker, Live
<1>1. CASE Synchronized
  BY <1>1 DEF Synchronized
<1>2. CASE UserEvent
  BY <1>2 DEF UserEvent, UsersChange
<1>3. CASE UserRemoved
  BY <1>3 DEF UserRemoved, UsersChange
<1>4. CASE Disconnected
  BY <1>4 DEF Disconnected
<1>5. CASE Shutdown
  BY <1>5 DEF Shutdown
<1>6. CASE BridgeChanges
  BY <1>6 DEF BridgeChanges
<1>7. CASE UpdateHash
  BY <1>7 DEF UpdateHash
<1>8. ASSUME NEW h \in Hash \cup {NoHash}, StoreHash(h) PROVE RunningHasWorker'
  BY <1>8 DEF StoreHash
<1>9. CASE Refresh
  BY <1>9 DEF Refresh
<1>10. CASE StartNotNeeded
  BY <1>10 DEF StartNotNeeded
<1>11. CASE SetRunning
  BY <1>11 DEF SetRunning
<1>12. ASSUME NEW w \in Worker, CreateWorker(w) PROVE RunningHasWorker'
  BY <1>12 DEF CreateWorker, WorkerStep
<1>13. CASE CreateFails
  BY <1>13 DEF CreateFails
<1>14. ASSUME NEW t \in Thread, StopWorker(t) PROVE RunningHasWorker'
  BY <1>14 DEF StopWorker
<1>15. ASSUME NEW t \in Thread, JoinEnds(t) PROVE RunningHasWorker'
  BY <1>15 DEF JoinEnds
<1>16. ASSUME NEW t \in Thread, ClearGlobals(t) PROVE RunningHasWorker'
  BY <1>16 DEF ClearGlobals
<1>17. ASSUME NEW w \in Worker, WorkerMove(w) PROVE RunningHasWorker'
  BY <1>17, WorkerFrame
<1>18. CASE FillTable
  BY <1>18 DEF FillTable
<1>19. ASSUME NEW t \in Thread, TestHandle(t) PROVE RunningHasWorker'
  BY <1>19 DEF TestHandle
<1>20. CASE UNCHANGED vars
  BY <1>20 DEF vars
<1> QED
  BY <1>1, <1>2, <1>3, <1>4, <1>5, <1>6, <1>7, <1>8, <1>9, <1>10, <1>11, <1>12,
     <1>13, <1>14, <1>15, <1>16, <1>17, <1>18, <1>19, <1>20
     DEF Next, Environment, MainCallback, StopSteps, WorkerMove

\* A worker that leaves its session clears the table.
LEMMA GainsStep ==
    TypeOK /\ GainsHaveASession /\ [Next]_vars => GainsHaveASession'
<1> SUFFICES ASSUME TypeOK, GainsHaveASession, [Next]_vars PROVE GainsHaveASession'
  OBVIOUS
<1> USE WorkerAssumption DEF Step, Begin, Thread, shared, workers, host, TypeOK, SharedTypeOK, WorkersTypeOK, HostTypeOK, GainsHaveASession, InSession
<1>1. CASE Synchronized
  BY <1>1 DEF Synchronized
<1>2. CASE UserEvent
  BY <1>2 DEF UserEvent, UsersChange
<1>3. CASE UserRemoved
  BY <1>3 DEF UserRemoved, UsersChange
<1>4. CASE Disconnected
  BY <1>4 DEF Disconnected
<1>5. CASE Shutdown
  BY <1>5 DEF Shutdown
<1>6. CASE BridgeChanges
  BY <1>6 DEF BridgeChanges
<1>7. CASE UpdateHash
  BY <1>7 DEF UpdateHash
<1>8. ASSUME NEW h \in Hash \cup {NoHash}, StoreHash(h) PROVE GainsHaveASession'
  BY <1>8 DEF StoreHash
<1>9. CASE Refresh
  BY <1>9 DEF Refresh
<1>10. CASE StartNotNeeded
  BY <1>10 DEF StartNotNeeded
<1>11. CASE SetRunning
  BY <1>11 DEF SetRunning
<1>12. ASSUME NEW w \in Worker, CreateWorker(w) PROVE GainsHaveASession'
  BY <1>12 DEF CreateWorker, WorkerStep
<1>13. CASE CreateFails
  BY <1>13 DEF CreateFails
<1>14. ASSUME NEW t \in Thread, StopWorker(t) PROVE GainsHaveASession'
  BY <1>14 DEF StopWorker
<1>15. ASSUME NEW t \in Thread, JoinEnds(t) PROVE GainsHaveASession'
  BY <1>15 DEF JoinEnds
<1>16. ASSUME NEW t \in Thread, ClearGlobals(t) PROVE GainsHaveASession'
  BY <1>16 DEF ClearGlobals
<1>17. ASSUME NEW w \in Worker, WorkerMove(w) PROVE GainsHaveASession'
  <2> USE DEF WorkerStep, OnlyWorker
  <2>1. CASE Top(w)
    BY <2>1 DEF Top
  <2>2. CASE CopyHash(w)
    BY <2>2 DEF CopyHash
  <2>3. CASE Sleep(w)
    BY <2>3 DEF Sleep
  <2>4. CASE Connect(w)
    BY <2>4 DEF Connect
  <2>5. CASE ConnectFails(w)
    BY <2>5 DEF ConnectFails
  <2>6. CASE HelloOk(w)
    BY <2>6 DEF HelloOk
  <2>7. CASE HelloRejected(w)
    BY <2>7 DEF HelloRejected
  <2>8. CASE LogConnected(w)
    BY <2>8 DEF LogConnected
  <2>9. CASE SessionLoop(w)
    BY <2>9 DEF SessionLoop
  <2>10. CASE ReadUpdate(w)
    BY <2>10 DEF ReadUpdate
  <2>11. CASE ReadNothing(w)
    BY <2>11 DEF ReadNothing
  <2>12. CASE ReadClosed(w)
    BY <2>12 DEF ReadClosed
  <2>13. CASE ReadReset(w)
    BY <2>13 DEF ReadReset
  <2>14. CASE LeaveSession(w)
    BY <2>14 DEF LeaveSession
  <2>15. CASE PingClosed(w)
    BY <2>15 DEF PingClosed
  <2>16. CASE LinkCloses(w)
    BY <2>16 DEF LinkCloses
  <2> QED
    BY <1>17, <2>1, <2>2, <2>3, <2>4, <2>5, <2>6, <2>7, <2>8, <2>9, <2>10, <2>11,
       <2>12, <2>13, <2>14, <2>15, <2>16
       DEF WorkerMove, WorkerMoves, Session
<1>18. CASE FillTable
  BY <1>18 DEF FillTable
<1>19. ASSUME NEW t \in Thread, TestHandle(t) PROVE GainsHaveASession'
  BY <1>19 DEF TestHandle
<1>20. CASE UNCHANGED vars
  BY <1>20 DEF vars
<1> QED
  BY <1>1, <1>2, <1>3, <1>4, <1>5, <1>6, <1>7, <1>8, <1>9, <1>10, <1>11, <1>12,
     <1>13, <1>14, <1>15, <1>16, <1>17, <1>18, <1>19, <1>20
     DEF Next, Environment, MainCallback, StopSteps, WorkerMove

\* The initial state satisfies the three invariants.
LEMMA InitHolds == Init => TypeOK /\ RunningHasWorker /\ GainsHaveASession
<1> SUFFICES ASSUME Init PROVE TypeOK /\ RunningHasWorker /\ GainsHaveASession
  OBVIOUS
<1>1. SharedTypeOK
  BY DEF Init, SharedTypeOK
<1>2. WorkersTypeOK
  BY DEF Init, WorkersTypeOK, WorkerStates
<1>3. HostTypeOK
  BY DEF Init, HostTypeOK, ThreadStates, Thread
<1>4. RunningHasWorker /\ GainsHaveASession
  BY DEF Init, RunningHasWorker, GainsHaveASession
<1> QED
  BY <1>1, <1>2, <1>3, <1>4 DEF TypeOK

\* Type correctness; in particular a thread that joins waits for a worker.
THEOREM TypeCorrect == Spec => []TypeOK
  BY InitHolds, TypeStep, PTL DEF Spec

\* While g_worker_running is set there is a worker or one is about to be
\* created, however start_worker_if_needed and stop_worker interleave.
THEOREM NoLostStart == Spec => []RunningHasWorker
  BY InitHolds, TypeCorrect, RunningStep, PTL DEF Spec

\* Gains in the table belong to a worker that is in its session.
THEOREM NoOrphanedGains == Spec => []GainsHaveASession
  BY InitHolds, TypeCorrect, GainsStep, PTL DEF Spec

--------------------------------------------------------------------------------
(***************************************************************************)
(* Who is alive.  The worker that is alive and no stray is the one of the  *)
(* handle; without the flag it is alive only while a stop is about to wait *)
(* for it; and where a stop is done with its wait, there is none.          *)
(***************************************************************************)
Stopping == {"stop", "handle", "join", "clear", "gone"}
Waiting == {"handle", "join"}

\* Every live worker is a stray.
Strayed == \A w \in Worker : Live(w) => w \in strays

\* The two host threads and the connection to Mumble.
HostInv ==
    /\ pc["disc"] \in {"idle", "stop", "handle", "join", "clear"}
    /\ pc["disc"] # "idle" => ~mumble /\ pc["main"] \notin Stopping
    /\ pc["main"] \in Stopping => ~mumble
    /\ mumble \/ pc["disc"] = "stop" => online
    /\ ~mumble /\ pc["disc"] = "idle" /\ pc["main"] \notin Stopping => ~online

\* The flag, the handle and the joins.
HandleInv ==
    /\ OneWorker
    /\ ~running => Strayed \/ \E t \in Thread : pc[t] \in Waiting
    /\ \A t \in Thread : pc[t] = "join" =>
           \A w \in Worker : Live(w) => w \in strays \/ w = joining[t]
    /\ \A t \in Thread : pc[t] = "clear" => Strayed
    /\ pc["main"] = "create" /\ ~Late => running /\ Strayed

\* A worker past its look at the local hash found one, and the current one if
\* it is no stray; a callback that is about to replace the hash finds none.
Speaking == {"connect", "reply", "log", "session", "read", "leave"}

HashInv ==
    /\ \A w \in Worker : worker[w] \in Speaking =>
           as[w] # NoHash /\ (w \in strays \/ as[w] = localHash)
    /\ pc["main"] \in {"update", "store"} => localHash = NoHash \/ Strayed

WorkerInv == HostInv /\ HandleInv /\ QuietAfterDisconnect /\ HashInv

\* The callbacks of the two threads.
LEMMA HostStep ==
    TypeOK /\ HostInv /\ [Next]_vars => HostInv'
<1> SUFFICES ASSUME TypeOK, HostInv, [Next]_vars PROVE HostInv'
  OBVIOUS
<1> USE WorkerAssumption DEF Step, Begin, UsersChange, AfterRefresh, Thread, shared, workers, host, TypeOK, SharedTypeOK, WorkersTypeOK, HostTypeOK, HostInv, Stopping
<1>1. CASE Synchronized
  BY <1>1 DEF Synchronized
<1>2. CASE UserEvent
  BY <1>2 DEF UserEvent
<1>3. CASE UserRemoved
  BY <1>3 DEF UserRemoved
<1>4. CASE Disconnected
  BY <1>4 DEF Disconnected
<1>5. CASE Shutdown
  BY <1>5 DEF Shutdown
<1>6. CASE BridgeChanges
  BY <1>6 DEF BridgeChanges
<1>7. CASE UpdateHash
  BY <1>7 DEF UpdateHash
<1>8. ASSUME NEW h \in Hash \cup {NoHash}, StoreHash(h) PROVE HostInv'
  BY <1>8 DEF StoreHash
<1>9. CASE Refresh
  BY <1>9 DEF Refresh
<1>10. CASE StartNotNeeded
  BY <1>10 DEF StartNotNeeded
<1>11. CASE SetRunning
  BY <1>11 DEF SetRunning
<1>12. ASSUME NEW w \in Worker, CreateWorker(w) PROVE HostInv'
  BY <1>12 DEF CreateWorker
<1>13. CASE CreateFails
  BY <1>13 DEF CreateFails
<1>14. ASSUME NEW t \in Thread, StopWorker(t) PROVE HostInv'
  BY <1>14 DEF StopWorker
<1>15. ASSUME NEW t \in Thread, JoinEnds(t) PROVE HostInv'
  BY <1>15 DEF JoinEnds
<1>16. ASSUME NEW t \in Thread, ClearGlobals(t) PROVE HostInv'
  BY <1>16 DEF ClearGlobals
<1>17. ASSUME NEW w \in Worker, WorkerMove(w) PROVE HostInv'
  BY <1>17, WorkerFrame
<1>18. CASE FillTable
  BY <1>18 DEF FillTable
<1>19. ASSUME NEW t \in Thread, TestHandle(t) PROVE HostInv'
  BY <1>19 DEF TestHandle
<1>20. CASE UNCHANGED vars
  BY <1>20 DEF vars
<1> QED
  BY <1>1, <1>2, <1>3, <1>4, <1>5, <1>6, <1>7, <1>8, <1>9, <1>10, <1>11, <1>12,
     <1>13, <1>14, <1>15, <1>16, <1>17, <1>18, <1>19, <1>20
     DEF Next, Environment, MainCallback, StopSteps, WorkerMove

\* Every way to lose sight of a worker makes it a stray.
LEMMA HandleStep ==
    TypeOK /\ HostInv /\ HandleInv /\ [Next]_vars => HandleInv'
<1> SUFFICES ASSUME TypeOK, HostInv, HandleInv, [Next]_vars PROVE HandleInv'
  OBVIOUS
<1> USE WorkerAssumption DEF Step, Begin, UsersChange, AfterRefresh, Thread, shared, workers, host, TypeOK, SharedTypeOK, WorkersTypeOK, HostTypeOK, HostInv, Stopping, Waiting, Live, Late, Strayed, OneWorker, HandleInv
<1>1. CASE Synchronized
  BY <1>1 DEF Synchronized
<1>2. CASE UserEvent
  BY <1>2 DEF UserEvent
<1>3. CASE UserRemoved
  BY <1>3 DEF UserRemoved
<1>4. CASE Disconnected
  BY <1>4 DEF Disconnected
<1>5. CASE Shutdown
  BY <1>5 DEF Shutdown
<1>6. CASE BridgeChanges
  BY <1>6 DEF BridgeChanges
<1>7. CASE UpdateHash
  BY <1>7 DEF UpdateHash
<1>8. ASSUME NEW h \in Hash \cup {NoHash}, StoreHash(h) PROVE HandleInv'
  BY <1>8 DEF StoreHash
<1>9. CASE Refresh
  BY <1>9 DEF Refresh
<1>10. CASE StartNotNeeded
  BY <1>10 DEF StartNotNeeded
<1>11. CASE SetRunning
  BY <1>11 DEF SetRunning
<1>12. ASSUME NEW w \in Worker, CreateWorker(w) PROVE HandleInv'
  BY <1>12 DEF CreateWorker, WorkerStep
<1>13. CASE CreateFails
  BY <1>13 DEF CreateFails
<1>14. ASSUME NEW t \in Thread, StopWorker(t) PROVE HandleInv'
  BY <1>14 DEF StopWorker
<1>15. ASSUME NEW t \in Thread, JoinEnds(t) PROVE HandleInv'
  BY <1>15 DEF JoinEnds
<1>16. ASSUME NEW t \in Thread, ClearGlobals(t) PROVE HandleInv'
  BY <1>16 DEF ClearGlobals
<1>17. ASSUME NEW w \in Worker, WorkerMove(w) PROVE HandleInv'
  <2>1. UNCHANGED <<running, handle, localHash, mumble, strays, pc, joining>>
    BY <1>17, WorkerFrame
  <2>2. \A v \in Worker : Live(v)' => Live(v)
    BY <1>17, WorkerFrame
  <2> QED BY <2>1, <2>2
<1>18. CASE FillTable
  BY <1>18 DEF FillTable
<1>19. ASSUME NEW t \in Thread, TestHandle(t) PROVE HandleInv'
  BY <1>19 DEF TestHandle
<1>20. CASE UNCHANGED vars
  BY <1>20 DEF vars
<1> QED
  BY <1>1, <1>2, <1>3, <1>4, <1>5, <1>6, <1>7, <1>8, <1>9, <1>10, <1>11, <1>12,
     <1>13, <1>14, <1>15, <1>16, <1>17, <1>18, <1>19, <1>20
     DEF Next, Environment, MainCallback, StopSteps, WorkerMove

\* A worker that is created offline is a stray, and a stop leaves none else.
LEMMA QuietStep ==
    TypeOK /\ HostInv /\ HandleInv /\ QuietAfterDisconnect /\ [Next]_vars => QuietAfterDisconnect'
<1> SUFFICES ASSUME TypeOK, HostInv, HandleInv, QuietAfterDisconnect, [Next]_vars PROVE QuietAfterDisconnect'
  OBVIOUS
<1> USE WorkerAssumption DEF Step, Begin, UsersChange, AfterRefresh, Thread, shared, workers, host, TypeOK, SharedTypeOK, WorkersTypeOK, HostTypeOK, HostInv, Stopping, HandleInv, Live, Late, Strayed, QuietAfterDisconnect
<1>1. CASE Synchronized
  BY <1>1 DEF Synchronized
<1>2. CASE UserEvent
  BY <1>2 DEF UserEvent
<1>3. CASE UserRemoved
  BY <1>3 DEF UserRemoved
<1>4. CASE Disconnected
  BY <1>4 DEF Disconnected
<1>5. CASE Shutdown
  BY <1>5 DEF Shutdown
<1>6. CASE BridgeChanges
  BY <1>6 DEF BridgeChanges
<1>7. CASE UpdateHash
  BY <1>7 DEF UpdateHash
<1>8. ASSUME NEW h \in Hash \cup {NoHash}, StoreHash(h) PROVE QuietAfterDisconnect'
  BY <1>8 DEF StoreHash
<1>9. CASE Refresh
  BY <1>9 DEF Refresh
<1>10. CASE StartNotNeeded
  BY <1>10 DEF StartNotNeeded
<1>11. CASE SetRunning
  BY <1>11 DEF SetRunning
<1>12. ASSUME NEW w \in Worker, CreateWorker(w) PROVE QuietAfterDisconnect'
  BY <1>12 DEF CreateWorker, WorkerStep
<1>13. CASE CreateFails
  BY <1>13 DEF CreateFails
<1>14. ASSUME NEW t \in Thread, StopWorker(t) PROVE QuietAfterDisconnect'
  BY <1>14 DEF StopWorker
<1>15. ASSUME NEW t \in Thread, JoinEnds(t) PROVE QuietAfterDisconnect'
  BY <1>15 DEF JoinEnds
<1>16. ASSUME NEW t \in Thread, ClearGlobals(t) PROVE QuietAfterDisconnect'
  BY <1>16 DEF ClearGlobals
<1>17. ASSUME NEW w \in Worker, WorkerMove(w) PROVE QuietAfterDisconnect'
  BY <1>17, WorkerFrame
<1>18. CASE FillTable
  BY <1>18 DEF FillTable
<1>19. ASSUME NEW t \in Thread, TestHandle(t) PROVE QuietAfterDisconnect'
  BY <1>19 DEF TestHandle
<1>20. CASE UNCHANGED vars
  BY <1>20 DEF vars
<1> QED
  BY <1>1, <1>2, <1>3, <1>4, <1>5, <1>6, <1>7, <1>8, <1>9, <1>10, <1>11, <1>12,
     <1>13, <1>14, <1>15, <1>16, <1>17, <1>18, <1>19, <1>20
     DEF Next, Environment, MainCallback, StopSteps, WorkerMove

\* The local hash changes while only strays use the old one.
LEMMA HashStep ==
    TypeOK /\ HostInv /\ HandleInv /\ QuietAfterDisconnect /\ HashInv /\ [Next]_vars => HashInv'
<1> SUFFICES ASSUME TypeOK, HostInv, HandleInv, QuietAfterDisconnect, HashInv, [Next]_vars PROVE HashInv'
  OBVIOUS
<1> USE WorkerAssumption DEF Step, Begin, UsersChange, AfterRefresh, Thread, shared, workers, host, TypeOK, SharedTypeOK, WorkersTypeOK, HostTypeOK, HostInv, Stopping, HandleInv, Live, Strayed, QuietAfterDisconnect, Speaking, WorkerStates, HashInv
<1>1. CASE Synchronized
  BY <1>1 DEF Synchronized
<1>2. CASE UserEvent
  BY <1>2 DEF UserEvent
<1>3. CASE UserRemoved
  BY <1>3 DEF UserRemoved
<1>4. CASE Disconnected
  BY <1>4 DEF Disconnected
<1>5. CASE Shutdown
  BY <1>5 DEF Shutdown
<1>6. CASE BridgeChanges
  BY <1>6 DEF BridgeChanges
<1>7. CASE UpdateHash
  BY <1>7 DEF UpdateHash
<1>8. ASSUME NEW h \in Hash \cup {NoHash}, StoreHash(h) PROVE HashInv'
  BY <1>8 DEF StoreHash
<1>9. CASE Refresh
  BY <1>9 DEF Refresh
<1>10. CASE StartNotNeeded
  BY <1>10 DEF StartNotNeeded
<1>11. CASE SetRunning
  BY <1>11 DEF SetRunning
<1>12. ASSUME NEW w \in Worker, CreateWorker(w) PROVE HashInv'
  BY <1>12 DEF CreateWorker, WorkerStep
<1>13. CASE CreateFails
  BY <1>13 DEF CreateFails
<1>14. ASSUME NEW t \in Thread, StopWorker(t) PROVE HashInv'
  BY <1>14 DEF StopWorker
<1>15. ASSUME NEW t \in Thread, JoinEnds(t) PROVE HashInv'
  BY <1>15 DEF JoinEnds
<1>16. ASSUME NEW t \in Thread, ClearGlobals(t) PROVE HashInv'
  BY <1>16 DEF ClearGlobals
<1>17. ASSUME NEW w \in Worker, WorkerMove(w) PROVE HashInv'
  <2> USE DEF WorkerStep, OnlyWorker
  <2>1. CASE Top(w)
    BY <2>1 DEF Top
  <2>2. CASE CopyHash(w)
    BY <2>2 DEF CopyHash
  <2>3. CASE Sleep(w)
    BY <2>3 DEF Sleep
  <2>4. CASE Connect(w)
    BY <2>4 DEF Connect
  <2>5. CASE ConnectFails(w)
    BY <2>5 DEF ConnectFails
  <2>6. CASE HelloOk(w)
    BY <2>6 DEF HelloOk
  <2>7. CASE HelloRejected(w)
    BY <2>7 DEF HelloRejected
  <2>8. CASE LogConnected(w)
    BY <2>8 DEF LogConnected
  <2>9. CASE SessionLoop(w)
    BY <2>9 DEF SessionLoop
  <2>10. CASE ReadUpdate(w)
    BY <2>10 DEF ReadUpdate
  <2>11. CASE ReadNothing(w)
    BY <2>11 DEF ReadNothing
  <2>12. CASE ReadClosed(w)
    <3>1. PICK to \in {"leave", "session"} : WorkerStep(w, "read", to)
      BY <2>12 DEF ReadClosed
    <3>2. UNCHANGED <<as, shared, host, strays>>
      BY <2>12 DEF ReadClosed
    <3> QED BY <3>1, <3>2
  <2>13. CASE ReadReset(w)
    BY <2>13 DEF ReadReset
  <2>14. CASE LeaveSession(w)
    BY <2>14 DEF LeaveSession
  <2>15. CASE PingClosed(w)
    BY <2>15 DEF PingClosed
  <2>16. CASE LinkCloses(w)
    BY <2>16 DEF LinkCloses
  <2> QED
    BY <1>17, <2>1, <2>2, <2>3, <2>4, <2>5, <2>6, <2>7, <2>8, <2>9, <2>10, <2>11,
       <2>12, <2>13, <2>14, <2>15, <2>16
       DEF WorkerMove, WorkerMoves, Session
<1>18. CASE FillTable
  BY <1>18 DEF FillTable
<1>19. ASSUME NEW t \in Thread, TestHandle(t) PROVE HashInv'
  BY <1>19 DEF TestHandle
<1>20. CASE UNCHANGED vars
  BY <1>20 DEF vars
<1> QED
  BY <1>1, <1>2, <1>3, <1>4, <1>5, <1>6, <1>7, <1>8, <1>9, <1>10, <1>11, <1>12,
     <1>13, <1>14, <1>15, <1>16, <1>17, <1>18, <1>19, <1>20
     DEF Next, Environment, MainCallback, StopSteps, WorkerMove

\* The initial state satisfies the invariant.
LEMMA WorkerInit == Init => WorkerInv
  BY WorkerAssumption DEF Init, WorkerInv, HostInv, HandleInv, OneWorker,
     QuietAfterDisconnect, HashInv, Strayed, Live, Thread, Stopping, Speaking

\* Every state satisfies the invariant.
LEMMA WorkerHolds == Spec => []WorkerInv
<1>1. WorkerInv /\ TypeOK /\ [Next]_vars => WorkerInv'
  BY HostStep, HandleStep, QuietStep, HashStep DEF WorkerInv
<1> QED
  BY <1>1, WorkerInit, TypeCorrect, PTL DEF Spec

\* Whatever outlasts the join and however the callbacks overlap, a live worker
\* is the one of the handle, unless a stop missed it or gave up on it.
THEOREM AtMostOneWorker == Spec => []OneWorker
<1>1. WorkerInv => OneWorker
  BY DEF WorkerInv, HandleInv
<1> QED
  BY <1>1, WorkerHolds, PTL

\* No other worker is alive between two connections or after mumble_shutdown,
THEOREM NoWorkerOffline == Spec => []QuietAfterDisconnect
<1>1. WorkerInv => QuietAfterDisconnect
  BY DEF WorkerInv
<1> QED
  BY <1>1, WorkerHolds, PTL

\* and the gains in the table are the local user's, or a stray's in its session.
THEOREM OwnGains == Spec => []GainsAreOurs
<1>1. WorkerInv /\ GainsHaveASession => GainsAreOurs
  BY DEF WorkerInv, HashInv, Speaking, GainsHaveASession, GainsAreOurs, InSession
<1> QED
  BY <1>1, WorkerHolds, NoOrphanedGains, PTL

================================================================================
