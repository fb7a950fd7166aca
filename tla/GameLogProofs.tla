---------------------------- MODULE GameLogProofs ----------------------------
(***************************************************************************)
(* What GameLog keeps, for logs of any length.                             *)
(***************************************************************************)
EXTENDS GameLog, TLAPS

\* The offset lies in the file it was read from.
OffsetInv ==
    /\ of <= before
    /\ of = before => offset <= size
    /\ ~present => size = 0

\* What was taken from this file lies before the offset.
TakenInv ==
    \A i \in Done \cup todo : i <= before \/ (of = before /\ Whole(i) <= offset)

\* What is about to be handled comes after all that was.
OrderInv ==
    /\ todo # {} => reader = "handle"
    /\ \A i \in todo, j \in Done : j < i

LogInv == LogTypeOK /\ OffsetInv /\ TakenInv /\ OrderInv /\ HandledOnce /\ NoLoss

\* The commands handled are lines.
LEMMA DoneType == ASSUME LogTypeOK PROVE Done \subseteq Line
  <1> SUFFICES ASSUME NEW k \in 1 .. Len(handled) PROVE handled[k] \in Line
    BY DEF Done
  <1>1. handled \in Seq(Line)
    BY DEF LogTypeOK
  <1> HIDE DEF Line
  <1> QED BY <1>1

\* The invariant holds when the bridge starts on a log that may hold lines.
LEMMA InitInv == ASSUME LogInit PROVE LogInv
  <1> USE LogAssumption
  <1>1. LogTypeOK
    BY DEF LogInit, LogTypeOK, Line, Begun
  <1>2. OffsetInv /\ Done = {} /\ todo = {}
    BY DEF LogInit, OffsetInv, Done
  <1>3. NoLoss
    BY DEF LogInit, NoLoss, Complete, Begun, Start, Whole, Line
  <1>4. HandledOnce
    BY DEF LogInit, HandledOnce
  <1> QED BY <1>1, <1>2, <1>3, <1>4 DEF LogInv, TakenInv, OrderInv

\* The game's writes and rotations keep it.
LEMMA WorldInv == ASSUME LogInv, LogWorld PROVE LogInv'
  <1> USE LogAssumption
  <1>0. LogTypeOK /\ OffsetInv /\ TakenInv /\ OrderInv /\ HandledOnce /\ NoLoss
    BY DEF LogInv
  <1>1. UNCHANGED <<reader, offset, todo, handled, of, excused>> /\ Done' = Done
    BY DEF LogWorld, AppendTo, RemoveLog, CreateLog, reading, Done
  <1>2. OrderInv' /\ HandledOnce'
    BY <1>0, <1>1 DEF OrderInv, HandledOnce
  <1>3. CASE \E n \in 1 .. 3 * MaxLines : AppendTo(n)
    <2>1. PICK n \in 1 .. 3 * MaxLines : AppendTo(n)
      BY <1>3
    <2>2. LogTypeOK' /\ OffsetInv'
      BY <1>0, <1>1, <2>1 DEF AppendTo, LogTypeOK, OffsetInv
    <2>3. TakenInv' /\ NoLoss'
      BY <1>0, <1>1, <2>1 DEF AppendTo, TakenInv, NoLoss, Complete, Whole, LogTypeOK
    <2> QED BY <1>2, <2>2, <2>3 DEF LogInv
  <1>4. CASE RemoveLog
    <2>1. PICK n \in 0 .. MaxLines :
             3 * n - 3 < size /\ size <= 3 * n /\ before' = before + n
      BY <1>4 DEF RemoveLog
    <2>2. present' = FALSE /\ size' = 0
      BY <1>4 DEF RemoveLog
    <2>6. before' \in Nat /\ before <= before'
      BY <1>0, <2>1 DEF LogTypeOK
    <2>7. LogTypeOK' /\ OffsetInv'
      <3>1. LogTypeOK'
        BY <1>0, <1>1, <2>2, <2>6 DEF LogTypeOK
      <3>2. of \in Nat /\ offset \in Nat /\ size \in Nat /\ before \in Nat
        BY <1>0 DEF LogTypeOK
      <3>3. of <= before /\ (of = before => offset <= size)
        BY <1>0 DEF OffsetInv
      <3>4. of <= before'
        BY <2>6, <3>2, <3>3
      <3>5. of = before' => offset <= 0
        BY <2>1, <3>2, <3>3
      <3> QED BY <1>1, <2>2, <3>1, <3>4, <3>5 DEF OffsetInv
    <2>3. ASSUME NEW i \in Done \cup todo
          PROVE i <= before' \/ (of = before' /\ Whole(i)' <= offset)
      <3>1. i \in Line
        BY <1>0, DoneType DEF LogTypeOK
      <3>2. i <= before \/ (of = before /\ Whole(i) <= offset)
        BY <1>0 DEF TakenInv
      <3> QED BY <1>0, <1>1, <2>1, <3>1, <3>2 DEF LogTypeOK, OffsetInv, Whole, Line
    <2>4. TakenInv'
      BY <1>1, <2>3 DEF TakenInv
    <2>5. NoLoss'
      <3>1. CASE n = 0
        BY <1>0, <1>1, <1>4, <2>1, <3>1 DEF RemoveLog, LogTypeOK, NoLoss, Complete, Whole
      <3>2. CASE n # 0
        BY <1>0, <1>1, <2>1, <3>2 DEF LogTypeOK, OffsetInv, NoLoss
      <3> QED BY <3>1, <3>2
    <2> QED BY <1>2, <2>7, <2>4, <2>5 DEF LogInv
  <1>5. CASE CreateLog
    BY <1>0, <1>1, <1>2, <1>5
    DEF CreateLog, LogInv, LogTypeOK, OffsetInv, TakenInv, NoLoss, Complete, Whole
  <1> QED BY <1>3, <1>4, <1>5 DEF LogWorld

\* Only Read moves the offset forward over commands.
LEMMA ReadInv == ASSUME LogInv, Read PROVE LogInv'
  <1> USE LogAssumption
  <1>0. LogTypeOK /\ OffsetInv /\ TakenInv /\ OrderInv /\ HandledOnce /\ NoLoss
    BY DEF LogInv
  <1>1. todo = {} /\ Done' = Done
    BY <1>0 DEF Read, OrderInv, Done
  <1>2. LogTypeOK'
    BY <1>0 DEF Read, LogTypeOK, log, Commands, Complete, Line
  <1>3. OffsetInv'
    BY <1>0 DEF Read, LogTypeOK, OffsetInv, log
  <1>4. ASSUME NEW i \in todo' PROVE before < i /\ offset <= Start(i) /\ Whole(i) <= size /\ i \in Int
    BY DEF Read, Commands, Complete, Line
  <1>5. ASSUME NEW j \in Done PROVE j \in Int /\ (j <= before \/ (of = before /\ Whole(j) <= offset))
    BY <1>0, DoneType DEF LogTypeOK, TakenInv, Line
  <1>6. TakenInv'
    <2> SUFFICES ASSUME NEW i \in Done \cup todo'
                 PROVE i <= before' \/ (of' = before' /\ Whole(i)' <= offset')
      BY <1>1 DEF TakenInv
    <2>1. CASE i \in Done
      BY <1>0, <1>5, <2>1 DEF Read, log, LogTypeOK, OffsetInv, Whole
    <2>2. CASE i \in todo'
      BY <1>0, <1>4, <2>2 DEF Read, log, LogTypeOK, Whole, Start
    <2> QED BY <2>1, <2>2
  <1>7. OrderInv'
    <2>1. ASSUME NEW i \in todo', NEW j \in Done PROVE j < i
      <3>1. i \in Int /\ before < i /\ offset <= 3 * (i - 1 - before)
        BY <1>4 DEF Start
      <3>2. j \in Int /\ (j <= before \/ 3 * (j - before) - 1 <= offset)
        BY <1>5 DEF Whole
      <3>3. before \in Nat /\ offset \in Nat
        BY <1>0 DEF LogTypeOK
      <3> QED BY <3>1, <3>2, <3>3
    <2> QED BY <1>1, <2>1 DEF OrderInv, Read
  <1>8. HandledOnce'
    BY <1>0 DEF HandledOnce, Read
  <1>9. NoLoss'
    <2> SUFFICES ASSUME of' = before', NEW i \in Complete(offset)'
                 PROVE i \in Done \cup todo' \cup excused'
      BY <1>1 DEF NoLoss
    <2>1. i \in Line /\ before < i /\ Whole(i) <= size /\ offset <= size
      BY <1>0 DEF Complete, Whole, Read, log, LogTypeOK, OffsetInv
    <2>2. CASE offset <= Start(i)
      BY <2>1, <2>2 DEF Read, Commands, Complete
    <2>3. CASE Start(i) < offset /\ (of # before \/ offset < Whole(i))
      BY <2>1, <2>3 DEF Read, Complete
    <2>4. CASE of = before /\ Whole(i) <= offset
      BY <1>0, <1>1, <2>1, <2>4 DEF NoLoss, Complete, Read
    <2> QED BY <1>0, <2>1, <2>2, <2>3, <2>4 DEF LogTypeOK, Line, Start, Whole
  <1> QED BY <1>2, <1>3, <1>6, <1>7, <1>8, <1>9 DEF LogInv

\* Handling the first command of the chunk keeps it.
LEMMA HandleInv ==
    ASSUME LogInv, NEW i \in Line, Handle(i) PROVE LogInv'
  <1> USE LogAssumption
  <1>0. LogTypeOK /\ OffsetInv /\ TakenInv /\ OrderInv /\ HandledOnce /\ NoLoss
    BY DEF LogInv
  <1>1. handled \in Seq(Line) /\ handled' = Append(handled, i) /\ Done \subseteq Line
    BY <1>0, DoneType DEF Handle, LogTypeOK
  <1>2. /\ Len(handled') = Len(handled) + 1 /\ handled' \in Seq(Line)
        /\ \A k \in 1 .. Len(handled) : handled'[k] = handled[k]
        /\ handled'[Len(handled) + 1] = i
    <2> HIDE DEF Line
    <2> QED BY <1>1
  <1>3. Len(handled) \in Nat
    BY <1>1
  <1>4. Done' = Done \cup {i}
    BY <1>2, <1>3 DEF Done
  <1>5. i \in todo /\ todo' = todo \ {i} /\ (\A j \in todo : i <= j)
        /\ UNCHANGED <<present, before, size, reader, offset, of, excused>>
    BY DEF Handle, log
  <1>6. LogTypeOK' /\ OffsetInv'
    BY <1>0, <1>2, <1>5 DEF LogTypeOK, OffsetInv
  <1>7. TakenInv'
    BY <1>0, <1>4, <1>5 DEF TakenInv, Whole
  <1>8. OrderInv'
    <2>1. ASSUME NEW k \in todo', NEW j \in Done' PROVE j < k
      <3>1. CASE j \in Done
        BY <1>0, <1>5, <3>1 DEF OrderInv
      <3>2. CASE j = i
        BY <1>0, <1>5, <3>2 DEF LogTypeOK, Line
      <3> QED BY <1>4, <3>1, <3>2
    <2> QED BY <1>0, <1>5, <2>1 DEF OrderInv
  <1>9. HandledOnce'
    <2> SUFFICES ASSUME NEW k \in 1 .. Len(handled'), NEW l \in 1 .. Len(handled'), k < l
                 PROVE handled'[k] < handled'[l]
      BY DEF HandledOnce
    <2>1. k \in 1 .. Len(handled) /\ handled'[k] = handled[k]
      BY <1>2, <1>3
    <2>2. CASE l \in 1 .. Len(handled)
      BY <1>0, <1>2, <2>1, <2>2 DEF HandledOnce
    <2>3. CASE l = Len(handled) + 1
      <3>1. handled[k] \in Done
        BY <2>1 DEF Done
      <3> QED BY <1>0, <1>2, <1>5, <2>1, <2>3, <3>1 DEF OrderInv
    <2> QED BY <1>2, <1>3, <2>2, <2>3
  <1>10. NoLoss'
    BY <1>0, <1>4, <1>5 DEF NoLoss, Complete, Whole
  <1> QED BY <1>6, <1>7, <1>8, <1>9, <1>10 DEF LogInv

\* The steps that handle nothing and read nothing.
LEMMA QuietInv ==
    ASSUME LogInv, StatFails \/ Stat \/ OpenFails \/ EndPoll \/ LogDown \/ LogStart
    PROVE  LogInv'
  <1> USE LogAssumption
  <1>0. LogTypeOK /\ OffsetInv /\ TakenInv /\ OrderInv /\ HandledOnce /\ NoLoss
    BY DEF LogInv
  <1>1. /\ UNCHANGED <<present, before, size, handled>> /\ Done' = Done
        /\ Done \subseteq Line
    BY <1>0, DoneType DEF StatFails, Stat, OpenFails, EndPoll, LogDown, LogStart, log, logVars, reading, Done
  <1>2. HandledOnce'
    BY <1>0, <1>1 DEF HandledOnce
  <1>3. CASE StatFails \/ OpenFails \/ EndPoll
    <2>1. UNCHANGED <<offset, todo, of, excused>>
      BY <1>3 DEF StatFails, OpenFails, EndPoll, logVars, reading
    <2>2. LogTypeOK' /\ OrderInv'
      BY <1>0, <1>1, <1>3, <2>1 DEF StatFails, OpenFails, EndPoll, LogTypeOK, OrderInv, logVars, reading
    <2> QED
      BY <1>0, <1>1, <1>2, <2>1, <2>2 DEF LogInv, OffsetInv, TakenInv, NoLoss, Complete, Whole
  <1>4. CASE Stat
    <2>1. todo = {} /\ todo' = {} /\ excused' = excused
      BY <1>0, <1>4 DEF Stat, OrderInv
    <2>2. LogTypeOK' /\ OffsetInv' /\ OrderInv'
      BY <1>0, <1>1, <1>4, <2>1 DEF Stat, LogTypeOK, OffsetInv, OrderInv
    <2>3. TakenInv' /\ NoLoss'
      <3>1. CASE size < offset
        <4>1. offset' = 0 /\ of # before /\ of' = before
          BY <1>0, <1>4, <3>1 DEF Stat, LogTypeOK, OffsetInv
        <4>2. TakenInv'
          BY <1>0, <1>1, <2>1, <4>1 DEF TakenInv
        <4>3. Complete(offset)' = {}
          BY <1>0, <1>1, <4>1 DEF Complete, Whole, Line, LogTypeOK
        <4> QED BY <4>2, <4>3 DEF NoLoss
      <3>2. CASE ~(size < offset)
        BY <1>0, <1>1, <1>4, <2>1, <3>2 DEF Stat, TakenInv, NoLoss, Complete, Whole
      <3> QED BY <3>1, <3>2
    <2> QED BY <1>2, <2>2, <2>3 DEF LogInv
  <1>5. CASE LogDown
    <2>1. /\ todo' = {} /\ excused' = excused \cup todo /\ UNCHANGED <<offset, of>>
          /\ reader' = "down"
      BY <1>5 DEF LogDown
    <2>2. LogTypeOK' /\ OffsetInv' /\ OrderInv' /\ TakenInv' /\ NoLoss'
      BY <1>0, <1>1, <2>1
      DEF LogTypeOK, OffsetInv, OrderInv, TakenInv, NoLoss, Complete, Whole
    <2> QED BY <1>2, <2>2 DEF LogInv
  <1>6. CASE LogStart
    <2>1. /\ todo = {} /\ todo' = {} /\ of' = before /\ offset' = size
          /\ excused' = excused \cup (Begun(size) \ Done) /\ reader' = "idle"
      BY <1>0, <1>6 DEF LogStart, OrderInv, OffsetInv
    <2>2. LogTypeOK' /\ OffsetInv' /\ OrderInv'
      BY <1>0, <1>1, <2>1 DEF LogTypeOK, OffsetInv, OrderInv, Begun
    <2>3. TakenInv'
      <3>1. ASSUME NEW i \in Done PROVE i <= before \/ Whole(i) <= size
        <4>1. i \in Int /\ (i <= before \/ (of = before /\ Whole(i) <= offset))
          BY <1>0, <1>1 DEF TakenInv, Line
        <4> QED BY <1>0, <4>1 DEF OffsetInv, LogTypeOK, Whole
      <3> QED BY <1>1, <2>1, <3>1 DEF TakenInv, Whole
    <2>4. NoLoss'
      <3>1. Complete(size) \subseteq Begun(size)
        BY <1>0 DEF Complete, Begun, Whole, Start, Line, LogTypeOK
      <3>2. Complete(offset)' = Complete(size)
        BY <1>1, <2>1 DEF Complete, Whole
      <3> QED BY <1>1, <2>1, <3>1, <3>2 DEF NoLoss
    <2> QED BY <1>2, <2>2, <2>3, <2>4 DEF LogInv
  <1> QED BY <1>3, <1>4, <1>5, <1>6

\* Every step keeps it.
LEMMA StepInv == LogInv /\ [LogNext]_logVars => LogInv'
  <1> SUFFICES ASSUME LogInv, [LogNext]_logVars PROVE LogInv'
    OBVIOUS
  <1>1. CASE LogNext
    BY <1>1, WorldInv, ReadInv, HandleInv, QuietInv DEF LogNext, Poll
  <1>2. CASE UNCHANGED logVars
    BY <1>2 DEF logVars, log, reading, LogInv, LogTypeOK, OffsetInv, TakenInv, OrderInv,
                HandledOnce, NoLoss, Complete, Whole, Done
  <1> QED BY <1>1, <1>2

\* The invariant holds throughout.
THEOREM LogCorrect == LogSpec => []LogInv
  <1> QED BY InitInv, StepInv, PTL DEF LogSpec

\* Every variable keeps its type, for logs of any length.
THEOREM LogTypes == LogSpec => []LogTypeOK
  <1>1. LogInv => LogTypeOK
    BY DEF LogInv
  <1> QED BY LogCorrect, <1>1, PTL

\* Commands are handled in the order they were typed, none of them twice,
\* whatever becomes of the file and of the bridge.
THEOREM EachCommandOnce == LogSpec => []HandledOnce
  <1>1. LogInv => HandledOnce
    BY DEF LogInv
  <1> QED BY LogCorrect, <1>1, PTL

\* The offset passes over no command that a read could have taken whole.
THEOREM NothingPassedOver == LogSpec => []NoLoss
  <1>1. LogInv => NoLoss
    BY DEF LogInv
  <1> QED BY LogCorrect, <1>1, PTL
================================================================================
