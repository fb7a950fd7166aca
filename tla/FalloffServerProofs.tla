-------------------------- MODULE FalloffServerProofs --------------------------
(***************************************************************************)
(* Proofs about FalloffServer, for any number of connections, hashes,      *)
(* spellings, rounds and lines.                                            *)
(***************************************************************************)
EXTENDS FalloffServer, TLAPS

(***************************************************************************)
(* The inductive invariant.  The registry and publish()'s copy of it only  *)
(* bind a hash to a connection that claimed that hash; a connection is     *)
(* registered, and written to, only after HELLO was accepted.              *)
(***************************************************************************)
\* A registered connection claimed the hash and its handler will still drop it.
RegistryInv ==
    \A h \in Hash : registry[h] # NoConn =>
        name[registry[h]] = h /\ handler[registry[h]] \in Registrable

\* A connection in publish()'s copy was registered once; it may be gone.
SnapshotInv ==
    \A h \in Hash : snapshot[h] # NoConn =>
        /\ name[snapshot[h]] = h
        /\ handler[snapshot[h]] \in Registrable \cup {"close", "done"}

\* Before HELLO there is no name; nothing but an eviction, a failed send or
\* stop closes a socket before its handler does, and they need a registration.
HandlerInv ==
    \A c \in Conn :
        /\ handler[c] \in {"free", "hello"} => name[c] = NoHash
        /\ handler[c] \in {"free", "hello", "evict", "register"} => sent[c] = <<>>
        /\ handler[c] \in {"hello", "evict", "register"} => c \in open
        /\ handler[c] = "done" => c \notin open

\* The lines of clients that were not refused.
CleanLines == {lines \in Seq(Line) : \A i \in 1..Len(lines) : lines[i].cmd # "ERR"}

\* A refused client was never registered, and all that it was sent is ERR.
RefusedInv ==
    \A c \in Conn : sent[c] \notin CleanLines =>
        /\ Len(sent[c]) = 1
        /\ handler[c] \in {"drop", "close", "done"}
        /\ \A h \in Hash : registry[h] # c /\ snapshot[h] # c

\* Every update written to a connection is for the hash it claimed.
LinesFor == [h \in Hash \cup {NoHash} |->
    {lines \in Seq(Line) :
        \A i \in 1..Len(lines) : lines[i].of # NoHash => Lower[lines[i].of] = h}]
HeardInv == \A c \in Conn : sent[c] \in LinesFor[name[c]]

IInv ==
    /\ TypeOK
    /\ RegistryInv
    /\ SnapshotInv
    /\ HandlerInv
    /\ RefusedInv
    /\ HeardInv
    /\ SoleConnectionStaysUp

--------------------------------------------------------------------------------
\* What one more line does to the lines of a connection.
LEMMA AppendLine ==
    ASSUME NEW lines \in Seq(Line), NEW line \in Line
    PROVE  /\ Append(lines, line) \in Seq(Line)
           /\ Len(Append(lines, line)) = Len(lines) + 1
           /\ \A i \in 1..Len(lines) : Append(lines, line)[i] = lines[i]
           /\ Append(lines, line)[Len(lines) + 1] = line
  OBVIOUS

\* A connection without an ERR line has none after another kind of line.
LEMMA AppendClean ==
    ASSUME NEW lines \in CleanLines, NEW line \in Line, line.cmd # "ERR"
    PROVE  Append(lines, line) \in CleanLines
<1>1. \A i \in 1..Len(Append(lines, line)) : i \in 1..Len(lines) \/ i = Len(lines) + 1
  BY AppendLine DEF CleanLines
<1>2. ASSUME NEW i \in 1..Len(Append(lines, line)) PROVE Append(lines, line)[i].cmd # "ERR"
  <2>1. CASE i \in 1..Len(lines)
    <3>1. Append(lines, line)[i] = lines[i]
      BY <2>1, AppendLine DEF CleanLines
    <3> QED
      BY <2>1, <3>1 DEF CleanLines
  <2>2. CASE i = Len(lines) + 1
    BY <2>2, AppendLine DEF CleanLines
  <2> QED
    BY <1>1, <2>1, <2>2
<1>3. Append(lines, line) \in Seq(Line)
  BY AppendLine DEF CleanLines
<1> QED
  BY <1>2, <1>3 DEF CleanLines

\* A connection with only h's states still has only those after a line without
\* states, or with the states of a key that is h in lower case.
LEMMA AppendUpdate ==
    ASSUME NEW h \in Hash \cup {NoHash}, NEW lines \in LinesFor[h], NEW line \in Line,
           line.of = NoHash \/ Lower[line.of] = h
    PROVE  Append(lines, line) \in LinesFor[h]
<1>1. lines \in Seq(Line)
  BY DEF LinesFor
<1>2. \A i \in 1..Len(Append(lines, line)) : i \in 1..Len(lines) \/ i = Len(lines) + 1
  BY <1>1, AppendLine
<1>3. ASSUME NEW i \in 1..Len(Append(lines, line)), Append(lines, line)[i].of # NoHash
      PROVE  Lower[Append(lines, line)[i].of] = h
  <2>1. CASE i \in 1..Len(lines)
    <3>1. Append(lines, line)[i] = lines[i]
      BY <1>1, <2>1, AppendLine
    <3> QED
      BY <1>3, <2>1, <3>1 DEF LinesFor
  <2>2. CASE i = Len(lines) + 1
    BY <1>1, <1>3, <2>2, AppendLine
  <2> QED
    BY <1>2, <2>1, <2>2
<1>4. Append(lines, line) \in Seq(Line)
  BY <1>1, AppendLine
<1> QED
  BY <1>3, <1>4 DEF LinesFor

\* The three lines the server writes are lines.
LEMMA Lines ==
    /\ OkLine \in Line /\ OkLine.cmd = "OK" /\ OkLine.of = NoHash
    /\ ErrLine \in Line /\ ErrLine.cmd = "ERR" /\ ErrLine.of = NoHash
    /\ \A k \in Key \cup {NoHash} :
          UpdateLine(k) \in Line /\ UpdateLine(k).cmd = "UPDATE2" /\ UpdateLine(k).of = k
  BY DEF OkLine, ErrLine, UpdateLine, Line

\* One line more for connection c.
LEMMA WriteType ==
    ASSUME TypeOK, NEW c \in Conn, NEW line \in Line, Write(c, line)
    PROVE  /\ sent' \in [Conn -> Seq(Line)]
           /\ sent'[c] = Append(sent[c], line)
           /\ \A d \in Conn \ {c} : sent'[d] = sent[d]
<1>1. sent \in [Conn -> Seq(Line)] /\ sent[c] \in Seq(Line)
  BY DEF TypeOK
<1>2. Append(sent[c], line) \in Seq(Line)
  BY <1>1, AppendLine
<1> QED
  BY <1>1, <1>2 DEF Write

\* Handler c goes to another state.
LEMMA GotoType ==
    ASSUME TypeOK, NEW c \in Conn, NEW state \in HandlerStates, Goto(c, state)
    PROVE  /\ handler' \in [Conn -> HandlerStates]
           /\ handler'[c] = state
           /\ \A d \in Conn \ {c} : handler'[d] = handler[d]
  BY DEF TypeOK, Goto

--------------------------------------------------------------------------------
\* Every step keeps every variable in its type.
LEMMA TypeStep == TypeOK /\ [Next]_vars => TypeOK'
<1> SUFFICES ASSUME TypeOK, [Next]_vars PROVE TypeOK'
  OBVIOUS
<1> USE FalloffAssumption DEF TypeOK, HandlerStates, Named
<1>1. ASSUME NEW c \in Conn, PeerStalls(c) PROVE TypeOK'
  BY <1>1 DEF PeerStalls, publishVars
<1>2. ASSUME NEW c \in Conn, PeerHangsUp(c) PROVE TypeOK'
  BY <1>2 DEF PeerHangsUp, publishVars
<1>3. ASSUME NEW c \in Conn, Accept(c) PROVE TypeOK'
  BY <1>3 DEF Accept, Goto, publishVars
<1>4. ASSUME NEW c \in Conn, HelloFails(c) PROVE TypeOK'
  BY <1>4 DEF HelloFails, Goto, publishVars
<1>5. ASSUME NEW c \in Conn, HelloRejected(c) PROVE TypeOK'
  <2>1. sent' \in [Conn -> Seq(Line)]
    BY <1>5, Lines, WriteType DEF HelloRejected, Refuse
  <2>2. /\ handler' \in [Conn -> HandlerStates] /\ name' \in [Conn -> Hash \cup {NoHash}]
        /\ \A d \in Conn : handler'[d] \in Named => name'[d] \in Hash
    BY <1>5 DEF HelloRejected, Refuse, Goto
  <2> QED
    BY <1>5, <2>1, <2>2 DEF HelloRejected, Refuse, publishVars
<1>6. ASSUME NEW c \in Conn, NEW h \in Hash, HelloUnauthorized(c, h) PROVE TypeOK'
  <2>1. sent' \in [Conn -> Seq(Line)]
    BY <1>6, Lines, WriteType DEF HelloUnauthorized, Refuse
  <2>2. /\ handler' \in [Conn -> HandlerStates] /\ name' \in [Conn -> Hash \cup {NoHash}]
        /\ \A d \in Conn : handler'[d] \in Named => name'[d] \in Hash
    BY <1>6 DEF HelloUnauthorized, Refuse, Goto
  <2> QED
    BY <1>6, <2>1, <2>2 DEF HelloUnauthorized, Refuse, publishVars
<1>7. ASSUME NEW c \in Conn, NEW h \in Hash, HelloAccepted(c, h) PROVE TypeOK'
  BY <1>7 DEF HelloAccepted, Goto, publishVars
<1>8. ASSUME NEW c \in Conn, EvictOld(c) PROVE TypeOK'
  BY <1>8 DEF EvictOld, Goto, publishVars
<1>9. ASSUME NEW c \in Conn, Register(c) PROVE TypeOK'
  BY <1>9 DEF Register, Goto, publishVars
<1>10. ASSUME NEW c \in Conn, SendOk(c) PROVE TypeOK'
  <2>1. sent' \in [Conn -> Seq(Line)]
    BY <1>10, Lines, WriteType DEF SendOk, WriteOrDrop
  <2>2. /\ handler' \in [Conn -> HandlerStates] /\ name' \in [Conn -> Hash \cup {NoHash}]
        /\ \A d \in Conn : handler'[d] \in Named => name'[d] \in Hash
    BY <1>10, GotoType DEF SendOk, WriteOrDrop
  <2> QED
    BY <1>10, <2>1, <2>2 DEF SendOk, WriteOrDrop, publishVars
<1>11. ASSUME NEW c \in Conn, SendClear(c) PROVE TypeOK'
  <2>1. sent' \in [Conn -> Seq(Line)]
    BY <1>11, Lines, WriteType DEF SendClear, WriteOrDrop
  <2>2. /\ handler' \in [Conn -> HandlerStates] /\ name' \in [Conn -> Hash \cup {NoHash}]
        /\ \A d \in Conn : handler'[d] \in Named => name'[d] \in Hash
    BY <1>11, GotoType DEF SendClear, WriteOrDrop
  <2> QED
    BY <1>11, <2>1, <2>2 DEF SendClear, WriteOrDrop, publishVars
<1>12. ASSUME NEW c \in Conn, ReadPing(c) PROVE TypeOK'
  <2>1. sent' \in [Conn -> Seq(Line)]
    BY <1>12, Lines, WriteType DEF ReadPing, WriteOrDrop
  <2>2. /\ handler' \in [Conn -> HandlerStates] /\ name' \in [Conn -> Hash \cup {NoHash}]
        /\ \A d \in Conn : handler'[d] \in Named => name'[d] \in Hash
    BY <1>12, GotoType DEF ReadPing, WriteOrDrop
  <2> QED
    BY <1>12, <2>1, <2>2 DEF ReadPing, WriteOrDrop, publishVars
<1>13. ASSUME NEW c \in Conn, ReadBlank(c) PROVE TypeOK'
  BY <1>13 DEF ReadBlank, Goto, publishVars
<1>14. ASSUME NEW c \in Conn, LeaveLoop(c) PROVE TypeOK'
  BY <1>14 DEF LeaveLoop, Goto, publishVars
<1>15. ASSUME NEW c \in Conn, DropSelf(c) PROVE TypeOK'
  BY <1>15 DEF DropSelf, DropClient, Goto, publishVars
<1>16. ASSUME NEW c \in Conn, CloseSelf(c) PROVE TypeOK'
  BY <1>16 DEF CloseSelf, Goto, publishVars
<1>17. ASSUME NEW M \in SUBSET Key, BeginPublish(M) PROVE TypeOK'
  BY <1>17 DEF BeginPublish
<1>18. ASSUME NEW k \in Key, SendUpdate(k) PROVE TypeOK'
  <2>1. snapshot[Lower[k]] \in Conn
    BY <1>18 DEF SendUpdate
  <2> QED
    BY <1>18, <2>1, Lines, WriteType DEF SendUpdate
<1>19. ASSUME NEW k \in Key, SendUpdateFails(k) PROVE TypeOK'
  BY <1>19 DEF SendUpdateFails, DropClient
<1>20. CASE EndPublish \/ Stop
  BY <1>20 DEF EndPublish, Stop, StopSignal, StopListener, StopClear
<1>21. CASE UNCHANGED vars
  BY <1>21 DEF vars
<1> QED
  BY <1>1, <1>2, <1>3, <1>4, <1>5, <1>6, <1>7, <1>8, <1>9, <1>10, <1>11, <1>12,
     <1>13, <1>14, <1>15, <1>16, <1>17, <1>18, <1>19, <1>20, <1>21
     DEF Next, HandlerStep, ClientStep, MainStep, Stop

\* A handler writes a line, or leaves for its finally clause.
LEMMA WriteOrDropType ==
    ASSUME TypeOK, NEW c \in Conn, NEW line \in Line, NEW next \in HandlerStates,
           WriteOrDrop(c, line, next)
    PROVE  /\ handler' \in [Conn -> HandlerStates] /\ sent' \in [Conn -> Seq(Line)]
           /\ handler'[c] \in {next, "drop"} /\ sent'[c] \in {sent[c], Append(sent[c], line)}
           /\ \A d \in Conn \ {c} : handler'[d] = handler[d] /\ sent'[d] = sent[d]
<1>1. CASE Write(c, line) /\ Goto(c, next)
  BY <1>1, WriteType, GotoType
<1>2. CASE SendFails(c) /\ Goto(c, "drop") /\ UNCHANGED sent
  BY <1>2, GotoType DEF HandlerStates, TypeOK
<1> QED
  BY <1>1, <1>2 DEF WriteOrDrop

\* A handler refuses its client: it writes ERR, or nothing.
LEMMA RefuseType ==
    ASSUME TypeOK, NEW c \in Conn, Refuse(c)
    PROVE  /\ sent' \in [Conn -> Seq(Line)]
           /\ sent'[c] \in {sent[c], Append(sent[c], ErrLine)}
           /\ \A d \in Conn \ {c} : sent'[d] = sent[d]
           /\ open' \in {open, open \ {c}}
<1>1. CASE Write(c, ErrLine) /\ open' = open \ {c}
  BY <1>1, WriteType, Lines
<1>2. CASE UNCHANGED <<sent, open>>
  BY <1>2 DEF TypeOK
<1> QED
  BY <1>1, <1>2 DEF Refuse

\* Closing a registered connection leaves those that are not registered yet open.
LEMMA NewcomersStayOpen ==
    ASSUME TypeOK, RegistryInv, HandlerInv,
           NEW c \in Conn, handler[c] \in {"hello", "evict", "register"}
    PROVE  c \in open /\ \A h \in Hash : registry[h] # c
<1>1. handler[c] \notin Registrable
  BY DEF Registrable
<1>2. \A h \in Hash : registry[h] = c => handler[c] \in Registrable
  BY FalloffAssumption DEF RegistryInv
<1> QED
  BY <1>1, <1>2 DEF HandlerInv

\* The registry binds a hash to a connection that claimed it.
LEMMA RegistryStep == TypeOK /\ HandlerInv /\ RegistryInv /\ [Next]_vars => RegistryInv'
<1> SUFFICES ASSUME TypeOK, HandlerInv, RegistryInv, [Next]_vars PROVE RegistryInv'
  OBVIOUS
<1> USE FalloffAssumption DEF TypeOK, HandlerInv, RegistryInv, Registrable, Named, HandlerStates
<1>1. ASSUME NEW c \in Conn, PeerStalls(c) PROVE RegistryInv'
  BY <1>1 DEF PeerStalls, publishVars
<1>2. ASSUME NEW c \in Conn, PeerHangsUp(c) PROVE RegistryInv'
  BY <1>2 DEF PeerHangsUp, publishVars
<1>3. ASSUME NEW c \in Conn, Accept(c) PROVE RegistryInv'
  BY <1>3 DEF Accept, Goto, publishVars
<1>4. ASSUME NEW c \in Conn, HelloFails(c) PROVE RegistryInv'
  BY <1>4 DEF HelloFails, Goto, publishVars
<1>5. ASSUME NEW c \in Conn, HelloRejected(c) PROVE RegistryInv'
  BY <1>5 DEF HelloRejected, Refuse, Goto, publishVars
<1>6. ASSUME NEW c \in Conn, NEW h \in Hash, HelloUnauthorized(c, h) PROVE RegistryInv'
  BY <1>6 DEF HelloUnauthorized, Refuse, Goto, publishVars
<1>7. ASSUME NEW c \in Conn, NEW h \in Hash, HelloAccepted(c, h) PROVE RegistryInv'
  BY <1>7 DEF HelloAccepted, Goto, publishVars
<1>8. ASSUME NEW c \in Conn, EvictOld(c) PROVE RegistryInv'
  BY <1>8 DEF EvictOld, Goto, publishVars
<1>9. ASSUME NEW c \in Conn, Register(c) PROVE RegistryInv'
  BY <1>9 DEF Register, Goto, publishVars
<1>10. ASSUME NEW c \in Conn, SendOk(c) PROVE RegistryInv'
  BY <1>10, WriteOrDropType, Lines DEF SendOk, publishVars
<1>11. ASSUME NEW c \in Conn, SendClear(c) PROVE RegistryInv'
  BY <1>11, WriteOrDropType, Lines DEF SendClear, publishVars
<1>12. ASSUME NEW c \in Conn, ReadPing(c) PROVE RegistryInv'
  BY <1>12, WriteOrDropType, Lines DEF ReadPing, publishVars
<1>13. ASSUME NEW c \in Conn, ReadBlank(c) PROVE RegistryInv'
  BY <1>13 DEF ReadBlank, Goto, publishVars
<1>14. ASSUME NEW c \in Conn, LeaveLoop(c) PROVE RegistryInv'
  BY <1>14 DEF LeaveLoop, Goto, publishVars
<1>15. ASSUME NEW c \in Conn, DropSelf(c) PROVE RegistryInv'
  BY <1>15 DEF DropSelf, DropClient, Goto, publishVars
<1>16. ASSUME NEW c \in Conn, CloseSelf(c) PROVE RegistryInv'
  BY <1>16 DEF CloseSelf, Goto, publishVars
<1>17. ASSUME NEW M \in SUBSET Key, BeginPublish(M) PROVE RegistryInv'
  BY <1>17 DEF BeginPublish
<1>18. ASSUME NEW k \in Key, SendUpdate(k) PROVE RegistryInv'
  BY <1>18 DEF SendUpdate
<1>19. ASSUME NEW k \in Key, SendUpdateFails(k) PROVE RegistryInv'
  BY <1>19 DEF SendUpdateFails, DropClient
<1>20. CASE EndPublish \/ Stop
  BY <1>20 DEF EndPublish, Stop, StopSignal, StopListener, StopClear
<1>21. CASE UNCHANGED vars
  BY <1>21 DEF vars
<1> QED
  BY <1>1, <1>2, <1>3, <1>4, <1>5, <1>6, <1>7, <1>8, <1>9, <1>10, <1>11, <1>12,
     <1>13, <1>14, <1>15, <1>16, <1>17, <1>18, <1>19, <1>20, <1>21
     DEF Next, HandlerStep, ClientStep, MainStep

\* So does the copy that publish() works on.
LEMMA SnapshotStep == TypeOK /\ HandlerInv /\ RegistryInv /\ SnapshotInv /\ [Next]_vars => SnapshotInv'
<1> SUFFICES ASSUME TypeOK, HandlerInv, RegistryInv, SnapshotInv, [Next]_vars PROVE SnapshotInv'
  OBVIOUS
<1> USE FalloffAssumption DEF TypeOK, HandlerInv, RegistryInv, SnapshotInv, Registrable, Named, HandlerStates
<1>1. ASSUME NEW c \in Conn, PeerStalls(c) PROVE SnapshotInv'
  BY <1>1 DEF PeerStalls, publishVars
<1>2. ASSUME NEW c \in Conn, PeerHangsUp(c) PROVE SnapshotInv'
  BY <1>2 DEF PeerHangsUp, publishVars
<1>3. ASSUME NEW c \in Conn, Accept(c) PROVE SnapshotInv'
  BY <1>3 DEF Accept, Goto, publishVars
<1>4. ASSUME NEW c \in Conn, HelloFails(c) PROVE SnapshotInv'
  BY <1>4 DEF HelloFails, Goto, publishVars
<1>5. ASSUME NEW c \in Conn, HelloRejected(c) PROVE SnapshotInv'
  BY <1>5 DEF HelloRejected, Refuse, Goto, publishVars
<1>6. ASSUME NEW c \in Conn, NEW h \in Hash, HelloUnauthorized(c, h) PROVE SnapshotInv'
  BY <1>6 DEF HelloUnauthorized, Refuse, Goto, publishVars
<1>7. ASSUME NEW c \in Conn, NEW h \in Hash, HelloAccepted(c, h) PROVE SnapshotInv'
  BY <1>7 DEF HelloAccepted, Goto, publishVars
<1>8. ASSUME NEW c \in Conn, EvictOld(c) PROVE SnapshotInv'
  BY <1>8 DEF EvictOld, Goto, publishVars
<1>9. ASSUME NEW c \in Conn, Register(c) PROVE SnapshotInv'
  BY <1>9 DEF Register, Goto, publishVars
<1>10. ASSUME NEW c \in Conn, SendOk(c) PROVE SnapshotInv'
  BY <1>10, WriteOrDropType, Lines DEF SendOk, publishVars
<1>11. ASSUME NEW c \in Conn, SendClear(c) PROVE SnapshotInv'
  BY <1>11, WriteOrDropType, Lines DEF SendClear, publishVars
<1>12. ASSUME NEW c \in Conn, ReadPing(c) PROVE SnapshotInv'
  BY <1>12, WriteOrDropType, Lines DEF ReadPing, publishVars
<1>13. ASSUME NEW c \in Conn, ReadBlank(c) PROVE SnapshotInv'
  BY <1>13 DEF ReadBlank, Goto, publishVars
<1>14. ASSUME NEW c \in Conn, LeaveLoop(c) PROVE SnapshotInv'
  BY <1>14 DEF LeaveLoop, Goto, publishVars
<1>15. ASSUME NEW c \in Conn, DropSelf(c) PROVE SnapshotInv'
  BY <1>15 DEF DropSelf, DropClient, Goto, publishVars
<1>16. ASSUME NEW c \in Conn, CloseSelf(c) PROVE SnapshotInv'
  BY <1>16 DEF CloseSelf, Goto, publishVars
<1>17. ASSUME NEW M \in SUBSET Key, BeginPublish(M) PROVE SnapshotInv'
  BY <1>17 DEF BeginPublish
<1>18. ASSUME NEW k \in Key, SendUpdate(k) PROVE SnapshotInv'
  BY <1>18 DEF SendUpdate
<1>19. ASSUME NEW k \in Key, SendUpdateFails(k) PROVE SnapshotInv'
  BY <1>19 DEF SendUpdateFails, DropClient
<1>20. CASE EndPublish \/ Stop
  <2>1. UNCHANGED <<handler, name>>
        /\ snapshot' \in {snapshot, [h \in Hash |-> NoConn]}
    BY <1>20 DEF EndPublish, Stop, StopSignal, StopListener, StopClear
  <2> QED
    BY <2>1
<1>21. CASE UNCHANGED vars
  BY <1>21 DEF vars
<1> QED
  BY <1>1, <1>2, <1>3, <1>4, <1>5, <1>6, <1>7, <1>8, <1>9, <1>10, <1>11, <1>12,
     <1>13, <1>14, <1>15, <1>16, <1>17, <1>18, <1>19, <1>20, <1>21
     DEF Next, HandlerStep, ClientStep, MainStep

\* Every step keeps HandlerInv: a handler's place says whether its socket is open
\* and what it was sent.
LEMMA HandlerInvStep == TypeOK /\ HandlerInv /\ RegistryInv /\ SnapshotInv /\ [Next]_vars => HandlerInv'
<1> SUFFICES ASSUME TypeOK, HandlerInv, RegistryInv, SnapshotInv, [Next]_vars PROVE HandlerInv'
  OBVIOUS
<1> USE FalloffAssumption DEF TypeOK, HandlerInv, RegistryInv, SnapshotInv, Registrable, Named, HandlerStates
<1>1. ASSUME NEW c \in Conn, PeerStalls(c) PROVE HandlerInv'
  BY <1>1 DEF PeerStalls, publishVars
<1>2. ASSUME NEW c \in Conn, PeerHangsUp(c) PROVE HandlerInv'
  BY <1>2 DEF PeerHangsUp, publishVars
<1>3. ASSUME NEW c \in Conn, Accept(c) PROVE HandlerInv'
  BY <1>3 DEF Accept, Goto, publishVars
<1>4. ASSUME NEW c \in Conn, HelloFails(c) PROVE HandlerInv'
  BY <1>4 DEF HelloFails, Goto, publishVars
<1>5. ASSUME NEW c \in Conn, HelloRejected(c) PROVE HandlerInv'
  <2>1. open' \in {open, open \ {c}} /\ \A d \in Conn \ {c} : sent'[d] = sent[d]
    BY <1>5, RefuseType DEF HelloRejected
  <2>2. handler' = [handler EXCEPT ![c] = "close"] /\ UNCHANGED name
    BY <1>5 DEF HelloRejected, Goto
  <2> QED
    BY <2>1, <2>2
<1>6. ASSUME NEW c \in Conn, NEW h \in Hash, HelloUnauthorized(c, h) PROVE HandlerInv'
  <2>1. handler' = [handler EXCEPT ![c] = "drop"] /\ name' = [name EXCEPT ![c] = h]
    BY <1>6 DEF HelloUnauthorized, Goto
  <2>2. open' \in {open, open \ {c}} /\ \A d \in Conn \ {c} : sent'[d] = sent[d]
    BY <1>6, RefuseType DEF HelloUnauthorized
  <2> QED
    BY <2>1, <2>2
<1>7. ASSUME NEW c \in Conn, NEW h \in Hash, HelloAccepted(c, h) PROVE HandlerInv'
  BY <1>7 DEF HelloAccepted, Goto, publishVars
<1>8. ASSUME NEW c \in Conn, EvictOld(c) PROVE HandlerInv'
  <2>1. name[c] \in Hash
    BY <1>8 DEF EvictOld
  <2>2. handler' = [handler EXCEPT ![c] = "register"] /\ open' = open \ {registry[name[c]]}
        /\ UNCHANGED <<name, sent>>
    BY <1>8 DEF EvictOld, Goto
  <2>3. \A d \in Conn : handler[d] \in {"hello", "evict", "register"} => d \in open'
    BY <2>1, <2>2, NewcomersStayOpen
  <2> QED
    BY <1>8, <2>2, <2>3 DEF EvictOld
<1>9. ASSUME NEW c \in Conn, Register(c) PROVE HandlerInv'
  BY <1>9 DEF Register, Goto, publishVars
<1>10. ASSUME NEW c \in Conn, SendOk(c) PROVE HandlerInv'
  BY <1>10, WriteOrDropType, Lines DEF SendOk, publishVars
<1>11. ASSUME NEW c \in Conn, SendClear(c) PROVE HandlerInv'
  BY <1>11, WriteOrDropType, Lines DEF SendClear, publishVars
<1>12. ASSUME NEW c \in Conn, ReadPing(c) PROVE HandlerInv'
  BY <1>12, WriteOrDropType, Lines DEF ReadPing, publishVars
<1>13. ASSUME NEW c \in Conn, ReadBlank(c) PROVE HandlerInv'
  BY <1>13 DEF ReadBlank, Goto, publishVars
<1>14. ASSUME NEW c \in Conn, LeaveLoop(c) PROVE HandlerInv'
  BY <1>14 DEF LeaveLoop, Goto, publishVars
<1>15. ASSUME NEW c \in Conn, DropSelf(c) PROVE HandlerInv'
  <2>1. name[c] \in Hash
    BY <1>15 DEF DropSelf
  <2>2. handler' = [handler EXCEPT ![c] = "close"] /\ open' = open \ {registry[name[c]]}
        /\ UNCHANGED <<name, sent>>
    BY <1>15 DEF DropSelf, DropClient, Goto
  <2>3. \A d \in Conn : handler[d] \in {"hello", "evict", "register"} => d \in open'
    BY <2>1, <2>2, NewcomersStayOpen
  <2> QED
    BY <1>15, <2>2, <2>3 DEF DropSelf
<1>16. ASSUME NEW c \in Conn, CloseSelf(c) PROVE HandlerInv'
  BY <1>16 DEF CloseSelf, Goto, publishVars
<1>17. ASSUME NEW M \in SUBSET Key, BeginPublish(M) PROVE HandlerInv'
  BY <1>17 DEF BeginPublish
<1>18. ASSUME NEW k \in Key, SendUpdate(k) PROVE HandlerInv'
  <2>1. snapshot[Lower[k]] \in Conn
    BY <1>18 DEF SendUpdate
  <2>2. handler[snapshot[Lower[k]]] \in Registrable \cup {"close", "done"}
    BY <2>1
  <2> QED
    BY <1>18, <2>1, <2>2, WriteType, Lines DEF SendUpdate
<1>19. ASSUME NEW k \in Key, SendUpdateFails(k) PROVE HandlerInv'
  <2>1. Lower[k] \in Hash
    BY DEF FalloffAssumption
  <2>2. \A d \in Conn : handler[d] \in {"hello", "evict", "register"} => d \in open'
    BY <1>19, <2>1, NewcomersStayOpen DEF SendUpdateFails, DropClient
  <2> QED
    BY <1>19, <2>2 DEF SendUpdateFails, DropClient
<1>20. CASE EndPublish \/ Stop
  <2>1. UNCHANGED <<handler, name, sent>> /\ open' \subseteq open
    BY <1>20 DEF EndPublish, Stop, StopSignal, StopListener, StopClear
  <2>2. \A d \in Conn : handler[d] \in {"hello", "evict", "register"} => d \in open'
    BY <1>20, NewcomersStayOpen DEF EndPublish, Stop, StopSignal, StopListener, StopClear
  <2> QED
    BY <2>1, <2>2
<1>21. CASE UNCHANGED vars
  BY <1>21 DEF vars
<1> QED
  BY <1>1, <1>2, <1>3, <1>4, <1>5, <1>6, <1>7, <1>8, <1>9, <1>10, <1>11, <1>12,
     <1>13, <1>14, <1>15, <1>16, <1>17, <1>18, <1>19, <1>20, <1>21
     DEF Next, HandlerStep, ClientStep, MainStep

\* A client that was sent ERR is never written to again.
LEMMA RefusedStep == TypeOK /\ HandlerInv /\ RegistryInv /\ SnapshotInv /\ RefusedInv /\ [Next]_vars => RefusedInv'
<1> SUFFICES ASSUME TypeOK, HandlerInv, RegistryInv, SnapshotInv, RefusedInv, [Next]_vars PROVE RefusedInv'
  OBVIOUS
<1>1. ASSUME NEW c \in Conn, PeerStalls(c) PROVE RefusedInv'
  BY <1>1, FalloffAssumption DEF PeerStalls, publishVars, TypeOK, HandlerInv, RegistryInv, SnapshotInv, RefusedInv, Registrable
<1>2. ASSUME NEW c \in Conn, PeerHangsUp(c) PROVE RefusedInv'
  BY <1>2, FalloffAssumption DEF PeerHangsUp, publishVars, TypeOK, HandlerInv, RegistryInv, SnapshotInv, RefusedInv, Registrable
<1>3. ASSUME NEW c \in Conn, Accept(c) PROVE RefusedInv'
  BY <1>3, FalloffAssumption DEF Accept, Goto, publishVars, TypeOK, HandlerInv, RegistryInv, SnapshotInv, RefusedInv, Registrable
<1>4. ASSUME NEW c \in Conn, HelloFails(c) PROVE RefusedInv'
  BY <1>4, FalloffAssumption DEF HelloFails, Goto, publishVars, TypeOK, HandlerInv, RegistryInv, SnapshotInv, RefusedInv, Registrable
<1>5. ASSUME NEW c \in Conn, HelloRejected(c) PROVE RefusedInv'
  <2>1. sent[c] = <<>> /\ \A g \in Hash : registry[g] # c /\ snapshot[g] # c
    BY <1>5, NewcomersStayOpen, FalloffAssumption DEF HelloRejected, Refuse, HandlerInv, SnapshotInv, Registrable
  <2>2. sent'[c] \in {<<>>, Append(<<>>, ErrLine)} /\ \A d \in Conn \ {c} : sent'[d] = sent[d]
    BY <1>5, <2>1, RefuseType DEF HelloRejected
  <2>3. Len(Append(<<>>, ErrLine)) = 1 /\ <<>> \in CleanLines
    BY AppendLine, Lines DEF CleanLines
  <2>4. handler' = [handler EXCEPT ![c] = "close"] /\ UNCHANGED <<registry, snapshot>>
    BY <1>5 DEF HelloRejected, Refuse, Goto, publishVars
  <2> QED
    BY <2>1, <2>2, <2>3, <2>4 DEF RefusedInv, TypeOK
<1>6. ASSUME NEW c \in Conn, NEW h \in Hash, HelloUnauthorized(c, h) PROVE RefusedInv'
  <2>1. sent[c] = <<>> /\ \A g \in Hash : registry[g] # c /\ snapshot[g] # c
    BY <1>6, NewcomersStayOpen, FalloffAssumption DEF HelloUnauthorized, Refuse, HandlerInv, SnapshotInv, Registrable
  <2>2. sent'[c] \in {<<>>, Append(<<>>, ErrLine)} /\ \A d \in Conn \ {c} : sent'[d] = sent[d]
    BY <1>6, <2>1, RefuseType DEF HelloUnauthorized
  <2>3. Len(Append(<<>>, ErrLine)) = 1 /\ <<>> \in CleanLines
    BY AppendLine, Lines DEF CleanLines
  <2>4. handler' = [handler EXCEPT ![c] = "drop"] /\ UNCHANGED <<registry, snapshot>>
    BY <1>6 DEF HelloUnauthorized, Refuse, Goto, publishVars
  <2> QED
    BY <2>1, <2>2, <2>3, <2>4 DEF RefusedInv, TypeOK
<1>7. ASSUME NEW c \in Conn, NEW h \in Hash, HelloAccepted(c, h) PROVE RefusedInv'
  BY <1>7, FalloffAssumption DEF HelloAccepted, Goto, publishVars, TypeOK, HandlerInv, RegistryInv, SnapshotInv, RefusedInv, Registrable
<1>8. ASSUME NEW c \in Conn, EvictOld(c) PROVE RefusedInv'
  BY <1>8, FalloffAssumption DEF EvictOld, Goto, publishVars, TypeOK, HandlerInv, RegistryInv, SnapshotInv, RefusedInv, Registrable
<1>9. ASSUME NEW c \in Conn, Register(c) PROVE RefusedInv'
  BY <1>9, FalloffAssumption DEF Register, Goto, publishVars, TypeOK, HandlerInv, RegistryInv, SnapshotInv, RefusedInv, Registrable
<1>10. ASSUME NEW c \in Conn, SendOk(c) PROVE RefusedInv'
  <2>1. sent[c] \in Seq(Line) /\ sent[c] \in CleanLines
    BY <1>10 DEF SendOk, TypeOK, RefusedInv
  <2>2. Append(sent[c], OkLine) \in CleanLines
    BY <2>1, AppendClean, Lines
  <2>3. /\ sent'[c] \in {sent[c], Append(sent[c], OkLine)}
        /\ \A d \in Conn \ {c} : sent'[d] = sent[d] /\ handler'[d] = handler[d]
        /\ handler[c] \in {"greet", "clear", "loop"} /\ UNCHANGED <<registry, snapshot>>
    BY <1>10, WriteOrDropType, Lines DEF SendOk, publishVars, HandlerStates
  <2>4. \A d \in Conn : sent'[d] \in CleanLines \/ (sent'[d] = sent[d] /\ d # c)
    BY <2>1, <2>2, <2>3
  <2> QED
    BY <2>3, <2>4 DEF RefusedInv, TypeOK
<1>11. ASSUME NEW c \in Conn, SendClear(c) PROVE RefusedInv'
  <2>1. sent[c] \in Seq(Line) /\ sent[c] \in CleanLines
    BY <1>11 DEF SendClear, TypeOK, RefusedInv
  <2>2. Append(sent[c], UpdateLine(NoHash)) \in CleanLines
    BY <2>1, AppendClean, Lines
  <2>3. /\ sent'[c] \in {sent[c], Append(sent[c], UpdateLine(NoHash))}
        /\ \A d \in Conn \ {c} : sent'[d] = sent[d] /\ handler'[d] = handler[d]
        /\ handler[c] \in {"greet", "clear", "loop"} /\ UNCHANGED <<registry, snapshot>>
    BY <1>11, WriteOrDropType, Lines DEF SendClear, publishVars, HandlerStates
  <2>4. \A d \in Conn : sent'[d] \in CleanLines \/ (sent'[d] = sent[d] /\ d # c)
    BY <2>1, <2>2, <2>3
  <2> QED
    BY <2>3, <2>4 DEF RefusedInv, TypeOK
<1>12. ASSUME NEW c \in Conn, ReadPing(c) PROVE RefusedInv'
  <2>1. sent[c] \in Seq(Line) /\ sent[c] \in CleanLines
    BY <1>12 DEF ReadPing, TypeOK, RefusedInv
  <2>2. Append(sent[c], OkLine) \in CleanLines
    BY <2>1, AppendClean, Lines
  <2>3. /\ sent'[c] \in {sent[c], Append(sent[c], OkLine)}
        /\ \A d \in Conn \ {c} : sent'[d] = sent[d] /\ handler'[d] = handler[d]
        /\ handler[c] \in {"greet", "clear", "loop"} /\ UNCHANGED <<registry, snapshot>>
    BY <1>12, WriteOrDropType, Lines DEF ReadPing, publishVars, HandlerStates
  <2>4. \A d \in Conn : sent'[d] \in CleanLines \/ (sent'[d] = sent[d] /\ d # c)
    BY <2>1, <2>2, <2>3
  <2> QED
    BY <2>3, <2>4 DEF RefusedInv, TypeOK
<1>13. ASSUME NEW c \in Conn, ReadBlank(c) PROVE RefusedInv'
  BY <1>13, FalloffAssumption DEF ReadBlank, Goto, publishVars, TypeOK, HandlerInv, RegistryInv, SnapshotInv, RefusedInv, Registrable
<1>14. ASSUME NEW c \in Conn, LeaveLoop(c) PROVE RefusedInv'
  BY <1>14, FalloffAssumption DEF LeaveLoop, Goto, publishVars, TypeOK, HandlerInv, RegistryInv, SnapshotInv, RefusedInv, Registrable
<1>15. ASSUME NEW c \in Conn, DropSelf(c) PROVE RefusedInv'
  BY <1>15, FalloffAssumption DEF DropSelf, DropClient, Goto, publishVars, TypeOK, HandlerInv, RegistryInv, SnapshotInv, RefusedInv, Registrable
<1>16. ASSUME NEW c \in Conn, CloseSelf(c) PROVE RefusedInv'
  BY <1>16, FalloffAssumption DEF CloseSelf, Goto, publishVars, TypeOK, HandlerInv, RegistryInv, SnapshotInv, RefusedInv, Registrable
<1>17. ASSUME NEW M \in SUBSET Key, BeginPublish(M) PROVE RefusedInv'
  BY <1>17, FalloffAssumption DEF BeginPublish, TypeOK, HandlerInv, RegistryInv, SnapshotInv, RefusedInv, Registrable
<1>18. ASSUME NEW k \in Key, SendUpdate(k) PROVE RefusedInv'
  <2>1. Lower[k] \in Hash /\ snapshot[Lower[k]] \in Conn
    BY <1>18, FalloffAssumption DEF SendUpdate, TypeOK
  <2>2. sent[snapshot[Lower[k]]] \in CleanLines
    BY <2>1 DEF RefusedInv
  <2> DEFINE c == snapshot[Lower[k]]
             j == IF k \in matrix THEN k ELSE NoHash
  <2>3. UpdateLine(j) \in Line /\ UpdateLine(j).cmd # "ERR" /\ Write(c, UpdateLine(j))
    BY <1>18, Lines DEF SendUpdate
  <2>4. Append(sent[c], UpdateLine(j)) \in CleanLines
    BY <2>1, <2>2, <2>3, AppendClean
  <2>5. sent'[c] = Append(sent[c], UpdateLine(j)) /\ \A d \in Conn \ {c} : sent'[d] = sent[d]
    BY <2>1, <2>3, WriteType
  <2>6. \A d \in Conn : sent'[d] \in CleanLines \/ sent'[d] = sent[d]
    BY <2>1, <2>4, <2>5
  <2>7. UNCHANGED <<handler, registry, snapshot>>
    BY <1>18 DEF SendUpdate
  <2> QED
    BY <2>6, <2>7 DEF RefusedInv
<1>19. ASSUME NEW k \in Key, SendUpdateFails(k) PROVE RefusedInv'
  BY <1>19, FalloffAssumption DEF SendUpdateFails, DropClient, TypeOK, HandlerInv, RegistryInv, SnapshotInv, RefusedInv, Registrable
<1>20. CASE EndPublish \/ Stop
  BY <1>20, FalloffAssumption DEF EndPublish, Stop, StopSignal, StopListener, StopClear, TypeOK, HandlerInv, RegistryInv, SnapshotInv, RefusedInv, Registrable
<1>21. CASE UNCHANGED vars
  BY <1>21 DEF vars, TypeOK, HandlerInv, RegistryInv, SnapshotInv, RefusedInv, Registrable
<1> QED
  BY <1>1, <1>2, <1>3, <1>4, <1>5, <1>6, <1>7, <1>8, <1>9, <1>10, <1>11, <1>12,
     <1>13, <1>14, <1>15, <1>16, <1>17, <1>18, <1>19, <1>20, <1>21
     DEF Next, HandlerStep, ClientStep, MainStep

\* Updates are written to the connection that claimed their hash.
LEMMA HeardStep == TypeOK /\ HandlerInv /\ SnapshotInv /\ HeardInv /\ [Next]_vars => HeardInv'
<1> SUFFICES ASSUME TypeOK, HandlerInv, SnapshotInv, HeardInv, [Next]_vars PROVE HeardInv'
  OBVIOUS
<1>1. ASSUME NEW c \in Conn, PeerStalls(c) PROVE HeardInv'
  BY <1>1, FalloffAssumption DEF PeerStalls, publishVars, TypeOK, HandlerInv, SnapshotInv, HeardInv, Named
<1>2. ASSUME NEW c \in Conn, PeerHangsUp(c) PROVE HeardInv'
  BY <1>2, FalloffAssumption DEF PeerHangsUp, publishVars, TypeOK, HandlerInv, SnapshotInv, HeardInv, Named
<1>3. ASSUME NEW c \in Conn, Accept(c) PROVE HeardInv'
  BY <1>3, FalloffAssumption DEF Accept, Goto, publishVars, TypeOK, HandlerInv, SnapshotInv, HeardInv, Named
<1>4. ASSUME NEW c \in Conn, HelloFails(c) PROVE HeardInv'
  BY <1>4, FalloffAssumption DEF HelloFails, Goto, publishVars, TypeOK, HandlerInv, SnapshotInv, HeardInv, Named
<1>5. ASSUME NEW c \in Conn, HelloRejected(c) PROVE HeardInv'
  <2>1. sent[c] = <<>>
    BY <1>5 DEF HelloRejected, Refuse, HandlerInv
  <2>2. sent'[c] \in {<<>>, Append(<<>>, ErrLine)} /\ \A d \in Conn \ {c} : sent'[d] = sent[d]
    BY <1>5, <2>1, RefuseType DEF HelloRejected
  <2>3. name'[c] \in Hash \cup {NoHash} /\ <<>> \in LinesFor[name'[c]]
    BY <1>5 DEF HelloRejected, TypeOK, LinesFor
  <2>4. sent'[c] \in LinesFor[name'[c]]
    <3>1. Append(<<>>, ErrLine) \in LinesFor[name'[c]]
      BY <2>3, AppendUpdate, Lines
    <3> QED
      BY <2>2, <2>3, <3>1
  <2>5. \A d \in Conn \ {c} : name'[d] = name[d]
    BY <1>5 DEF HelloRejected, TypeOK
  <2> QED
    BY <2>2, <2>4, <2>5 DEF HeardInv
<1>6. ASSUME NEW c \in Conn, NEW h \in Hash, HelloUnauthorized(c, h) PROVE HeardInv'
  <2>1. sent[c] = <<>>
    BY <1>6 DEF HelloUnauthorized, Refuse, HandlerInv
  <2>2. sent'[c] \in {<<>>, Append(<<>>, ErrLine)} /\ \A d \in Conn \ {c} : sent'[d] = sent[d]
    BY <1>6, <2>1, RefuseType DEF HelloUnauthorized
  <2>3. name'[c] \in Hash \cup {NoHash} /\ <<>> \in LinesFor[name'[c]]
    BY <1>6 DEF HelloUnauthorized, TypeOK, LinesFor
  <2>4. sent'[c] \in LinesFor[name'[c]]
    <3>1. Append(<<>>, ErrLine) \in LinesFor[name'[c]]
      BY <2>3, AppendUpdate, Lines
    <3> QED
      BY <2>2, <2>3, <3>1
  <2>5. \A d \in Conn \ {c} : name'[d] = name[d]
    BY <1>6 DEF HelloUnauthorized, TypeOK
  <2> QED
    BY <2>2, <2>4, <2>5 DEF HeardInv
<1>7. ASSUME NEW c \in Conn, NEW h \in Hash, HelloAccepted(c, h) PROVE HeardInv'
  <2>1. sent[c] = <<>> /\ UNCHANGED sent /\ name' = [name EXCEPT ![c] = h]
    BY <1>7 DEF HelloAccepted, HandlerInv
  <2>2. <<>> \in LinesFor[h]
    BY DEF LinesFor
  <2> QED
    BY <2>1, <2>2 DEF HeardInv, TypeOK
<1>8. ASSUME NEW c \in Conn, EvictOld(c) PROVE HeardInv'
  BY <1>8, FalloffAssumption DEF EvictOld, Goto, publishVars, TypeOK, HandlerInv, SnapshotInv, HeardInv, Named
<1>9. ASSUME NEW c \in Conn, Register(c) PROVE HeardInv'
  BY <1>9, FalloffAssumption DEF Register, Goto, publishVars, TypeOK, HandlerInv, SnapshotInv, HeardInv, Named
<1>10. ASSUME NEW c \in Conn, SendOk(c) PROVE HeardInv'
  <2>1. sent[c] \in Seq(Line) /\ name[c] \in Hash /\ sent[c] \in LinesFor[name[c]]
    BY <1>10 DEF SendOk, TypeOK, HeardInv, Named
  <2>2. Append(sent[c], OkLine) \in LinesFor[name[c]]
    BY <2>1, AppendUpdate, Lines
  <2>3. /\ sent'[c] \in {sent[c], Append(sent[c], OkLine)} /\ UNCHANGED name
        /\ \A d \in Conn \ {c} : sent'[d] = sent[d]
    BY <1>10, WriteOrDropType, Lines DEF SendOk, HandlerStates
  <2>4. \A d \in Conn : sent'[d] \in LinesFor[name[d]] /\ name'[d] = name[d]
    BY <2>1, <2>2, <2>3 DEF HeardInv
  <2> QED
    BY <2>4 DEF HeardInv
<1>11. ASSUME NEW c \in Conn, SendClear(c) PROVE HeardInv'
  <2>1. sent[c] \in Seq(Line) /\ name[c] \in Hash /\ sent[c] \in LinesFor[name[c]]
    BY <1>11 DEF SendClear, TypeOK, HeardInv, Named
  <2>2. Append(sent[c], UpdateLine(NoHash)) \in LinesFor[name[c]]
    BY <2>1, AppendUpdate, Lines
  <2>3. /\ sent'[c] \in {sent[c], Append(sent[c], UpdateLine(NoHash))} /\ UNCHANGED name
        /\ \A d \in Conn \ {c} : sent'[d] = sent[d]
    BY <1>11, WriteOrDropType, Lines DEF SendClear, HandlerStates
  <2>4. \A d \in Conn : sent'[d] \in LinesFor[name[d]] /\ name'[d] = name[d]
    BY <2>1, <2>2, <2>3 DEF HeardInv
  <2> QED
    BY <2>4 DEF HeardInv
<1>12. ASSUME NEW c \in Conn, ReadPing(c) PROVE HeardInv'
  <2>1. sent[c] \in Seq(Line) /\ name[c] \in Hash /\ sent[c] \in LinesFor[name[c]]
    BY <1>12 DEF ReadPing, TypeOK, HeardInv, Named
  <2>2. Append(sent[c], OkLine) \in LinesFor[name[c]]
    BY <2>1, AppendUpdate, Lines
  <2>3. /\ sent'[c] \in {sent[c], Append(sent[c], OkLine)} /\ UNCHANGED name
        /\ \A d \in Conn \ {c} : sent'[d] = sent[d]
    BY <1>12, WriteOrDropType, Lines DEF ReadPing, HandlerStates
  <2>4. \A d \in Conn : sent'[d] \in LinesFor[name[d]] /\ name'[d] = name[d]
    BY <2>1, <2>2, <2>3 DEF HeardInv
  <2> QED
    BY <2>4 DEF HeardInv
<1>13. ASSUME NEW c \in Conn, ReadBlank(c) PROVE HeardInv'
  BY <1>13, FalloffAssumption DEF ReadBlank, Goto, publishVars, TypeOK, HandlerInv, SnapshotInv, HeardInv, Named
<1>14. ASSUME NEW c \in Conn, LeaveLoop(c) PROVE HeardInv'
  BY <1>14, FalloffAssumption DEF LeaveLoop, Goto, publishVars, TypeOK, HandlerInv, SnapshotInv, HeardInv, Named
<1>15. ASSUME NEW c \in Conn, DropSelf(c) PROVE HeardInv'
  BY <1>15, FalloffAssumption DEF DropSelf, DropClient, Goto, publishVars, TypeOK, HandlerInv, SnapshotInv, HeardInv, Named
<1>16. ASSUME NEW c \in Conn, CloseSelf(c) PROVE HeardInv'
  BY <1>16, FalloffAssumption DEF CloseSelf, Goto, publishVars, TypeOK, HandlerInv, SnapshotInv, HeardInv, Named
<1>17. ASSUME NEW M \in SUBSET Key, BeginPublish(M) PROVE HeardInv'
  BY <1>17, FalloffAssumption DEF BeginPublish, TypeOK, HandlerInv, SnapshotInv, HeardInv, Named
<1>18. ASSUME NEW k \in Key, SendUpdate(k) PROVE HeardInv'
  <2> DEFINE c == snapshot[Lower[k]]
             j == IF k \in matrix THEN k ELSE NoHash
  <2>1. c \in Conn /\ name[c] = Lower[k] /\ name[c] \in Hash /\ sent[c] \in LinesFor[name[c]]
    BY <1>18, FalloffAssumption DEF SendUpdate, TypeOK, SnapshotInv, HeardInv
  <2>2. UpdateLine(j) \in Line /\ UpdateLine(j).of = j /\ Write(c, UpdateLine(j))
    BY <1>18, Lines DEF SendUpdate
  <2>3. j = NoHash \/ Lower[j] = name[c]
    BY <2>1
  <2>4. Append(sent[c], UpdateLine(j)) \in LinesFor[name[c]]
    BY <2>1, <2>2, <2>3, AppendUpdate
  <2>5. sent'[c] = Append(sent[c], UpdateLine(j)) /\ \A d \in Conn \ {c} : sent'[d] = sent[d]
    BY <2>1, <2>2, WriteType
  <2>6. \A d \in Conn : sent'[d] \in LinesFor[name[d]] /\ name'[d] = name[d]
    BY <1>18, <2>1, <2>4, <2>5 DEF SendUpdate, HeardInv
  <2> QED
    BY <2>6 DEF HeardInv
<1>19. ASSUME NEW k \in Key, SendUpdateFails(k) PROVE HeardInv'
  BY <1>19, FalloffAssumption DEF SendUpdateFails, DropClient, TypeOK, HandlerInv, SnapshotInv, HeardInv, Named
<1>20. CASE EndPublish \/ Stop
  BY <1>20, FalloffAssumption DEF EndPublish, Stop, StopSignal, StopListener, StopClear, TypeOK, HandlerInv, SnapshotInv, HeardInv, Named
<1>21. CASE UNCHANGED vars
  BY <1>21 DEF vars, TypeOK, HandlerInv, SnapshotInv, HeardInv, Named
<1> QED
  BY <1>1, <1>2, <1>3, <1>4, <1>5, <1>6, <1>7, <1>8, <1>9, <1>10, <1>11, <1>12,
     <1>13, <1>14, <1>15, <1>16, <1>17, <1>18, <1>19, <1>20, <1>21
     DEF Next, HandlerStep, ClientStep, MainStep

\* A connection that is alone with its hash is left alone.
LEMMA SoleStep == TypeOK /\ HandlerInv /\ RegistryInv /\ SnapshotInv /\ SoleConnectionStaysUp /\ [Next]_vars => SoleConnectionStaysUp'
<1> SUFFICES ASSUME TypeOK, HandlerInv, RegistryInv, SnapshotInv, SoleConnectionStaysUp, [Next]_vars PROVE SoleConnectionStaysUp'
  OBVIOUS
<1>1. ASSUME NEW c \in Conn, PeerStalls(c) PROVE SoleConnectionStaysUp'
  BY <1>1, FalloffAssumption DEF PeerStalls, publishVars, TypeOK, HandlerInv, RegistryInv, SnapshotInv, SoleConnectionStaysUp, Registrable, SendFails, Named
<1>2. ASSUME NEW c \in Conn, PeerHangsUp(c) PROVE SoleConnectionStaysUp'
  BY <1>2, FalloffAssumption DEF PeerHangsUp, publishVars, TypeOK, HandlerInv, RegistryInv, SnapshotInv, SoleConnectionStaysUp, Registrable, SendFails, Named
<1>3. ASSUME NEW c \in Conn, Accept(c) PROVE SoleConnectionStaysUp'
  BY <1>3, FalloffAssumption DEF Accept, Goto, publishVars, TypeOK, HandlerInv, RegistryInv, SnapshotInv, SoleConnectionStaysUp, Registrable, SendFails, Named
<1>4. ASSUME NEW c \in Conn, HelloFails(c) PROVE SoleConnectionStaysUp'
  BY <1>4, FalloffAssumption DEF HelloFails, Goto, publishVars, TypeOK, HandlerInv, RegistryInv, SnapshotInv, SoleConnectionStaysUp, Registrable, SendFails, Named
<1>5. ASSUME NEW c \in Conn, HelloRejected(c) PROVE SoleConnectionStaysUp'
  BY <1>5, FalloffAssumption DEF HelloRejected, Refuse, Goto, publishVars, TypeOK, HandlerInv, RegistryInv, SnapshotInv, SoleConnectionStaysUp, Registrable, SendFails, Named
<1>6. ASSUME NEW c \in Conn, NEW h \in Hash, HelloUnauthorized(c, h) PROVE SoleConnectionStaysUp'
  BY <1>6, FalloffAssumption DEF HelloUnauthorized, Refuse, Goto, publishVars, TypeOK, HandlerInv, RegistryInv, SnapshotInv, SoleConnectionStaysUp, Registrable, SendFails, Named
<1>7. ASSUME NEW c \in Conn, NEW h \in Hash, HelloAccepted(c, h) PROVE SoleConnectionStaysUp'
  BY <1>7, FalloffAssumption DEF HelloAccepted, Goto, publishVars, TypeOK, HandlerInv, RegistryInv, SnapshotInv, SoleConnectionStaysUp, Registrable, SendFails, Named
<1>8. ASSUME NEW c \in Conn, EvictOld(c) PROVE SoleConnectionStaysUp'
  BY <1>8, FalloffAssumption DEF EvictOld, Goto, publishVars, TypeOK, HandlerInv, RegistryInv, SnapshotInv, SoleConnectionStaysUp, Registrable, SendFails, Named
<1>9. ASSUME NEW c \in Conn, Register(c) PROVE SoleConnectionStaysUp'
  BY <1>9, FalloffAssumption DEF Register, Goto, publishVars, TypeOK, HandlerInv, RegistryInv, SnapshotInv, SoleConnectionStaysUp, Registrable, SendFails, Named
<1>10. ASSUME NEW c \in Conn, SendOk(c) PROVE SoleConnectionStaysUp'
  <2>1. /\ \A d \in Conn \ {c} : handler'[d] = handler[d]
        /\ handler[c] \in {"greet", "clear", "loop"}
        /\ UNCHANGED <<name, open, peer, registry, main>>
    BY <1>10, WriteOrDropType, Lines DEF SendOk, publishVars, HandlerStates
  <2> QED
    BY <2>1 DEF SoleConnectionStaysUp
<1>11. ASSUME NEW c \in Conn, SendClear(c) PROVE SoleConnectionStaysUp'
  <2>1. /\ \A d \in Conn \ {c} : handler'[d] = handler[d]
        /\ handler[c] \in {"greet", "clear", "loop"}
        /\ UNCHANGED <<name, open, peer, registry, main>>
    BY <1>11, WriteOrDropType, Lines DEF SendClear, publishVars, HandlerStates
  <2> QED
    BY <2>1 DEF SoleConnectionStaysUp
<1>12. ASSUME NEW c \in Conn, ReadPing(c) PROVE SoleConnectionStaysUp'
  <2>1. /\ \A d \in Conn \ {c} : handler'[d] = handler[d]
        /\ handler[c] \in {"greet", "clear", "loop"}
        /\ UNCHANGED <<name, open, peer, registry, main>>
    BY <1>12, WriteOrDropType, Lines DEF ReadPing, publishVars, HandlerStates
  <2> QED
    BY <2>1 DEF SoleConnectionStaysUp
<1>13. ASSUME NEW c \in Conn, ReadBlank(c) PROVE SoleConnectionStaysUp'
  BY <1>13, FalloffAssumption DEF ReadBlank, Goto, publishVars, TypeOK, HandlerInv, RegistryInv, SnapshotInv, SoleConnectionStaysUp, Registrable, SendFails, Named
<1>14. ASSUME NEW c \in Conn, LeaveLoop(c) PROVE SoleConnectionStaysUp'
  BY <1>14, FalloffAssumption DEF LeaveLoop, Goto, publishVars, TypeOK, HandlerInv, RegistryInv, SnapshotInv, SoleConnectionStaysUp, Registrable, SendFails, Named
<1>15. ASSUME NEW c \in Conn, DropSelf(c) PROVE SoleConnectionStaysUp'
  BY <1>15, FalloffAssumption DEF DropSelf, DropClient, Goto, publishVars, TypeOK, HandlerInv, RegistryInv, SnapshotInv, SoleConnectionStaysUp, Registrable, SendFails, Named
<1>16. ASSUME NEW c \in Conn, CloseSelf(c) PROVE SoleConnectionStaysUp'
  BY <1>16, FalloffAssumption DEF CloseSelf, Goto, publishVars, TypeOK, HandlerInv, RegistryInv, SnapshotInv, SoleConnectionStaysUp, Registrable, SendFails, Named
<1>17. ASSUME NEW M \in SUBSET Key, BeginPublish(M) PROVE SoleConnectionStaysUp'
  BY <1>17, FalloffAssumption DEF BeginPublish, TypeOK, HandlerInv, RegistryInv, SnapshotInv, SoleConnectionStaysUp, Registrable, SendFails, Named
<1>18. ASSUME NEW k \in Key, SendUpdate(k) PROVE SoleConnectionStaysUp'
  BY <1>18, FalloffAssumption DEF SendUpdate, TypeOK, HandlerInv, RegistryInv, SnapshotInv, SoleConnectionStaysUp, Registrable, SendFails, Named
<1>19. ASSUME NEW k \in Key, SendUpdateFails(k) PROVE SoleConnectionStaysUp'
  BY <1>19, FalloffAssumption DEF SendUpdateFails, DropClient, TypeOK, HandlerInv, RegistryInv, SnapshotInv, SoleConnectionStaysUp, Registrable, SendFails, Named
<1>20. CASE EndPublish \/ Stop
  BY <1>20, FalloffAssumption DEF EndPublish, Stop, StopSignal, StopListener, StopClear, TypeOK, HandlerInv, RegistryInv, SnapshotInv, SoleConnectionStaysUp, Registrable, SendFails, Named
<1>21. CASE UNCHANGED vars
  BY <1>21 DEF vars, TypeOK, HandlerInv, RegistryInv, SnapshotInv, SoleConnectionStaysUp, Registrable, SendFails, Named
<1> QED
  BY <1>1, <1>2, <1>3, <1>4, <1>5, <1>6, <1>7, <1>8, <1>9, <1>10, <1>11, <1>12,
     <1>13, <1>14, <1>15, <1>16, <1>17, <1>18, <1>19, <1>20, <1>21
     DEF Next, HandlerStep, ClientStep, MainStep

--------------------------------------------------------------------------------
(***************************************************************************)
(* The invariant is inductive, and the properties follow.                  *)
(***************************************************************************)
LEMMA IInvInit == Init => IInv
<1> SUFFICES ASSUME Init PROVE IInv
  OBVIOUS
<1>1. TypeOK
  BY FalloffAssumption DEF Init, TypeOK, HandlerStates, Named
<1>2. RegistryInv /\ SnapshotInv /\ HandlerInv /\ SoleConnectionStaysUp
  BY FalloffAssumption DEF Init, RegistryInv, SnapshotInv, HandlerInv, SoleConnectionStaysUp
<1>3. <<>> \in CleanLines /\ <<>> \in LinesFor[NoHash]
  BY DEF CleanLines, LinesFor
<1>4. RefusedInv /\ HeardInv
  BY <1>3 DEF Init, RefusedInv, HeardInv
<1> QED
  BY <1>1, <1>2, <1>4 DEF IInv

\* IInv is inductive,
LEMMA IInvStep == IInv /\ [Next]_vars => IInv'
  BY TypeStep, RegistryStep, SnapshotStep, HandlerInvStep, RefusedStep, HeardStep, SoleStep
  DEF IInv

\* and holds in every reachable state.
LEMMA IInvHolds == Spec => []IInv
  BY IInvInit, IInvStep, PTL DEF Spec

\* Type correctness; in particular publish() only serves listeners that are
\* in its own copy of the registry.
THEOREM TypeCorrect == Spec => []TypeOK
<1>1. IInv => TypeOK
  BY DEF IInv
<1> QED
  BY <1>1, IInvHolds, PTL

\* A registered connection's handler is still there to clean up, and a
\* finished handler leaves no registration and no socket behind.
THEOREM NothingLeaks == Spec => []NoLeak
<1>1. IInv => NoLeak
  BY DEF IInv, RegistryInv, HandlerInv, NoLeak
<1> QED
  BY <1>1, IInvHolds, PTL

\* A responsive client that is alone with its hash stays registered and
\* open until stop(), whatever the other clients and publish() do.
THEOREM SoleConnectionSafe == Spec => []SoleConnectionStaysUp
<1>1. IInv => SoleConnectionStaysUp
  BY DEF IInv
<1> QED
  BY <1>1, IInvHolds, PTL

\* A client that was sent ERR is sent nothing else.
THEOREM RefusedIsSilenced == Spec => []RefusedGetsNothing
<1>1. IInv => RefusedGetsNothing
  <2> SUFFICES ASSUME IInv, NEW c \in Conn, NEW i \in 1..Len(sent[c]), sent[c][i].cmd = "ERR"
               PROVE  Len(sent[c]) = 1
    BY DEF RefusedGetsNothing
  <2>1. sent[c] \notin CleanLines
    BY DEF CleanLines
  <2> QED
    BY <2>1 DEF IInv, RefusedInv
<1> QED
  BY <1>1, IInvHolds, PTL

--------------------------------------------------------------------------------
(***************************************************************************)
(* The server implements ListenerBinding.                                  *)
(***************************************************************************)
\* A line without states adds no hash to those heard; an update adds one.
LEMMA AppendHeard ==
    ASSUME NEW lines \in Seq(Line), NEW line \in Line
    PROVE  Heard(Append(lines, line)) =
               IF line.of = NoHash THEN Heard(lines) ELSE Heard(lines) \cup {Lower[line.of]}
<1> DEFINE more == Append(lines, line)
           said(l) == {j \in 1..Len(l) : l[j].of # NoHash}
<1>1. /\ Len(more) = Len(lines) + 1 /\ Len(lines) \in Nat
      /\ \A i \in 1..Len(lines) : more[i] = lines[i]
      /\ more[Len(lines) + 1] = line
  BY AppendLine
<1> HIDE DEF more
<1>2. said(more) = said(lines) \cup (IF line.of = NoHash THEN {} ELSE {Len(lines) + 1})
  BY <1>1
<1>3. \A i \in said(lines) : i \in 1..Len(lines)
  OBVIOUS
<1>4. Heard(more) = {Lower[more[i].of] : i \in said(more)} /\ Heard(lines) = {Lower[lines[i].of] : i \in said(lines)}
  BY DEF Heard
<1> QED
  BY <1>1, <1>2, <1>3, <1>4 DEF more

\* What one written line means to the abstract specification.
LEMMA WriteHeard ==
    ASSUME TypeOK, NEW c \in Conn, NEW line \in Line,
           sent'[c] \in {sent[c], Append(sent[c], line)}, line.of = NoHash,
           \A d \in Conn \ {c} : sent'[d] = sent[d]
    PROVE  [d \in Conn |-> Heard(sent'[d])] = [d \in Conn |-> Heard(sent[d])]
<1>1. sent[c] \in Seq(Line)
  BY DEF TypeOK
<1>2. Heard(sent'[c]) = Heard(sent[c])
  <2>1. CASE sent'[c] = sent[c]
    BY <2>1 DEF Heard
  <2>2. CASE sent'[c] = Append(sent[c], line)
    <3>1. Heard(Append(sent[c], line)) = Heard(sent[c])
      BY <1>1, AppendHeard
    <3> QED
      BY <2>2, <3>1 DEF Heard
  <2> QED
    BY <2>1, <2>2
<1>3. \A d \in Conn \ {c} : Heard(sent'[d]) = Heard(sent[d])
  BY DEF Heard
<1> QED
  BY <1>2, <1>3

\* A step that writes no states and binds nothing is none of ListenerBinding's.
LEMMA BindingStutters ==
    ASSUME UNCHANGED <<name, registry>>,
           [d \in Conn |-> Heard(sent'[d])] = [d \in Conn |-> Heard(sent[d])]
    PROVE  UNCHANGED Binding!vars
  BY DEF Binding!vars

\* In particular one that writes nothing.
LEMMA BindingQuiet ==
    ASSUME UNCHANGED <<name, registry, sent>>
    PROVE  UNCHANGED Binding!vars
  BY DEF Binding!vars, Heard

\* Every step of the server is a step of ListenerBinding, or none.
LEMMA BindingStep == IInv /\ [Next]_vars => [Binding!Next]_(Binding!vars)
<1> SUFFICES ASSUME IInv, [Next]_vars PROVE Binding!Next \/ UNCHANGED Binding!vars
  OBVIOUS
<1> DEFINE Goal == Binding!Next \/ UNCHANGED Binding!vars
<1>a. TypeOK /\ HandlerInv /\ SnapshotInv
  BY DEF IInv
<1>1. ASSUME NEW c \in Conn, PeerStalls(c) PROVE Goal
  BY <1>1, BindingQuiet DEF PeerStalls
<1>2. ASSUME NEW c \in Conn, PeerHangsUp(c) PROVE Goal
  BY <1>2, BindingQuiet DEF PeerHangsUp
<1>3. ASSUME NEW c \in Conn, Accept(c) PROVE Goal
  BY <1>3, BindingQuiet DEF Accept
<1>4. ASSUME NEW c \in Conn, HelloFails(c) PROVE Goal
  BY <1>4, BindingQuiet DEF HelloFails
<1>5. ASSUME NEW c \in Conn, HelloRejected(c) PROVE Goal
  <2>1. [d \in Conn |-> Heard(sent'[d])] = [d \in Conn |-> Heard(sent[d])]
    BY <1>a, <1>5, RefuseType, WriteHeard, Lines DEF HelloRejected
  <2> QED
    BY <1>5, <2>1, BindingStutters DEF HelloRejected, Refuse
<1>6. ASSUME NEW c \in Conn, NEW h \in Hash, HelloUnauthorized(c, h) PROVE Goal
  <2>1. [d \in Conn |-> Heard(sent'[d])] = [d \in Conn |-> Heard(sent[d])]
    BY <1>a, <1>6, RefuseType, WriteHeard, Lines DEF HelloUnauthorized
  <2>2. name[c] = NoHash /\ name' = [name EXCEPT ![c] = h] /\ UNCHANGED registry
    BY <1>a, <1>6 DEF HelloUnauthorized, Refuse, HandlerInv
  <2>3. Binding!Claim(c, h)
    BY <2>1, <2>2 DEF Binding!Claim
  <2> QED
    BY <2>3 DEF Binding!Next
<1>7. ASSUME NEW c \in Conn, NEW h \in Hash, HelloAccepted(c, h) PROVE Goal
  <2>1. [d \in Conn |-> Heard(sent'[d])] = [d \in Conn |-> Heard(sent[d])]
    BY <1>7 DEF HelloAccepted, Heard
  <2>2. name[c] = NoHash /\ name' = [name EXCEPT ![c] = h] /\ UNCHANGED registry
    BY <1>a, <1>7 DEF HelloAccepted, Refuse, HandlerInv
  <2>3. Binding!Claim(c, h)
    BY <2>1, <2>2 DEF Binding!Claim
  <2> QED
    BY <2>3 DEF Binding!Next
<1>8. ASSUME NEW c \in Conn, EvictOld(c) PROVE Goal
  BY <1>8, BindingQuiet DEF EvictOld
<1>9. ASSUME NEW c \in Conn, Register(c) PROVE Goal
  <2>1. name[c] \in Hash /\ name[c] # NoHash
    BY <1>a, <1>9, FalloffAssumption DEF Register, TypeOK, Named
  <2>2. [d \in Conn |-> Heard(sent'[d])] = [d \in Conn |-> Heard(sent[d])]
    BY <1>9 DEF Register, Heard
  <2>3. Binding!Bind(c)
    BY <1>9, <2>1, <2>2 DEF Register, Binding!Bind
  <2> QED
    BY <2>3 DEF Binding!Next
<1>10. ASSUME NEW c \in Conn, SendOk(c) PROVE Goal
  <2>1. /\ sent'[c] \in {sent[c], Append(sent[c], OkLine)}
        /\ \A d2 \in Conn \ {c} : sent'[d2] = sent[d2]
    BY <1>a, <1>10, WriteOrDropType, Lines DEF SendOk, HandlerStates
  <2>2. [d2 \in Conn |-> Heard(sent'[d2])] = [d2 \in Conn |-> Heard(sent[d2])]
    BY <1>a, <2>1, WriteHeard, Lines
  <2> QED
    BY <1>10, <2>2, BindingStutters DEF SendOk
<1>11. ASSUME NEW c \in Conn, SendClear(c) PROVE Goal
  <2>1. /\ sent'[c] \in {sent[c], Append(sent[c], UpdateLine(NoHash))}
        /\ \A d2 \in Conn \ {c} : sent'[d2] = sent[d2]
    BY <1>a, <1>11, WriteOrDropType, Lines DEF SendClear, HandlerStates
  <2>2. [d2 \in Conn |-> Heard(sent'[d2])] = [d2 \in Conn |-> Heard(sent[d2])]
    BY <1>a, <2>1, WriteHeard, Lines
  <2> QED
    BY <1>11, <2>2, BindingStutters DEF SendClear
<1>12. ASSUME NEW c \in Conn, ReadPing(c) PROVE Goal
  <2>1. /\ sent'[c] \in {sent[c], Append(sent[c], OkLine)}
        /\ \A d2 \in Conn \ {c} : sent'[d2] = sent[d2]
    BY <1>a, <1>12, WriteOrDropType, Lines DEF ReadPing, HandlerStates
  <2>2. [d2 \in Conn |-> Heard(sent'[d2])] = [d2 \in Conn |-> Heard(sent[d2])]
    BY <1>a, <2>1, WriteHeard, Lines
  <2> QED
    BY <1>12, <2>2, BindingStutters DEF ReadPing
<1>13. ASSUME NEW c \in Conn, ReadBlank(c) PROVE Goal
  BY <1>13, BindingQuiet DEF ReadBlank
<1>14. ASSUME NEW c \in Conn, LeaveLoop(c) PROVE Goal
  BY <1>14, BindingQuiet DEF LeaveLoop
<1>15. ASSUME NEW c \in Conn, DropSelf(c) PROVE Goal
  <2>1. name[c] \in Hash
    BY <1>a, <1>15, FalloffAssumption DEF DropSelf, TypeOK, Named
  <2>2. [d \in Conn |-> Heard(sent'[d])] = [d \in Conn |-> Heard(sent[d])]
    BY <1>15 DEF DropSelf, Heard
  <2>3. registry' = [g \in Hash |-> IF g \in {name[c]} THEN NoConn ELSE registry[g]]
    BY <1>a, <1>15 DEF DropSelf, DropClient, TypeOK
  <2>4. Binding!Release({name[c]})
    BY <1>15, <2>2, <2>3 DEF DropSelf, Binding!Release
  <2> QED
    BY <2>1, <2>4 DEF Binding!Next
<1>16. ASSUME NEW c \in Conn, CloseSelf(c) PROVE Goal
  BY <1>16, BindingQuiet DEF CloseSelf
<1>17. ASSUME NEW M \in SUBSET Key, BeginPublish(M) PROVE Goal
  BY <1>17, BindingQuiet DEF BeginPublish
<1>18. ASSUME NEW k \in Key, SendUpdate(k) PROVE Goal
  <2> DEFINE c == snapshot[Lower[k]]
             j == IF k \in matrix THEN k ELSE NoHash
  <2>1. /\ c \in Conn /\ name[c] = Lower[k] /\ name[c] \in Hash /\ name[c] # NoHash
        /\ sent[c] \in Seq(Line)
    BY <1>a, <1>18, FalloffAssumption DEF SendUpdate, TypeOK, SnapshotInv
  <2>2. UpdateLine(j) \in Line /\ UpdateLine(j).of = j /\ Write(c, UpdateLine(j))
    BY <1>18, Lines DEF SendUpdate
  <2>3. /\ sent' = [sent EXCEPT ![c] = Append(@, UpdateLine(j))]
        /\ sent'[c] = Append(sent[c], UpdateLine(j))
        /\ \A d \in Conn \ {c} : sent'[d] = sent[d]
    BY <1>a, <2>1, <2>2, WriteType DEF Write
  <2>4. UNCHANGED <<name, registry>>
    BY <1>18 DEF SendUpdate
  <2>5. CASE k \notin matrix
    <3>1. [d \in Conn |-> Heard(sent'[d])] = [d \in Conn |-> Heard(sent[d])]
      BY <1>a, <2>1, <2>2, <2>3, <2>5, WriteHeard
    <3> QED
      BY <2>4, <3>1, BindingStutters
  <2>6. CASE k \in matrix
    <3>1. Heard(Append(sent[c], UpdateLine(j))) = Heard(sent[c]) \cup {name[c]}
      BY <2>1, <2>2, <2>6, AppendHeard, FalloffAssumption
    <3>2. \A d \in Conn \ {c} : Heard(sent'[d]) = Heard(sent[d])
      <4> HIDE DEF c
      <4> QED
        BY <2>3
    <3>3. Heard(sent'[c]) = Heard(sent[c]) \cup {name[c]}
      <4> DEFINE line == UpdateLine(j)
      <4> HIDE DEF line
      <4>1. sent'[c] = Append(sent[c], line) /\ Heard(Append(sent[c], line)) = Heard(sent[c]) \cup {name[c]}
        BY <2>3, <3>1 DEF line
      <4>2. Heard(sent'[c]) = Heard(Append(sent[c], line))
        BY <4>1 DEF Heard
      <4> QED
        BY <4>1, <4>2
    <3>4. [d \in Conn |-> Heard(sent'[d])] =
              [[d \in Conn |-> Heard(sent[d])] EXCEPT ![c] = @ \cup {name[c]}]
      BY <2>1, <3>2, <3>3
    <3>5. Binding!Deliver(c)
      BY <2>1, <2>4, <3>4 DEF Binding!Deliver
    <3> QED
      BY <2>1, <3>5 DEF Binding!Next
  <2> QED
    BY <2>5, <2>6
<1>19. ASSUME NEW k \in Key, SendUpdateFails(k) PROVE Goal
  <2>1. Lower[k] \in Hash
    BY <1>a, <1>19, FalloffAssumption DEF SendUpdateFails, TypeOK, Named
  <2>2. [d \in Conn |-> Heard(sent'[d])] = [d \in Conn |-> Heard(sent[d])]
    BY <1>19 DEF SendUpdateFails, Heard
  <2>3. registry' = [g \in Hash |-> IF g \in {Lower[k]} THEN NoConn ELSE registry[g]]
    BY <1>a, <1>19 DEF SendUpdateFails, DropClient, TypeOK
  <2>4. Binding!Release({Lower[k]})
    BY <1>19, <2>2, <2>3 DEF SendUpdateFails, Binding!Release
  <2> QED
    BY <2>1, <2>4 DEF Binding!Next
<1>20. CASE EndPublish \/ StopSignal \/ StopListener
  BY <1>20, BindingQuiet DEF EndPublish, StopSignal, StopListener
<1>21. CASE StopClear
  <2>1. [d \in Conn |-> Heard(sent'[d])] = [d \in Conn |-> Heard(sent[d])]
    BY <1>21 DEF StopClear, Heard
  <2>2. registry' = [g \in Hash |-> IF g \in Hash THEN NoConn ELSE registry[g]]
    BY <1>21 DEF StopClear
  <2>3. Binding!Release(Hash)
    BY <1>21, <2>1, <2>2 DEF StopClear, Binding!Release
  <2> QED
    BY <2>3 DEF Binding!Next
<1>22. CASE UNCHANGED vars
  BY <1>22, BindingQuiet DEF vars
<1> QED
  BY <1>1, <1>2, <1>3, <1>4, <1>5, <1>6, <1>7, <1>8, <1>9, <1>10, <1>11, <1>12,
     <1>13, <1>14, <1>15, <1>16, <1>17, <1>18, <1>19, <1>20, <1>21, <1>22
     DEF Next, HandlerStep, ClientStep, MainStep, Stop

\* A connection claims one hash, a hash is bound to a connection that claimed
\* it, and the states written to a connection are those of its hash.
THEOREM ServerImplementsBinding == Spec => ListenersGetTheirOwnStates
<1>1. Init => Binding!Init
  <2>1. Heard(<<>>) = {}
    BY DEF Heard
  <2> QED
    BY <2>1 DEF Init, Binding!Init
<1> QED
  BY <1>1, BindingStep, IInvHolds, PTL DEF Spec, ListenersGetTheirOwnStates, Binding!Spec

================================================================================
