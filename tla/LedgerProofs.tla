------------------------------ MODULE LedgerProofs ------------------------------
(***************************************************************************)
(* Verification implements LinkLedger, for any people, names and codes.    *)
(***************************************************************************)
EXTENDS VerificationProofs

--------------------------------------------------------------------------------
(***************************************************************************)
(* A code that was drawn once and is not pending yet is known to its       *)
(* thread only.  When the link was written it is in the file.              *)
(***************************************************************************)
Secret(t) ==
    /\ job[t].code \notin Pending
    /\ \A u \in Thread \ {t} : HasCode(u) => job[u].code # job[t].code

SecretInv == \A t \in Thread : pc[t] = "insert" => job[t].code \in loose \/ Secret(t)

WrittenInv == pc["ice"] = "forget" => \E r \in rows : r.steam = job["ice"].steam /\ r.hash = job["ice"].hash

HandInv == SecretInv /\ WrittenInv

\* What is in the file after it was written.
LEMMA WrittenLink ==
    ASSUME TypeOK, OneRowPerSteamId, WriteFile
    PROVE  \E r \in rows' : r.steam = job["ice"].steam /\ r.hash = job["ice"].hash
<1>1. PICK p, q \in Person : \E old \in SUBSET rows :
          /\ p = job["ice"].steam /\ q = job["ice"].hash
          /\ rows' = (rows \ old) \cup {Link(p, q)}
  BY UpsertRows
<1>2. Link(p, q) \in rows' /\ Link(p, q).steam = p /\ Link(p, q).hash = q
  BY <1>1 DEF Link
<1> QED
  BY <1>1, <1>2

\* The link that was written stays in the file until the user is told.
LEMMA WrittenStep == TypeOK /\ OneRowPerSteamId /\ WrittenInv /\ [Next]_vars => WrittenInv'
<1> SUFFICES ASSUME TypeOK, OneRowPerSteamId, WrittenInv, [Next]_vars PROVE WrittenInv'
  OBVIOUS
<1> USE DEF Goto, Return, Raise, code, file, Forget, TypeOK, ThreadTypeOK, Thread, WrittenInv
<1>1. CASE UpdatePlayers
  BY <1>1 DEF UpdatePlayers
<1>2. CASE FetchFails
  BY <1>2 DEF FetchFails
<1>3. CASE EndPoll
  BY <1>3 DEF EndPoll
<1>4. CASE LoadIdentity
  BY <1>4 DEF LoadIdentity
<1>5. CASE NoFallback
  BY <1>5 DEF NoFallback
<1>6. ASSUME NEW p \in Person, GameCommand(p) PROVE WrittenInv'
  BY <1>6 DEF GameCommand
<1>7. ASSUME NEW p \in Person, TellVerifiedFails(p) PROVE WrittenInv'
  BY <1>7 DEF TellVerifiedFails
<1>8. ASSUME NEW q \in Person, SendFallback(q) PROVE WrittenInv'
  BY <1>8 DEF SendFallback
<1>9. ASSUME NEW q \in Person, NEW n \in Name, AskInMumble(q, n) PROVE WrittenInv'
  BY <1>9 DEF AskInMumble
<1>10. ASSUME NEW q \in Person, NEW c \in Code, TypeCode(q, c) PROVE WrittenInv'
  BY <1>10 DEF TypeCode
<1>11. CASE OpenFile
  BY <1>11 DEF OpenFile
<1>12. CASE WriteFile
  BY <1>12, WrittenLink DEF WriteFile
<1>13. CASE ForgetCode
  BY <1>13 DEF ForgetCode
<1>14. ASSUME NEW t \in Thread, NEW c \in Code, DrawCode(t, c) PROVE WrittenInv'
  BY <1>14 DEF DrawCode
<1>15. ASSUME NEW t \in Thread, DrawFails(t) PROVE WrittenInv'
  BY <1>15 DEF DrawFails
<1>16. ASSUME NEW t \in Thread, InsertCode(t) PROVE WrittenInv'
  BY <1>16 DEF InsertCode
<1>17. ASSUME NEW t \in Thread, SendCode(t) PROVE WrittenInv'
  BY <1>17 DEF SendCode
<1>18. ASSUME NEW t \in Thread, SendCodeFails(t) PROVE WrittenInv'
  BY <1>18 DEF SendCodeFails
<1>19. ASSUME NEW r \in Repeat, CheckRepeat(r) PROVE WrittenInv'
  BY <1>19 DEF CheckRepeat
<1>20. ASSUME NEW r \in Repeat, RepeatCode(r) PROVE WrittenInv'
  BY <1>20 DEF RepeatCode
<1>21. ASSUME NEW r \in Repeat, EndRepeat(r) PROVE WrittenInv'
  BY <1>21 DEF EndRepeat
<1>22. CASE Killed
  BY <1>22 DEF Killed
<1>23. CASE Restart
  BY <1>23 DEF Restart
<1>24. CASE UNCHANGED vars
  BY <1>24 DEF vars
<1>25. CASE UpsertFails
  BY <1>25 DEF UpsertFails
<1> QED
  BY <1>1, <1>2, <1>3, <1>4, <1>5, <1>6, <1>7, <1>8, <1>9, <1>10, <1>11, <1>12,
     <1>13, <1>14, <1>15, <1>16, <1>17, <1>18, <1>19, <1>20, <1>21, <1>22, <1>23, <1>24, <1>25
     DEF Next, TickStep, IceStep, IssueStep, RepeatStep

\* Expiry takes codes away.
LEMMA ExpirePending ==
    ASSUME TypeOK, Expire
    PROVE  \A c \in Pending' : c \in Pending /\ pending'[c] = pending[c]
  BY DEF TypeOK, StoreTypeOK, Expire, Pending, Entry, NoEntry

\* Every step keeps the codes in the threads' hands secret, or loose.
LEMMA SecretStep == TypeOK /\ KeptFor /\ SecretInv /\ [Next]_vars => SecretInv'
<1> SUFFICES ASSUME TypeOK, KeptFor, SecretInv, [Next]_vars PROVE SecretInv'
  OBVIOUS
<1> USE VerificationAssumption DEF Goto, Return, Raise, code, file, Forget, TypeOK, ThreadTypeOK, StoreTypeOK, Working, Thread, ThreadStates, TickStates, IceStates, Someone, Entry, NoEntry, NoJob, Repeat, Pending, HasCode, Expire, Secret, SecretInv
<1>1. CASE UpdatePlayers
  BY <1>1 DEF UpdatePlayers
<1>2. CASE FetchFails
  BY <1>2 DEF FetchFails
<1>3. CASE EndPoll
  BY <1>3 DEF EndPoll
<1>4. CASE LoadIdentity
  BY <1>4 DEF LoadIdentity
<1>5. CASE NoFallback
  BY <1>5 DEF NoFallback
<1>6. ASSUME NEW p \in Person, GameCommand(p) PROVE SecretInv'
  BY <1>6 DEF GameCommand
<1>7. ASSUME NEW p \in Person, TellVerifiedFails(p) PROVE SecretInv'
  BY <1>7 DEF TellVerifiedFails
<1>8. ASSUME NEW q \in Person, SendFallback(q) PROVE SecretInv'
  BY <1>8 DEF SendFallback
<1>9. ASSUME NEW q \in Person, NEW n \in Name, AskInMumble(q, n) PROVE SecretInv'
  BY <1>9 DEF AskInMumble
<1>10. ASSUME NEW q \in Person, NEW c \in Code, TypeCode(q, c) PROVE SecretInv'
  <2>1. Pending' \subseteq Pending /\ pc["ice"] = "idle" /\ loose' = loose
    BY <1>10, ExpirePending DEF TypeCode
  <2>2. CASE UNCHANGED <<pc, job>>
    BY <2>1, <2>2
  <2>3. CASE /\ c \in Pending /\ pc' = [pc EXCEPT !["ice"] = "upsert"]
             /\ job'["ice"].code = c /\ job'["tick"] = job["tick"]
    <3>1. pc'["ice"] = "upsert" /\ pc'["tick"] = pc["tick"]
      BY <2>3
    <3> QED
      BY <2>1, <2>3, <3>1
  <2>4. \/ UNCHANGED <<pc, job>>
        \/ /\ c \in Pending /\ pc' = [pc EXCEPT !["ice"] = "upsert"]
           /\ job'["ice"].code = c /\ job'["tick"] = job["tick"]
    BY <1>10, ExpirePending DEF TypeCode
  <2> QED
    BY <2>2, <2>3, <2>4
<1>11. CASE OpenFile
  BY <1>11 DEF OpenFile
<1>12. CASE WriteFile
  BY <1>12 DEF WriteFile
<1>13. CASE ForgetCode
  BY <1>13 DEF ForgetCode
<1>14. ASSUME NEW t \in Thread, NEW c \in Code, DrawCode(t, c) PROVE SecretInv'
  <2>1. /\ c \notin Pending /\ Pending' = Pending
        /\ loose' = loose \cup ({c} \cap Drawn)
        /\ pc' = [pc EXCEPT ![t] = "insert"] /\ job' = [job EXCEPT ![t].code = c]
    BY <1>14 DEF DrawCode
  <2>2. job'[t].code = c /\ \A u \in Thread \ {t} : pc'[u] = pc[u] /\ job'[u] = job[u]
    BY <2>1
  <2>3. \A u \in Thread : HasCode(u) => job[u].code \in Drawn
    BY DEF KeptFor, Drawn
  <2>4. job'[t].code \in loose' \/ Secret(t)'
    BY <2>1, <2>2, <2>3
  <2>5. ASSUME NEW u \in Thread \ {t}, pc'[u] = "insert" PROVE job'[u].code \in loose' \/ Secret(u)'
    <3>1. pc[u] = "insert" /\ job[u].code \in Drawn /\ job'[u] = job[u]
      BY <2>2, <2>3, <2>5
    <3>2. CASE c = job[u].code
      BY <2>1, <3>1, <3>2
    <3>3. CASE c # job[u].code
      BY <2>1, <2>2, <3>1, <3>3
    <3> QED
      BY <3>2, <3>3
  <2> QED
    BY <2>4, <2>5
<1>15. ASSUME NEW t \in Thread, DrawFails(t) PROVE SecretInv'
  BY <1>15 DEF DrawFails
<1>16. ASSUME NEW t \in Thread, InsertCode(t) PROVE SecretInv'
  BY <1>16 DEF InsertCode
<1>17. ASSUME NEW t \in Thread, SendCode(t) PROVE SecretInv'
  <2>1. /\ Pending' = Pending /\ loose' = loose
        /\ \A u \in Thread : HasCode(u)' => HasCode(u) /\ job'[u] = job[u]
        /\ \A u \in Thread : pc'[u] = "insert" => pc[u] = "insert"
    BY <1>17 DEF SendCode
  <2> QED
    BY <2>1
<1>18. ASSUME NEW t \in Thread, SendCodeFails(t) PROVE SecretInv'
  BY <1>18 DEF SendCodeFails
<1>19. ASSUME NEW r \in Repeat, CheckRepeat(r) PROVE SecretInv'
  BY <1>19 DEF CheckRepeat
<1>20. ASSUME NEW r \in Repeat, RepeatCode(r) PROVE SecretInv'
  BY <1>20 DEF RepeatCode
<1>21. ASSUME NEW r \in Repeat, EndRepeat(r) PROVE SecretInv'
  BY <1>21 DEF EndRepeat
<1>22. CASE Killed
  BY <1>22 DEF Killed
<1>23. CASE Restart
  BY <1>23 DEF Restart
<1>24. CASE UNCHANGED vars
  BY <1>24 DEF vars
<1>25. CASE UpsertFails
  BY <1>25 DEF UpsertFails
<1> QED
  BY <1>1, <1>2, <1>3, <1>4, <1>5, <1>6, <1>7, <1>8, <1>9, <1>10, <1>11, <1>12,
     <1>13, <1>14, <1>15, <1>16, <1>17, <1>18, <1>19, <1>20, <1>21, <1>22, <1>23, <1>24, <1>25
     DEF Next, TickStep, IceStep, IssueStep, RepeatStep

--------------------------------------------------------------------------------
(***************************************************************************)
(* The steps of the ledger.                                                *)
(***************************************************************************)
\* The codes that prove nothing.
Used == Spent \cup loose

\* Which codes are spent.
LEMMA SpentCodes ==
    ASSUME NEW c
    PROVE  /\ c \in Spent <=>
               /\ c \in Drawn
               /\ c \in Pending => pc["ice"] = "forget" /\ job["ice"].code = c
               /\ \A t \in Thread : pc[t] \in {"insert", "upsert", "write"} => job[t].code # c
           /\ c \in Spent' <=>
               /\ c \in Drawn'
               /\ c \in Pending' => pc'["ice"] = "forget" /\ job'["ice"].code = c
               /\ \A t \in Thread : pc'[t] \in {"insert", "upsert", "write"} => job'[t].code # c
  BY DEF Spent

\* The same for the two threads.
IsSpent(c) ==
    /\ c \in Drawn
    /\ pending[c].steam # Nobody => pc["ice"] = "forget" /\ job["ice"].code = c
    /\ pc["tick"] = "insert" => job["tick"].code # c
    /\ pc["ice"] \in {"insert", "upsert", "write"} => job["ice"].code # c

LEMMA SpentThreads ==
    ASSUME NEW c \in Code
    PROVE  /\ TypeOK => (c \in Spent <=> IsSpent(c))
           /\ TypeOK' => (c \in Spent' <=> IsSpent(c)')
<1>1. TypeOK => pc["tick"] \notin {"upsert", "write"}
  BY DEF TypeOK, ThreadTypeOK, TickStates
<1>2. TypeOK' => pc'["tick"] \notin {"upsert", "write"}
  BY DEF TypeOK, ThreadTypeOK, TickStates
<1> QED
  BY <1>1, <1>2, SpentCodes DEF IsSpent, Pending, Thread

\* They are codes.
LEMMA UsedType == ASSUME TypeOK PROVE Used \subseteq Code
  BY DEF TypeOK, StoreTypeOK, Used, Spent, Drawn

\* Codes are drawn by the threads, and shown by the thread that drew them and by
\* the repeaters.
LEMMA CodeFrame ==
    ASSUME [Next]_vars
    PROVE  \/ UNCHANGED <<drawn, loose, seen>>
           \/ \E t \in Thread, c \in Code : DrawCode(t, c)
           \/ \E t \in Thread : SendCode(t) \/ SendCodeFails(t)
           \/ \E r \in Repeat : RepeatCode(r)
           \/ \E p \in Person : SendFallback(p)
<1> DEFINE Goal == \/ UNCHANGED <<drawn, loose, seen>>
                   \/ \E t \in Thread, c \in Code : DrawCode(t, c)
                   \/ \E t \in Thread : SendCode(t) \/ SendCodeFails(t)
                   \/ \E r \in Repeat : RepeatCode(r)
                   \/ \E p \in Person : SendFallback(p)
<1> USE DEF code, file, Forget
<1>1. CASE UpdatePlayers
  BY <1>1 DEF UpdatePlayers
<1>2. CASE FetchFails
  BY <1>2 DEF FetchFails
<1>3. CASE EndPoll
  BY <1>3 DEF EndPoll
<1>4. CASE LoadIdentity
  BY <1>4 DEF LoadIdentity
<1>5. CASE NoFallback
  BY <1>5 DEF NoFallback
<1>6. ASSUME NEW p \in Person, GameCommand(p) PROVE Goal
  BY <1>6 DEF GameCommand
<1>7. ASSUME NEW p \in Person, TellVerifiedFails(p) PROVE Goal
  BY <1>7 DEF TellVerifiedFails
<1>8. ASSUME NEW q \in Person, SendFallback(q) PROVE Goal
  BY <1>8
<1>9. ASSUME NEW q \in Person, NEW n \in Name, AskInMumble(q, n) PROVE Goal
  BY <1>9 DEF AskInMumble
<1>10. ASSUME NEW q \in Person, NEW c \in Code, TypeCode(q, c) PROVE Goal
  BY <1>10 DEF TypeCode
<1>11. CASE OpenFile
  BY <1>11 DEF OpenFile
<1>12. CASE WriteFile
  BY <1>12 DEF WriteFile
<1>13. CASE ForgetCode
  BY <1>13 DEF ForgetCode
<1>14. ASSUME NEW t \in Thread, NEW c \in Code, DrawCode(t, c) PROVE Goal
  BY <1>14
<1>15. ASSUME NEW t \in Thread, DrawFails(t) PROVE Goal
  BY <1>15 DEF DrawFails
<1>16. ASSUME NEW t \in Thread, InsertCode(t) PROVE Goal
  BY <1>16 DEF InsertCode
<1>17. ASSUME NEW t \in Thread, SendCode(t) PROVE Goal
  BY <1>17
<1>18. ASSUME NEW t \in Thread, SendCodeFails(t) PROVE Goal
  BY <1>18
<1>19. ASSUME NEW r \in Repeat, CheckRepeat(r) PROVE Goal
  BY <1>19 DEF CheckRepeat
<1>20. ASSUME NEW r \in Repeat, RepeatCode(r) PROVE Goal
  BY <1>20
<1>21. ASSUME NEW r \in Repeat, EndRepeat(r) PROVE Goal
  BY <1>21 DEF EndRepeat
<1>22. CASE Killed
  BY <1>22 DEF Killed
<1>23. CASE Restart
  BY <1>23 DEF Restart
<1>24. CASE UNCHANGED vars
  BY <1>24 DEF vars
<1>25. CASE UpsertFails
  BY <1>25 DEF UpsertFails
<1> QED
  BY <1>1, <1>2, <1>3, <1>4, <1>5, <1>6, <1>7, <1>8, <1>9, <1>10, <1>11, <1>12,
     <1>13, <1>14, <1>15, <1>16, <1>17, <1>18, <1>19, <1>20, <1>21, <1>22, <1>23, <1>24, <1>25
     DEF Next, TickStep, IceStep, IssueStep, RepeatStep

\* A loose code stays loose.
LEMMA LooseFrame == [Next]_vars => loose \subseteq loose'
  BY CodeFrame DEF DrawCode, SendCode, SendCodeFails, RepeatCode, SendFallback

\* No step makes a code good again.
LEMMA UsedStep ==
    TypeOK /\ TypeOK' /\ [Next]_vars => \A c \in Used : c \in Used'
<1> SUFFICES ASSUME TypeOK, TypeOK', [Next]_vars, NEW d \in Code, IsSpent(d), d \notin loose'
             PROVE  IsSpent(d)'
  BY UsedType, SpentThreads, LooseFrame DEF Used
<1>d. d \in Drawn'
  <2>1. drawn \subseteq drawn'
    BY CodeFrame DEF DrawCode, SendCode, SendCodeFails, RepeatCode, SendFallback
  <2> QED
    BY <2>1 DEF IsSpent, Drawn
<1>e. Expire => \A c \in Code : pending'[c].steam # Nobody =>
                    pending[c].steam # Nobody /\ pending'[c] = pending[c]
  BY ExpirePending DEF Pending
<1> USE <1>d, VerificationAssumption DEF Goto, Return, Raise, code, file, Forget, TypeOK, ThreadTypeOK, StoreTypeOK, Working, Thread, ThreadStates, TickStates, IceStates, Someone, Entry, NoEntry, NoJob, Show, IsSpent
<1>1. CASE UpdatePlayers
  BY <1>1, <1>e DEF UpdatePlayers
<1>2. CASE FetchFails
  BY <1>2 DEF FetchFails
<1>3. CASE EndPoll
  BY <1>3 DEF EndPoll
<1>4. CASE LoadIdentity
  BY <1>4 DEF LoadIdentity
<1>5. CASE NoFallback
  BY <1>5 DEF NoFallback
<1>6. ASSUME NEW p \in Person, GameCommand(p) PROVE IsSpent(d)'
  BY <1>6 DEF GameCommand
<1>7. ASSUME NEW p \in Person, TellVerifiedFails(p) PROVE IsSpent(d)'
  BY <1>7 DEF TellVerifiedFails
<1>8. ASSUME NEW q \in Person, SendFallback(q) PROVE IsSpent(d)'
  BY <1>8 DEF SendFallback
<1>9. ASSUME NEW q \in Person, NEW n \in Name, AskInMumble(q, n) PROVE IsSpent(d)'
  BY <1>9, <1>e DEF AskInMumble
<1>10. ASSUME NEW q \in Person, NEW c \in Code, TypeCode(q, c) PROVE IsSpent(d)'
  <2>1. \A e \in Code : pending'[e].steam # Nobody => pending[e].steam # Nobody
    BY <1>10, <1>e DEF TypeCode
  <2>2. CASE UNCHANGED <<pc, job>>
    BY <1>10, <2>1, <2>2 DEF TypeCode
  <2>3. CASE /\ pending'[c].steam # Nobody /\ pc' = [pc EXCEPT !["ice"] = "upsert"]
             /\ job'["ice"].code = c /\ job'["tick"] = job["tick"]
    <3>1. d # c
      BY <1>10, <2>1, <2>3 DEF TypeCode
    <3>2. pc'["ice"] = "upsert" /\ pc'["tick"] = pc["tick"] /\ pc["ice"] = "idle"
      BY <1>10, <2>3 DEF TypeCode
    <3> QED
      BY <2>1, <2>3, <3>1, <3>2
  <2>4. \/ UNCHANGED <<pc, job>>
        \/ /\ pending'[c].steam # Nobody /\ pc' = [pc EXCEPT !["ice"] = "upsert"]
           /\ job'["ice"].code = c /\ job'["tick"] = job["tick"]
    BY <1>10 DEF TypeCode
  <2> QED
    BY <2>2, <2>3, <2>4
<1>11. CASE OpenFile
  BY <1>11 DEF OpenFile
<1>12. CASE WriteFile
  BY <1>12 DEF WriteFile
<1>13. CASE ForgetCode
  BY <1>13 DEF ForgetCode
<1>14. ASSUME NEW t \in Thread, NEW c \in Code, DrawCode(t, c) PROVE IsSpent(d)'
  <2>1. d # c
    BY <1>14 DEF DrawCode
  <2> QED
    BY <1>14, <2>1 DEF DrawCode
<1>15. ASSUME NEW t \in Thread, DrawFails(t) PROVE IsSpent(d)'
  BY <1>15 DEF DrawFails
<1>16. ASSUME NEW t \in Thread, InsertCode(t) PROVE IsSpent(d)'
  BY <1>16 DEF InsertCode
<1>17. ASSUME NEW t \in Thread, SendCode(t) PROVE IsSpent(d)'
  BY <1>17 DEF SendCode
<1>18. ASSUME NEW t \in Thread, SendCodeFails(t) PROVE IsSpent(d)'
  BY <1>18 DEF SendCodeFails
<1>19. ASSUME NEW r \in Repeat, CheckRepeat(r) PROVE IsSpent(d)'
  BY <1>19 DEF CheckRepeat
<1>20. ASSUME NEW r \in Repeat, RepeatCode(r) PROVE IsSpent(d)'
  BY <1>20 DEF RepeatCode
<1>21. ASSUME NEW r \in Repeat, EndRepeat(r) PROVE IsSpent(d)'
  BY <1>21 DEF EndRepeat
<1>22. CASE Killed
  BY <1>22 DEF Killed
<1>23. CASE Restart
  BY <1>23 DEF Restart
<1>24. CASE UNCHANGED vars
  BY <1>24 DEF vars
<1>25. CASE UpsertFails
  BY <1>25 DEF UpsertFails
<1> QED
  BY <1>1, <1>2, <1>3, <1>4, <1>5, <1>6, <1>7, <1>8, <1>9, <1>10, <1>11, <1>12,
     <1>13, <1>14, <1>15, <1>16, <1>17, <1>18, <1>19, <1>20, <1>21, <1>22, <1>23, <1>24, <1>25
     DEF Next, TickStep, IceStep, IssueStep, RepeatStep

\* A step that leaves the people, the links and the file alone and uses codes up
\* drops them.
LEMMA DropStep ==
    ASSUME TypeOK', UNCHANGED <<drawn, loose, seen, rows, linked>>, \A c \in Used : c \in Used'
    PROVE  Ledger!Next
<1>1. Ledger!Drop
  <2>1. Used \subseteq Used' /\ Used' \subseteq Code
    BY DEF TypeOK, StoreTypeOK, Used, Spent, Drawn
  <2> QED
    BY <2>1 DEF Ledger!Drop, Used
<1> QED
  BY <1>1 DEF Ledger!Next

\* A step that shows a code to the player it was drawn for, and may use it up,
\* tells it.
LEMMA TellStep ==
    ASSUME NEW p \in Person, NEW c \in Code, <<p, c>> \in drawn,
           Show(p, c), UNCHANGED <<drawn, loose, rows, linked>>, TypeOK',
           \A d \in Used : d \in Used',
           \A d \in Used' : d \in Used \/ d = c
    PROVE  Ledger!Next
<1>1. CASE seen' = seen
  BY <1>1, DropStep
<1>2. CASE seen' = seen \cup {<<p, c>>}
  <2>1. Used' \in {Used, Used \cup {c}}
    <3>1. CASE c \in Used'
      <4>1. Used' = Used \cup {c}
        BY <3>1
      <4> QED
        BY <4>1
    <3>2. CASE c \notin Used'
      <4>1. Used' = Used
        BY <3>2
      <4> QED
        BY <4>1
    <3> QED
      BY <3>1, <3>2
  <2>2. Ledger!Tell(p, c)
    BY <1>2, <2>1 DEF Ledger!Tell, Used
  <2> QED
    BY <2>2 DEF Ledger!Next
<1> QED
  BY <1>1, <1>2 DEF Show

\* Drawing a code issues it.
LEMMA IssuedStep ==
    ASSUME TypeOK, TypeOK', NEW t \in Thread, NEW c \in Code, DrawCode(t, c)
    PROVE  Ledger!Next
<1>1. PICK p \in Person : p = job[t].steam
  BY DEF DrawCode, TypeOK, ThreadTypeOK, Working
<1>2. /\ drawn' = drawn \cup {<<p, c>>} /\ loose' = loose \cup ({c} \cap Drawn)
      /\ UNCHANGED <<pending, seen, rows, linked>>
      /\ pc[t] = "pick" /\ c \notin Pending
      /\ pc' = [pc EXCEPT ![t] = "insert"] /\ job' = [job EXCEPT ![t].code = c]
  BY <1>1 DEF DrawCode, Goto, file
<1>3. \A d \in Code \ {c} : d \in Spent' <=> d \in Spent
  <2>1. Drawn' = Drawn \cup {c} /\ Pending' = Pending
    BY <1>2 DEF Drawn, Pending
  <2>2. /\ pc'[t] = "insert" /\ job'[t].code = c
        /\ \A u \in Thread \ {t} : pc'[u] = pc[u] /\ job'[u] = job[u]
    BY <1>2 DEF TypeOK, ThreadTypeOK
  <2> QED
    BY <1>2, <2>1, <2>2, SpentCodes DEF Thread
<1>4. c \notin Spent'
  BY <1>2, SpentCodes DEF TypeOK, ThreadTypeOK
<1>5. Used \subseteq Code /\ Used' \subseteq Code
  BY DEF TypeOK, StoreTypeOK, Used, Spent, Drawn
<1>6. Ledger!Issued(c) <=> c \in Drawn
  BY DEF Ledger!Issued, Drawn
<1>7. CASE c \in Drawn
  <2>1. loose' = loose \cup {c} /\ Used' = Used \cup {c}
    BY <1>2, <1>3, <1>5, <1>7 DEF Used
  <2>2. Ledger!Issue(p, c)
    BY <1>2, <1>6, <1>7, <2>1 DEF Ledger!Issue, Ledger!Loosen, Used
  <2> QED
    BY <2>2 DEF Ledger!Next
<1>8. CASE c \notin Drawn
  <2>1. c \notin Spent
    BY <1>8, SpentCodes
  <2>2. loose' = loose /\ Used' = Used
    BY <1>2, <1>3, <1>4, <1>5, <1>8, <2>1 DEF Used
  <2>3. Ledger!Issue(p, c)
    BY <1>2, <1>6, <1>8, <2>2 DEF Ledger!Issue, Used
  <2> QED
    BY <2>3 DEF Ledger!Next
<1> QED
  BY <1>7, <1>8

\* Writing the file earns the link of who typed the code.
LEMMA EarnStep ==
    ASSUME TypeOK, TypeOK', OneRowPerSteamId, LinkInv, KeptFor, HandInv, WriteFile
    PROVE  Ledger!Next
<1> DEFINE links == {<<r.steam, r.hash>> : r \in rows}
<1>0. /\ pc["ice"] = "write" /\ pc' = [pc EXCEPT !["ice"] = "forget"] /\ job' = job
      /\ UNCHANGED <<pending, drawn, loose, seen, linked>>
  BY DEF WriteFile, Goto, code
<1>1. PICK p, q \in Person, c \in Code : p = job["ice"].steam /\ q = job["ice"].hash /\ c = job["ice"].code
  BY <1>0 DEF TypeOK, ThreadTypeOK, Thread, Working
<1>2. <<q, c>> \in seen /\ <<p, c>> \in drawn /\ (p = q \/ c \in loose)
  BY <1>0, <1>1 DEF LinkInv, KeptFor, HasCode, Working, Thread
<1>3. \A d \in Code \ {c} : d \in Spent' <=> d \in Spent
  BY <1>0, <1>1, SpentCodes DEF TypeOK, ThreadTypeOK, Thread, Pending, Drawn
<1>4. c \notin Spent
  BY <1>0, <1>1, SpentCodes DEF Thread
<1>5. c \in Spent' \/ c \in loose
  <2>1. c \in Drawn'
    BY <1>0, <1>2 DEF Drawn
  <2>2. pc'["ice"] = "forget" /\ pc'["tick"] = pc["tick"] /\ job'["ice"].code = c
    BY <1>0, <1>1 DEF TypeOK, ThreadTypeOK, Thread
  <2>3. pc["tick"] \in {"insert", "upsert", "write"} => job["tick"].code # c \/ c \in loose
    BY <1>0, <1>1 DEF HandInv, SecretInv, Secret, HasCode, Working, Thread, TypeOK, ThreadTypeOK, TickStates
  <2> QED
    BY <1>0, <2>1, <2>2, <2>3, SpentCodes DEF Thread
<1>6. Used \subseteq Code /\ Used' \subseteq Code
  BY DEF TypeOK, StoreTypeOK, Used, Spent, Drawn
<1>7. \/ c \notin Used /\ p = q /\ Used' = Used \cup {c}
      \/ c \in loose /\ Used' = Used
  <2>1. CASE c \in loose
    BY <1>0, <1>3, <1>6, <2>1 DEF Used
  <2>2. CASE c \notin loose
    BY <1>0, <1>2, <1>3, <1>4, <1>5, <1>6, <2>2 DEF Used
  <2> QED
    BY <2>1, <2>2
<1>8. \E l \in links \cup {<<p, q>>} : links' = (links \ {l}) \cup {<<p, q>>}
  <2>1. Upsert(p, q)
    BY <1>1 DEF WriteFile
  <2>2. PICK r \in rows \cup {Link(p, q)} : rows' = (rows \ {r}) \cup {Link(p, q)}
    BY <2>1 DEF Upsert
  <2>3. Link(p, q).steam = p /\ Link(p, q).hash = q
    BY DEF Link
  <2>4. \A s \in rows : <<s.steam, s.hash>> = <<r.steam, r.hash>> => s = r \/ <<s.steam, s.hash>> = <<p, q>>
    BY <2>2, <2>3 DEF OneRowPerSteamId
  <2>5. <<r.steam, r.hash>> \in links \cup {<<p, q>>}
    BY <2>2, <2>3
  <2>6. links' = (links \ {<<r.steam, r.hash>>}) \cup {<<p, q>>}
    <3>1. ASSUME NEW l \in links' PROVE l \in (links \ {<<r.steam, r.hash>>}) \cup {<<p, q>>}
      <4>1. PICK s \in rows' : l = <<s.steam, s.hash>>
        OBVIOUS
      <4> QED
        BY <2>2, <2>3, <2>4, <4>1
    <3>2. ASSUME NEW l \in links, l # <<r.steam, r.hash>> PROVE l \in links'
      <4>1. PICK s \in rows : l = <<s.steam, s.hash>>
        OBVIOUS
      <4>2. s \in rows'
        BY <2>2, <3>2, <4>1
      <4> QED
        BY <4>1, <4>2
    <3>3. <<p, q>> \in links'
      BY <2>2, <2>3
    <3> QED
      BY <3>1, <3>2, <3>3
  <2> QED
    BY <2>5, <2>6
<1> HIDE DEF links
<1>9. Ledger!Earn(p, q, c)
  BY <1>0, <1>2, <1>7, <1>8 DEF Ledger!Earn, links, Used
<1> QED
  BY <1>9 DEF Ledger!Next

\* Telling the user that they are linked announces it.
LEMMA AnnounceStep ==
    ASSUME TypeOK, TypeOK', WrittenInv, \A c \in Used : c \in Used', ForgetCode
    PROVE  Ledger!Next
<1>1. PICK p, q \in Person, c \in Code : p = job["ice"].steam /\ q = job["ice"].hash /\ c = job["ice"].code
  BY DEF ForgetCode, TypeOK, ThreadTypeOK, Thread, Working
<1>2. PICK r \in rows : r.steam = p /\ r.hash = q
  BY <1>1 DEF ForgetCode, WrittenInv
<1>3. <<p, q>> \in {<<s.steam, s.hash>> : s \in rows}
  BY <1>2
<1>4. \A d \in Code : d \in Spent' => d \in Spent
  <2> SUFFICES ASSUME NEW d \in Code, IsSpent(d)' PROVE IsSpent(d)
    BY SpentThreads
  <2> QED
    BY <1>1, VerificationAssumption
       DEF IsSpent, ForgetCode, Return, Goto, TypeOK, ThreadTypeOK, StoreTypeOK, Thread, Entry, NoEntry, NoJob, Drawn
<1>5. UNCHANGED <<drawn, loose, seen, rows>> /\ linked' = linked \cup {p}
  BY <1>1 DEF ForgetCode
<1>6. Used' = Used
  <2>1. Used \subseteq Code /\ Used' \subseteq Code
    BY DEF TypeOK, StoreTypeOK, Used, Spent, Drawn
  <2> QED
    BY <1>4, <1>5, <2>1 DEF Used
<1>7. Ledger!Announce(p)
  BY <1>3, <1>5, <1>6 DEF Ledger!Announce, Used
<1> QED
  BY <1>7 DEF Ledger!Next

\* A code sent to a Mumble user of the player's name is told, or it leaks.
LEMMA LeakStep ==
    ASSUME TypeOK, TypeOK', KeptFor, \A c \in Used : c \in Used', NEW q \in Person, SendFallback(q)
    PROVE  Ledger!Next
<1>1. PICK p \in Person, c \in Code : p = job["tick"].steam /\ c = job["tick"].code
  BY DEF SendFallback, TypeOK, ThreadTypeOK, Working, Thread
<1>2. /\ Show(q, c) /\ <<p, c>> \in drawn
      /\ loose' = (IF q = p THEN loose ELSE loose \cup {c})
      /\ UNCHANGED <<pending, drawn, rows, linked>>
  BY <1>1 DEF SendFallback, file, KeptFor, HasCode, Working, Thread
<1>3. \A d \in Code : d \in Spent' <=> d \in Spent
  <2>1. /\ pc["tick"] = "fallback" /\ pc'["tick"] = "poll"
        /\ pc'["ice"] = pc["ice"] /\ job'["ice"] = job["ice"]
    BY VerificationAssumption DEF SendFallback, Return, Goto, TypeOK, ThreadTypeOK, Thread
  <2>2. \A d \in Code : IsSpent(d)' <=> IsSpent(d)
    BY <1>2, <2>1 DEF IsSpent, Drawn
  <2> QED
    BY <2>2, SpentThreads
<1>4. Used \subseteq Code /\ Used' \subseteq Code
  BY DEF TypeOK, StoreTypeOK, Used, Spent, Drawn
<1>5. CASE q = p
  <2>1. \A d \in Used' : d \in Used
    BY <1>2, <1>3, <1>4, <1>5 DEF Used
  <2> QED
    BY <1>2, <1>5, <2>1, TellStep
<1>6. CASE q # p
  <2>1. loose' = loose \cup {c} /\ Used' = Used \cup {c}
    BY <1>2, <1>3, <1>4, <1>6 DEF Used
  <2>2. Ledger!Leak(q, c)
    BY <1>2, <2>1 DEF Ledger!Leak, Ledger!Issued, Ledger!Loosen, Show, Used
  <2> QED
    BY <2>2 DEF Ledger!Next
<1> QED
  BY <1>5, <1>6

\* Every step of the threads is a step of the ledger.
LEMMA LedgerStep ==
    TypeOK /\ TypeOK' /\ OneRowPerSteamId /\ IssueInv /\ LinkInv /\ HandInv /\ [Next]_vars
        => [Ledger!Next]_Ledger!ledger
<1> SUFFICES ASSUME TypeOK, TypeOK', OneRowPerSteamId, IssueInv, LinkInv, HandInv, [Next]_vars
             PROVE  Ledger!Next
  OBVIOUS
<1> USE DEF IssueInv, HandInv
<1>1. \A c \in Used : c \in Used'
  BY UsedStep
<1>2. CASE WriteFile
  BY <1>2, EarnStep
<1>3. CASE ForgetCode
  BY <1>1, <1>3, AnnounceStep
<1>4. ASSUME NEW t \in Thread, NEW c \in Code, DrawCode(t, c) PROVE Ledger!Next
  BY <1>4, IssuedStep
<1>5. ASSUME NEW t \in Thread, SendCode(t) \/ SendCodeFails(t) PROVE Ledger!Next
  <2>1. PICK p \in Person, c \in Code : p = job[t].steam /\ c = job[t].code
    BY <1>5 DEF SendCode, SendCodeFails, TypeOK, ThreadTypeOK, Working
  <2>2. <<p, c>> \in drawn
    BY <1>5, <2>1 DEF KeptFor, SendCode, SendCodeFails, HasCode, Working
  <2>3. Show(p, c) /\ UNCHANGED <<drawn, loose, rows, linked>>
    BY <1>5, <2>1 DEF SendCode, SendCodeFails, file
  <2>4. \A d \in Code : d \in Spent' => d \in Spent \/ d = c
    <3> SUFFICES ASSUME NEW d \in Code, d # c, IsSpent(d)' PROVE IsSpent(d)
      BY SpentThreads
    <3>1. d \in Drawn
      BY <2>3 DEF IsSpent, Drawn
    <3>2. CASE SendCode(t)
      BY <3>1, <3>2 DEF IsSpent, SendCode, Return, Goto, TypeOK, ThreadTypeOK, Thread
    <3>3. CASE SendCodeFails(t)
      BY <2>1, <3>1, <3>3 DEF IsSpent, SendCodeFails, Return, Goto, TypeOK, ThreadTypeOK, StoreTypeOK, Thread
    <3> QED
      BY <1>5, <3>2, <3>3
  <2>5. \A d \in Used' : d \in Used \/ d = c
    <3>1. Used' \subseteq Code
      BY DEF TypeOK, StoreTypeOK, Used, Spent, Drawn
    <3> QED
      BY <2>3, <2>4, <3>1 DEF Used
  <2> QED
    BY <1>1, <2>2, <2>3, <2>5, TellStep
<1>6. ASSUME NEW r \in Repeat, RepeatCode(r) PROVE Ledger!Next
  <2>1. PICK p \in Person, c \in Code : p = r.steam /\ c = r.code
    BY <1>6 DEF Repeat
  <2>2. <<p, c>> \in drawn
    BY <1>6, <2>1 DEF KeptFor, RepeatCode
  <2>3. Show(p, c) /\ UNCHANGED <<drawn, loose, rows, linked>>
    BY <1>6, <2>1 DEF RepeatCode, file
  <2>4. Used' = Used
    BY <1>6 DEF RepeatCode, Spent, Pending, Drawn, Used
  <2> QED
    BY <1>1, <2>2, <2>3, <2>4, TellStep
<1>7. ASSUME NEW q \in Person, SendFallback(q) PROVE Ledger!Next
  BY <1>1, <1>7, LeakStep
<1>8. CASE UNCHANGED <<drawn, loose, seen, rows, linked>>
  BY <1>1, <1>8, DropStep
<1> QED
  BY <1>2, <1>3, <1>4, <1>5, <1>6, <1>7, <1>8, CodeFrame, FileFrame

\* The initial states are initial states of the ledger.
LEMMA LedgerInit == Init => HandInv /\ Ledger!Init
<1> SUFFICES ASSUME Init PROVE HandInv /\ Ledger!Init
  OBVIOUS
<1>1. HandInv
  BY DEF Init, HandInv, SecretInv, WrittenInv, Thread
<1>2. PICK S \in SUBSET Person : rows = {Link(p, p) : p \in S} /\ linked = S
  BY DEF Init
<1>3. {<<r.steam, r.hash>> : r \in rows} = {<<p, p>> : p \in S}
  <2>1. \A p \in S : Link(p, p) \in rows /\ Link(p, p).steam = p /\ Link(p, p).hash = p
    BY <1>2 DEF Link
  <2>2. \A r \in rows : \E p \in S : r.steam = p /\ r.hash = p
    BY <1>2 DEF Link
  <2> QED
    BY <2>1, <2>2
<1>4. Spent \cup loose = {} /\ seen = {} /\ drawn = {} /\ loose = {}
  BY DEF Init, Spent, Drawn
<1> QED
  BY <1>1, <1>2, <1>3, <1>4 DEF Ledger!Init

\* The threads, the dictionaries and the file implement the ledger: a code links
\* who was told it, once, and not after it was dropped, but for the codes drawn
\* twice or sent to a namesake in Mumble, which link a player they were drawn
\* for to someone who was told them; and who is told that they are linked is in
\* the file.
THEOREM EarnedLinks == Spec => LinksAreEarned
<1>1. TypeOK /\ OneRowPerSteamId /\ IssueInv /\ HandInv /\ [Next]_vars => HandInv'
  BY SecretStep, WrittenStep DEF HandInv, IssueInv
<1>2. Spec => []HandInv
  BY <1>1, LinksInvariant, LedgerInit, PTL DEF Spec
<1>3. Spec => Ledger!Spec
  BY <1>2, LinksInvariant, LedgerInit, LedgerStep, PTL DEF Spec, Ledger!Spec
<1> QED
  BY <1>3 DEF LinksAreEarned

================================================================================
