--------------------------- MODULE VerificationProofs ---------------------------
(***************************************************************************)
(* Proofs about Verification, for any people, names and codes.             *)
(***************************************************************************)
EXTENDS Verification, TLAPS

--------------------------------------------------------------------------------
(***************************************************************************)
(* Types.                                                                  *)
(***************************************************************************)
\* Every step keeps every variable in its type.
LEMMA TypeStep ==
    TypeOK /\ [Next]_vars => TypeOK'
<1> SUFFICES ASSUME TypeOK, [Next]_vars PROVE TypeOK'
  OBVIOUS
<1> USE VerificationAssumption DEF Goto, Return, Raise, code, file, TypeOK, ThreadTypeOK, StoreTypeOK, Working, Thread, ThreadStates, TickStates, IceStates, Someone, NoJob, NoEntry, Entry, Repeat, Row, Link, Pending, Expire, Show, Forget, Upsert
<1>1. CASE UpdatePlayers
  BY <1>1 DEF UpdatePlayers
<1>2. CASE FetchFails
  BY <1>2 DEF FetchFails
<1>3. CASE EndPoll
  BY <1>3 DEF EndPoll
<1>4. CASE LoadIdentity
  BY <1>4 DEF LoadIdentity
<1>5. CASE NoFallback
  BY <1>5 DEF NoFallback
<1>6. ASSUME NEW p \in Person, GameCommand(p) PROVE TypeOK'
  BY <1>6 DEF GameCommand
<1>7. ASSUME NEW p \in Person, TellVerifiedFails(p) PROVE TypeOK'
  BY <1>7 DEF TellVerifiedFails
<1>8. ASSUME NEW p \in Person, SendFallback(p) PROVE TypeOK'
  BY <1>8 DEF SendFallback
<1>9. ASSUME NEW q \in Person, NEW n \in Name, AskInMumble(q, n) PROVE TypeOK'
  <2>1. StoreTypeOK'
    BY <1>9 DEF AskInMumble
  <2>2. CASE byName[n] = Nobody
    BY <1>9, <2>1, <2>2 DEF AskInMumble
  <2>3. CASE byName[n] # Nobody
    <3>1. byName[n] \in Person
      BY <2>3
    <3>2. /\ pc' = [pc EXCEPT !["ice"] = "pick"]
          /\ job' = [job EXCEPT !["ice"] = [NoJob EXCEPT !.steam = byName[n], !.hash = q]]
      BY <1>9, <2>3 DEF AskInMumble
    <3> QED
      BY <2>1, <3>1, <3>2
  <2> QED
    BY <2>2, <2>3
<1>10. ASSUME NEW q \in Person, NEW c \in Code, TypeCode(q, c) PROVE TypeOK'
  <2>1. ThreadTypeOK'
    BY <1>10 DEF TypeCode
  <2>2. StoreTypeOK'
    BY <1>10 DEF TypeCode
  <2> QED
    BY <2>1, <2>2
<1>11. CASE OpenFile
  BY <1>11 DEF OpenFile
<1>12. CASE WriteFile
  <2>1. ThreadTypeOK'
    BY <1>12 DEF WriteFile
  <2>2. job["ice"].steam \in Person /\ job["ice"].hash \in Person
    BY <1>12 DEF WriteFile
  <2>3. Link(job["ice"].steam, job["ice"].hash) \in Row
    BY <2>2
  <2>4. rows' \subseteq rows \cup {Link(job["ice"].steam, job["ice"].hash)}
    BY <1>12 DEF WriteFile
  <2>5. StoreTypeOK'
    BY <1>12, <2>3, <2>4 DEF WriteFile
  <2> QED
    BY <2>1, <2>5
<1>13. CASE ForgetCode
  BY <1>13 DEF ForgetCode
<1>14. ASSUME NEW t \in Thread, NEW c \in Code, DrawCode(t, c) PROVE TypeOK'
  <2>1. ThreadTypeOK'
    BY <1>14 DEF DrawCode
  <2>2. StoreTypeOK'
    BY <1>14 DEF DrawCode
  <2> QED
    BY <2>1, <2>2
<1>15. ASSUME NEW t \in Thread, DrawFails(t) PROVE TypeOK'
  BY <1>15 DEF DrawFails
<1>16. ASSUME NEW t \in Thread, InsertCode(t) PROVE TypeOK'
  BY <1>16 DEF InsertCode
<1>17. ASSUME NEW t \in Thread, SendCode(t) PROVE TypeOK'
  <2>1. ThreadTypeOK'
    BY <1>17 DEF SendCode
  <2>2. job[t].steam \in Person /\ job[t].code \in Code
    BY <1>17 DEF SendCode
  <2>3. repeats' \subseteq Repeat
    <3>1. [steam |-> job[t].steam, code |-> job[t].code, checked |-> FALSE] \in Repeat
      BY <2>2
    <3>2. repeats' = repeats \cup {[steam |-> job[t].steam, code |-> job[t].code, checked |-> FALSE]}
      BY <1>17 DEF SendCode
    <3> QED
      BY <3>1, <3>2
  <2>4. seen' \subseteq Person \X Code
    BY <1>17, <2>2 DEF SendCode
  <2>5. UNCHANGED <<byName, pending, rows, torn, drawn, draws, loose, linked, kills>>
    BY <1>17 DEF SendCode
  <2> QED
    BY <2>1, <2>3, <2>4, <2>5
<1>18. ASSUME NEW t \in Thread, SendCodeFails(t) PROVE TypeOK'
  <2>1. ThreadTypeOK'
    BY <1>18 DEF SendCodeFails
  <2>2. StoreTypeOK'
    BY <1>18 DEF SendCodeFails
  <2> QED
    BY <2>1, <2>2
<1>19. ASSUME NEW r \in Repeat, CheckRepeat(r) PROVE TypeOK'
  <2>1. ThreadTypeOK'
    BY <1>19 DEF CheckRepeat
  <2>2. [r EXCEPT !.checked = TRUE] \in Repeat
    BY <1>19
  <2>3. repeats' \subseteq repeats \cup {[r EXCEPT !.checked = TRUE]}
    BY <1>19 DEF CheckRepeat
  <2>4. UNCHANGED <<byName, pending, rows, torn, drawn, draws, loose, seen, linked, kills>>
    BY <1>19 DEF CheckRepeat
  <2> QED
    BY <2>1, <2>2, <2>3, <2>4
<1>20. ASSUME NEW r \in Repeat, RepeatCode(r) PROVE TypeOK'
  <2>1. ThreadTypeOK'
    BY <1>20 DEF RepeatCode
  <2>2. repeats' \subseteq Repeat
    BY <1>20 DEF RepeatCode
  <2>3. seen' \subseteq Person \X Code
    BY <1>20 DEF RepeatCode
  <2>4. UNCHANGED <<byName, pending, rows, torn, drawn, draws, loose, linked, kills>>
    BY <1>20 DEF RepeatCode
  <2> QED
    BY <2>1, <2>2, <2>3, <2>4
<1>21. ASSUME NEW r \in Repeat, EndRepeat(r) PROVE TypeOK'
  BY <1>21 DEF EndRepeat
<1>22. CASE Killed
  BY <1>22 DEF Killed
<1>23. CASE Restart
  BY <1>23 DEF Restart
<1>24. CASE UNCHANGED vars
  BY <1>24 DEF vars
<1>25. CASE UpsertFails
  BY <1>25 DEF UpsertFails
<1> QED
  BY <1>1, <1>2, <1>3, <1>4, <1>5, <1>6, <1>7, <1>8, <1>9, <1>10, <1>11, <1>12,
     <1>13, <1>14, <1>15, <1>16, <1>17, <1>18, <1>19, <1>20, <1>21, <1>22, <1>23, <1>24, <1>25
     DEF Next, TickStep, IceStep, IssueStep, RepeatStep

\* The initial state has the right types.
LEMMA TypeInit == Init => TypeOK
<1> SUFFICES ASSUME Init PROVE TypeOK
  OBVIOUS
<1>1. ThreadTypeOK
  BY DEF Init, ThreadTypeOK, Thread, ThreadStates, TickStates, IceStates, Working, NoJob, Someone
<1>2. PICK S \in SUBSET Person : rows = {Link(p, p) : p \in S} /\ linked = S
  BY DEF Init
<1>3. rows \subseteq Row
  BY <1>2, VerificationAssumption DEF Link, Row
<1>4. StoreTypeOK
  BY <1>2, <1>3 DEF Init, StoreTypeOK, NoEntry, Entry, Someone
<1> QED
  BY <1>1, <1>4 DEF TypeOK

\* Type correctness: a thread that works on a command has a player, and the
\* code from the time it drew one.
THEOREM TypeCorrect == Spec => []TypeOK
  BY TypeInit, TypeStep, PTL DEF Spec

--------------------------------------------------------------------------------
(***************************************************************************)
(* The rows of the file.                                                   *)
(***************************************************************************)
\* The rows change when the file is written, and the people who were told
\* that they are linked when a code is used.
LEMMA FileFrame ==
    [Next]_vars => /\ WriteFile \/ UNCHANGED rows
                   /\ ForgetCode \/ UNCHANGED linked
<1> SUFFICES ASSUME [Next]_vars
             PROVE  (WriteFile \/ UNCHANGED rows) /\ (ForgetCode \/ UNCHANGED linked)
  OBVIOUS
<1> USE DEF file, Forget
<1>1. CASE UpdatePlayers
  BY <1>1 DEF UpdatePlayers
<1>2. CASE FetchFails
  BY <1>2 DEF FetchFails
<1>3. CASE EndPoll
  BY <1>3 DEF EndPoll
<1>4. CASE LoadIdentity
  BY <1>4 DEF LoadIdentity
<1>5. CASE NoFallback
  BY <1>5 DEF NoFallback
<1>6. CASE \E p \in Person : GameCommand(p)
  BY <1>6 DEF GameCommand
<1>7. CASE \E p \in Person : TellVerifiedFails(p)
  BY <1>7 DEF TellVerifiedFails
<1>8. CASE \E p \in Person : SendFallback(p)
  BY <1>8 DEF SendFallback
<1>9. CASE \E q \in Person, n \in Name : AskInMumble(q, n)
  BY <1>9 DEF AskInMumble
<1>10. CASE \E q \in Person, c \in Code : TypeCode(q, c)
  BY <1>10 DEF TypeCode
<1>11. CASE OpenFile
  BY <1>11 DEF OpenFile
<1>12. CASE \E t \in Thread, c \in Code : DrawCode(t, c)
  BY <1>12 DEF DrawCode
<1>13. CASE \E t \in Thread : DrawFails(t)
  BY <1>13 DEF DrawFails
<1>14. CASE \E t \in Thread : InsertCode(t)
  BY <1>14 DEF InsertCode
<1>15. CASE \E t \in Thread : SendCode(t)
  BY <1>15 DEF SendCode
<1>16. CASE \E t \in Thread : SendCodeFails(t)
  BY <1>16 DEF SendCodeFails
<1>17. CASE \E r \in Repeat : CheckRepeat(r)
  BY <1>17 DEF CheckRepeat
<1>18. CASE \E r \in Repeat : RepeatCode(r)
  BY <1>18 DEF RepeatCode
<1>19. CASE \E r \in Repeat : EndRepeat(r)
  BY <1>19 DEF EndRepeat
<1>20. CASE Killed
  BY <1>20 DEF Killed
<1>21. CASE Restart
  BY <1>21 DEF Restart
<1>22. CASE WriteFile
  BY <1>22 DEF WriteFile
<1>23. CASE ForgetCode
  BY <1>23 DEF ForgetCode
<1>24. CASE UNCHANGED vars
  BY <1>24 DEF vars
<1>25. CASE UpsertFails
  BY <1>25 DEF UpsertFails
<1> QED
  BY <1>1, <1>2, <1>3, <1>4, <1>5, <1>6, <1>7, <1>8, <1>9, <1>10, <1>11, <1>12,
     <1>13, <1>14, <1>15, <1>16, <1>17, <1>18, <1>19, <1>20, <1>21, <1>22, <1>23, <1>24, <1>25
     DEF Next, TickStep, IceStep, IssueStep, RepeatStep

\* Upsert replaces one row or adds one, and no other row is the player's.
LEMMA UpsertRows ==
    ASSUME TypeOK, OneRowPerSteamId, WriteFile
    PROVE  \E p, q \in Person : \E old \in SUBSET rows :
               /\ p = job["ice"].steam /\ q = job["ice"].hash
               /\ rows' = (rows \ old) \cup {Link(p, q)}
               /\ \A r \in rows \ old : r.steam # p
               /\ \A r \in old : r.steam = p \/ r.name = GameName[p]
<1> DEFINE p == job["ice"].steam
           q == job["ice"].hash
           own == {r \in rows : r.steam = p}
           named == {r \in rows : r.name = GameName[p]}
<1>1. p \in Person /\ q \in Person /\ Upsert(p, q)
  BY DEF WriteFile, TypeOK, ThreadTypeOK, Thread, Working
<1> HIDE DEF p, q
<1>2. CASE own # {}
  <2>1. PICK r \in own : rows' = (rows \ {r}) \cup {Link(p, q)}
    BY <1>1, <1>2 DEF Upsert
  <2>2. \A s \in rows \ {r} : s.steam # p
    BY <2>1 DEF OneRowPerSteamId
  <2> QED
    BY <1>1, <2>1, <2>2 DEF p, q
<1>3. CASE own = {} /\ named # {}
  <2>1. PICK r \in named : rows' = (rows \ {r}) \cup {Link(p, q)}
    BY <1>1, <1>3 DEF Upsert
  <2>2. \A s \in rows : s.steam # p
    BY <1>3
  <2>3. {r} \in SUBSET rows /\ \A s \in {r} : s.name = GameName[p]
    OBVIOUS
  <2>4. \A s \in rows \ {r} : s.steam # p
    BY <2>2
  <2> HIDE DEF own, named
  <2> QED
    BY <1>1, <2>1, <2>3, <2>4 DEF p, q
<1>4. CASE own = {} /\ named = {}
  <2>1. rows' = (rows \ {}) \cup {Link(p, q)}
    BY <1>1, <1>4 DEF Upsert
  <2> QED
    BY <1>1, <1>4, <2>1 DEF p, q
<1> QED
  BY <1>2, <1>3, <1>4

\* A step keeps the Steam IDs of the rows distinct.
LEMMA OneRowStep == TypeOK /\ OneRowPerSteamId /\ [Next]_vars => OneRowPerSteamId'
<1> SUFFICES ASSUME TypeOK, OneRowPerSteamId, [Next]_vars PROVE OneRowPerSteamId'
  OBVIOUS
<1>1. CASE WriteFile
  <2>1. PICK p, q \in Person : \E old \in SUBSET rows :
            /\ rows' = (rows \ old) \cup {Link(p, q)}
            /\ \A r \in rows \ old : r.steam # p
    BY <1>1, UpsertRows
  <2>2. Link(p, q).steam = p
    BY DEF Link
  <2> QED
    BY <2>1, <2>2 DEF OneRowPerSteamId
<1>2. CASE UNCHANGED rows
  BY <1>2 DEF OneRowPerSteamId
<1> QED
  BY <1>1, <1>2, FileFrame

\* The file has at most one row for each Steam ID, so that the first match
\* of upsert_identity_mapping and the last one of IdentityMap are the same.
THEOREM UniqueRows == Spec => []OneRowPerSteamId
<1>1. Init => OneRowPerSteamId
  BY DEF Init, OneRowPerSteamId, Link
<1> QED
  BY <1>1, OneRowStep, TypeCorrect, PTL DEF Spec

--------------------------------------------------------------------------------
(***************************************************************************)
(* Links are kept, whoever else shares names: the row of a player without  *)
(* a namesake is replaced by one of the same player only.                  *)
(***************************************************************************)
Listed(p) == \E r \in rows : r.steam = p

KeptInv ==
    /\ \A r \in rows : r.name = GameName[r.steam]
    /\ \A p \in linked : HasNamesake(p) \/ Listed(p)
    /\ pc["ice"] = "forget" => Listed(job["ice"].steam)

\* The initial state satisfies the invariant.
LEMMA KeptInit == Init => KeptInv
<1> SUFFICES ASSUME Init PROVE KeptInv
  OBVIOUS
<1>1. PICK S \in SUBSET Person : rows = {Link(p, p) : p \in S} /\ linked = S
  BY DEF Init
<1>2. pc["ice"] = "idle"
  BY DEF Init, Thread
<1>3. \A p \in S : Link(p, p) \in rows /\ Link(p, p).steam = p
  BY <1>1 DEF Link
<1>4. \A r \in rows : r.name = GameName[r.steam]
  BY <1>1 DEF Link
<1> QED
  BY <1>1, <1>2, <1>3, <1>4 DEF KeptInv, Listed

\* A step keeps the rows of the people who were told that they are linked.
LEMMA KeptStep ==
    TypeOK /\ OneRowPerSteamId /\ KeptInv /\ [Next]_vars => KeptInv'
<1> SUFFICES ASSUME TypeOK, OneRowPerSteamId, KeptInv, [Next]_vars PROVE KeptInv'
  OBVIOUS
<1> USE DEF Goto, Return, Raise, code, file, Forget, TypeOK, ThreadTypeOK, Thread, ThreadStates, KeptInv, Listed
<1>1. CASE UpdatePlayers
  BY <1>1 DEF UpdatePlayers
<1>2. CASE FetchFails
  BY <1>2 DEF FetchFails
<1>3. CASE EndPoll
  BY <1>3 DEF EndPoll
<1>4. CASE LoadIdentity
  BY <1>4 DEF LoadIdentity
<1>5. CASE NoFallback
  BY <1>5 DEF NoFallback
<1>6. ASSUME NEW p \in Person, GameCommand(p) PROVE KeptInv'
  BY <1>6 DEF GameCommand
<1>7. ASSUME NEW p \in Person, TellVerifiedFails(p) PROVE KeptInv'
  BY <1>7 DEF TellVerifiedFails
<1>8. ASSUME NEW p \in Person, SendFallback(p) PROVE KeptInv'
  BY <1>8 DEF SendFallback
<1>9. ASSUME NEW q \in Person, NEW n \in Name, AskInMumble(q, n) PROVE KeptInv'
  BY <1>9 DEF AskInMumble
<1>10. ASSUME NEW q \in Person, NEW c \in Code, TypeCode(q, c) PROVE KeptInv'
  BY <1>10 DEF TypeCode
<1>11. CASE OpenFile
  BY <1>11 DEF OpenFile
<1>12. CASE WriteFile
  <2>1. PICK p, q \in Person : \E old \in SUBSET rows :
            /\ p = job["ice"].steam
            /\ rows' = (rows \ old) \cup {Link(p, q)}
            /\ \A r \in old : r.steam = p \/ r.name = GameName[p]
    BY <1>12, UpsertRows
  <2>2. Link(p, q).steam = p /\ Link(p, q).name = GameName[p]
    BY DEF Link
  <2>3. \A r \in rows \ rows' : r.steam = p \/ HasNamesake(r.steam)
    <3>1. \A r \in rows : r.steam \in Person
      BY DEF StoreTypeOK, Row
    <3> QED
      BY <2>1, <3>1 DEF HasNamesake
  <2>4. Link(p, q) \in rows' /\ \A r \in rows' : r \in rows \/ r = Link(p, q)
    BY <2>1
  <2>5. job' = job /\ linked' = linked
    BY <1>12 DEF WriteFile
  <2>6. \A r \in rows' : r.name = GameName[r.steam]
    BY <2>2, <2>4
  <2>7. \A u \in linked' : HasNamesake(u) \/ \E r \in rows' : r.steam = u
    BY <2>2, <2>3, <2>4, <2>5
  <2>8. \E r \in rows' : r.steam = job'["ice"].steam
    BY <2>1, <2>2, <2>4, <2>5
  <2> QED
    BY <2>6, <2>7, <2>8
<1>13. CASE ForgetCode
  BY <1>13 DEF ForgetCode
<1>14. ASSUME NEW t \in Thread, NEW c \in Code, DrawCode(t, c) PROVE KeptInv'
  BY <1>14 DEF DrawCode
<1>15. ASSUME NEW t \in Thread, DrawFails(t) PROVE KeptInv'
  BY <1>15 DEF DrawFails
<1>16. ASSUME NEW t \in Thread, InsertCode(t) PROVE KeptInv'
  BY <1>16 DEF InsertCode
<1>17. ASSUME NEW t \in Thread, SendCode(t) PROVE KeptInv'
  BY <1>17 DEF SendCode
<1>18. ASSUME NEW t \in Thread, SendCodeFails(t) PROVE KeptInv'
  BY <1>18 DEF SendCodeFails
<1>19. ASSUME NEW r \in Repeat, CheckRepeat(r) PROVE KeptInv'
  BY <1>19 DEF CheckRepeat
<1>20. ASSUME NEW r \in Repeat, RepeatCode(r) PROVE KeptInv'
  BY <1>20 DEF RepeatCode
<1>21. ASSUME NEW r \in Repeat, EndRepeat(r) PROVE KeptInv'
  BY <1>21 DEF EndRepeat
<1>22. CASE Killed
  BY <1>22 DEF Killed
<1>23. CASE Restart
  BY <1>23 DEF Restart
<1>24. CASE UNCHANGED vars
  BY <1>24 DEF vars
<1>25. CASE UpsertFails
  BY <1>25 DEF UpsertFails
<1> QED
  BY <1>1, <1>2, <1>3, <1>4, <1>5, <1>6, <1>7, <1>8, <1>9, <1>10, <1>11, <1>12,
     <1>13, <1>14, <1>15, <1>16, <1>17, <1>18, <1>19, <1>20, <1>21, <1>22, <1>23, <1>24, <1>25
     DEF Next, TickStep, IceStep, IssueStep, RepeatStep

\* Who was told that they are linked and has no namesake in the game is never
\* dropped from the file.
THEOREM KeptLinks == Spec => []LinksAreKept
<1>1. KeptInv => LinksAreKept
  BY DEF KeptInv, Listed, LinksAreKept
<1> QED
  BY <1>1, KeptInit, KeptStep, TypeCorrect, UniqueRows, PTL DEF Spec

--------------------------------------------------------------------------------
(***************************************************************************)
(* Every code in the dictionary, in the hands of a thread or of a repeater *)
(* was drawn for the player it is kept with.  A code that is not loose was *)
(* drawn for one player, and shown to that player only: so who types a     *)
(* code types one of their own, or a loose one.                            *)
(***************************************************************************)
HasCode(t) == pc[t] \in Working \ {"pick"}

\* Whom a code was drawn for.
KeptFor ==
    /\ \A c \in Pending : <<pending[c].steam, c>> \in drawn
    /\ \A t \in Thread : HasCode(t) => <<job[t].steam, job[t].code>> \in drawn
    /\ \A r \in repeats : <<r.steam, r.code>> \in drawn

\* Who was shown a code that is not loose.
OwnersOnly ==
    /\ \A p \in Person, c \in Code : <<p, c>> \in seen => c \in loose \/ <<p, c>> \in drawn
    /\ \A p, q \in Person, c \in Code :
        <<p, c>> \in drawn /\ <<q, c>> \in drawn => p = q \/ c \in loose

IssueInv == KeptFor /\ OwnersOnly

LinkInv ==
    /\ pc["ice"] \in {"upsert", "write", "forget"} =>
        /\ <<job["ice"].hash, job["ice"].code>> \in seen
        /\ job["ice"].hash = job["ice"].steam \/ job["ice"].code \in loose
    /\ NobodyIsMislinked

\* A code is kept with the player it was drawn for.
LEMMA KeptForStep == TypeOK /\ KeptFor /\ [Next]_vars => KeptFor'
<1> SUFFICES ASSUME TypeOK, KeptFor, [Next]_vars PROVE KeptFor'
  OBVIOUS
<1> USE VerificationAssumption DEF Goto, Return, Raise, code, file, Forget, TypeOK, ThreadTypeOK, StoreTypeOK, Working, Thread, ThreadStates, TickStates, IceStates, Someone, Entry, NoEntry, NoJob, Repeat, Pending, HasCode, Expire, Show, KeptFor
<1>1. CASE UpdatePlayers
  BY <1>1 DEF UpdatePlayers
<1>2. CASE FetchFails
  BY <1>2 DEF FetchFails
<1>3. CASE EndPoll
  BY <1>3 DEF EndPoll
<1>4. CASE LoadIdentity
  BY <1>4 DEF LoadIdentity
<1>5. CASE NoFallback
  BY <1>5 DEF NoFallback
<1>6. ASSUME NEW p \in Person, GameCommand(p) PROVE KeptFor'
  BY <1>6 DEF GameCommand
<1>7. ASSUME NEW p \in Person, TellVerifiedFails(p) PROVE KeptFor'
  BY <1>7 DEF TellVerifiedFails
<1>8. ASSUME NEW q \in Person, SendFallback(q) PROVE KeptFor'
  BY <1>8 DEF SendFallback
<1>9. ASSUME NEW q \in Person, NEW n \in Name, AskInMumble(q, n) PROVE KeptFor'
  BY <1>9 DEF AskInMumble
<1>10. ASSUME NEW q \in Person, NEW c \in Code, TypeCode(q, c) PROVE KeptFor'
  <2>1. UNCHANGED <<repeats, drawn>>
    BY <1>10 DEF TypeCode
  <2>2. \A d \in Pending' : d \in Pending /\ pending'[d] = pending[d]
    BY <1>10 DEF TypeCode
  <2>3. CASE UNCHANGED <<pc, job>>
    BY <2>1, <2>2, <2>3
  <2>4. CASE /\ pending'[c].steam # Nobody
             /\ Goto("ice", "upsert")
             /\ job' = [job EXCEPT !["ice"] = [steam |-> pending'[c].steam, hash |-> q, code |-> c]]
    <3>1. <<pending'[c].steam, c>> \in drawn
      BY <2>2, <2>4
    <3>2. job'["ice"].steam = pending'[c].steam /\ job'["ice"].code = c
      BY <2>4
    <3>3. pc'["tick"] = pc["tick"] /\ job'["tick"] = job["tick"]
      BY <2>4
    <3>4. \A t \in Thread : HasCode(t)' => <<job'[t].steam, job'[t].code>> \in drawn
      BY <3>1, <3>2, <3>3
    <3> QED
      BY <2>1, <2>2, <3>4
  <2> QED
    BY <1>10, <2>3, <2>4 DEF TypeCode
<1>11. CASE OpenFile
  BY <1>11 DEF OpenFile
<1>12. CASE WriteFile
  BY <1>12 DEF WriteFile
<1>13. CASE ForgetCode
  BY <1>13 DEF ForgetCode
<1>14. ASSUME NEW t \in Thread, NEW c \in Code, DrawCode(t, c) PROVE KeptFor'
  <2>1. drawn \subseteq drawn' /\ <<job[t].steam, c>> \in drawn'
    BY <1>14 DEF DrawCode
  <2>2. UNCHANGED <<pending, repeats>>
    BY <1>14 DEF DrawCode
  <2>3. \A u \in Thread : HasCode(u)' => <<job'[u].steam, job'[u].code>> \in drawn'
    <3>1. pc' = [pc EXCEPT ![t] = "insert"] /\ job' = [job EXCEPT ![t].code = c]
      BY <1>14 DEF DrawCode
    <3>2. job'[t].steam = job[t].steam /\ job'[t].code = c
      BY <3>1
    <3>3. \A u \in Thread \ {t} : pc'[u] = pc[u] /\ job'[u] = job[u]
      BY <3>1
    <3> QED
      BY <2>1, <3>2, <3>3
  <2> QED
    BY <2>1, <2>2, <2>3
<1>15. ASSUME NEW t \in Thread, DrawFails(t) PROVE KeptFor'
  BY <1>15 DEF DrawFails
<1>16. ASSUME NEW t \in Thread, InsertCode(t) PROVE KeptFor'
  BY <1>16 DEF InsertCode
<1>17. ASSUME NEW t \in Thread, SendCode(t) PROVE KeptFor'
  <2>1. UNCHANGED <<pending, drawn>>
    BY <1>17 DEF SendCode
  <2>2. <<job[t].steam, job[t].code>> \in drawn
    BY <1>17 DEF SendCode
  <2>3. repeats' = repeats \cup {[steam |-> job[t].steam, code |-> job[t].code, checked |-> FALSE]}
    BY <1>17 DEF SendCode
  <2> DEFINE new == [steam |-> job[t].steam, code |-> job[t].code, checked |-> FALSE]
  <2>6. \A r \in repeats' : r \in repeats \/ r = new
    BY <2>3
  <2>7. new.steam = job[t].steam /\ new.code = job[t].code
    OBVIOUS
  <2> HIDE DEF new
  <2>4. \A r \in repeats' : <<r.steam, r.code>> \in drawn
    BY <2>2, <2>6, <2>7
  <2>5. \A u \in Thread : HasCode(u)' => HasCode(u) /\ job'[u] = job[u]
    BY <1>17 DEF SendCode
  <2> QED
    BY <2>1, <2>4, <2>5
<1>18. ASSUME NEW t \in Thread, SendCodeFails(t) PROVE KeptFor'
  BY <1>18 DEF SendCodeFails
<1>19. ASSUME NEW r \in Repeat, CheckRepeat(r) PROVE KeptFor'
  BY <1>19 DEF CheckRepeat
<1>20. ASSUME NEW r \in Repeat, RepeatCode(r) PROVE KeptFor'
  BY <1>20 DEF RepeatCode
<1>21. ASSUME NEW r \in Repeat, EndRepeat(r) PROVE KeptFor'
  BY <1>21 DEF EndRepeat
<1>22. CASE Killed
  BY <1>22 DEF Killed
<1>23. CASE Restart
  BY <1>23 DEF Restart
<1>24. CASE UNCHANGED vars
  BY <1>24 DEF vars
<1>25. CASE UpsertFails
  BY <1>25 DEF UpsertFails
<1> QED
  BY <1>1, <1>2, <1>3, <1>4, <1>5, <1>6, <1>7, <1>8, <1>9, <1>10, <1>11, <1>12,
     <1>13, <1>14, <1>15, <1>16, <1>17, <1>18, <1>19, <1>20, <1>21, <1>22, <1>23, <1>24, <1>25
     DEF Next, TickStep, IceStep, IssueStep, RepeatStep

\* A code that is not loose is shown to the player it was drawn for.
LEMMA OwnersStep == TypeOK /\ IssueInv /\ [Next]_vars => OwnersOnly'
<1> SUFFICES ASSUME TypeOK, IssueInv, [Next]_vars PROVE OwnersOnly'
  OBVIOUS
<1> USE VerificationAssumption DEF Goto, Return, Raise, code, file, Forget, TypeOK, ThreadTypeOK, StoreTypeOK, Working, Thread, ThreadStates, TickStates, IceStates, Someone, Entry, NoEntry, NoJob, Repeat, Pending, HasCode, Expire, Show, IssueInv, KeptFor, OwnersOnly
<1>1. CASE UpdatePlayers
  BY <1>1 DEF UpdatePlayers
<1>2. CASE FetchFails
  BY <1>2 DEF FetchFails
<1>3. CASE EndPoll
  BY <1>3 DEF EndPoll
<1>4. CASE LoadIdentity
  BY <1>4 DEF LoadIdentity
<1>5. CASE NoFallback
  BY <1>5 DEF NoFallback
<1>6. ASSUME NEW p \in Person, GameCommand(p) PROVE OwnersOnly'
  BY <1>6 DEF GameCommand
<1>7. ASSUME NEW p \in Person, TellVerifiedFails(p) PROVE OwnersOnly'
  BY <1>7 DEF TellVerifiedFails
<1>8. ASSUME NEW q \in Person, SendFallback(q) PROVE OwnersOnly'
  <2>1. <<job["tick"].steam, job["tick"].code>> \in drawn
    BY <1>8 DEF SendFallback
  <2>2. UNCHANGED drawn /\ loose \subseteq loose'
    BY <1>8 DEF SendFallback
  <2>3. q = job["tick"].steam \/ job["tick"].code \in loose'
    BY <1>8 DEF SendFallback
  <2>4. seen' \subseteq seen \cup {<<q, job["tick"].code>>}
    BY <1>8 DEF SendFallback
  <2>5. ASSUME NEW p \in Person, NEW c \in Code, <<p, c>> \in seen'
        PROVE  c \in loose' \/ <<p, c>> \in drawn
    <3>1. CASE <<p, c>> \in seen
      BY <2>2, <3>1
    <3>2. CASE p = q /\ c = job["tick"].code
      BY <2>1, <2>3, <3>2
    <3> QED
      BY <2>4, <2>5, <3>1, <3>2
  <2> QED
    BY <2>2, <2>5
<1>9. ASSUME NEW q \in Person, NEW n \in Name, AskInMumble(q, n) PROVE OwnersOnly'
  BY <1>9 DEF AskInMumble
<1>10. ASSUME NEW q \in Person, NEW c \in Code, TypeCode(q, c) PROVE OwnersOnly'
  BY <1>10 DEF TypeCode
<1>11. CASE OpenFile
  BY <1>11 DEF OpenFile
<1>12. CASE WriteFile
  BY <1>12 DEF WriteFile
<1>13. CASE ForgetCode
  BY <1>13 DEF ForgetCode
<1>14. ASSUME NEW t \in Thread, NEW c \in Code, DrawCode(t, c) PROVE OwnersOnly'
  <2>1. drawn' = drawn \cup {<<job[t].steam, c>>} /\ loose' = loose \cup ({c} \cap Drawn) /\ seen' = seen
    BY <1>14 DEF DrawCode
  <2>2. ASSUME NEW p \in Person, NEW q \in Person, NEW d \in Code,
               <<p, d>> \in drawn', <<q, d>> \in drawn', p # q
        PROVE  d \in loose'
    <3>1. CASE <<p, d>> \in drawn /\ <<q, d>> \in drawn
      BY <2>1, <2>2, <3>1
    <3>2. CASE <<p, d>> \notin drawn \/ <<q, d>> \notin drawn
      <4>1. d = c /\ d \in Drawn
        BY <2>1, <2>2, <3>2 DEF Drawn
      <4> QED
        BY <2>1, <4>1
    <3> QED
      BY <3>1, <3>2
  <2>3. \A p \in Person, d \in Code : <<p, d>> \in seen' => d \in loose' \/ <<p, d>> \in drawn'
    BY <2>1
  <2> QED
    BY <2>2, <2>3
<1>15. ASSUME NEW t \in Thread, DrawFails(t) PROVE OwnersOnly'
  BY <1>15 DEF DrawFails
<1>16. ASSUME NEW t \in Thread, InsertCode(t) PROVE OwnersOnly'
  BY <1>16 DEF InsertCode
<1>17. ASSUME NEW t \in Thread, SendCode(t) PROVE OwnersOnly'
  BY <1>17 DEF SendCode
<1>18. ASSUME NEW t \in Thread, SendCodeFails(t) PROVE OwnersOnly'
  BY <1>18 DEF SendCodeFails
<1>19. ASSUME NEW r \in Repeat, CheckRepeat(r) PROVE OwnersOnly'
  BY <1>19 DEF CheckRepeat
<1>20. ASSUME NEW r \in Repeat, RepeatCode(r) PROVE OwnersOnly'
  BY <1>20 DEF RepeatCode
<1>21. ASSUME NEW r \in Repeat, EndRepeat(r) PROVE OwnersOnly'
  BY <1>21 DEF EndRepeat
<1>22. CASE Killed
  BY <1>22 DEF Killed
<1>23. CASE Restart
  BY <1>23 DEF Restart
<1>24. CASE UNCHANGED vars
  BY <1>24 DEF vars
<1>25. CASE UpsertFails
  BY <1>25 DEF UpsertFails
<1> QED
  BY <1>1, <1>2, <1>3, <1>4, <1>5, <1>6, <1>7, <1>8, <1>9, <1>10, <1>11, <1>12,
     <1>13, <1>14, <1>15, <1>16, <1>17, <1>18, <1>19, <1>20, <1>21, <1>22, <1>23, <1>24, <1>25
     DEF Next, TickStep, IceStep, IssueStep, RepeatStep

\* A link is written for who typed the code, who is the player but for a loose
\* code.
LEMMA LinkStep == TypeOK /\ OneRowPerSteamId /\ IssueInv /\ LinkInv /\ [Next]_vars => LinkInv'
<1> SUFFICES ASSUME TypeOK, OneRowPerSteamId, IssueInv, LinkInv, [Next]_vars PROVE LinkInv'
  OBVIOUS
<1> USE VerificationAssumption DEF Goto, Return, Raise, code, file, Forget, TypeOK, ThreadTypeOK, StoreTypeOK, Thread, ThreadStates, Entry, NoEntry, NoJob, Expire, Show, LinkInv, NobodyIsMislinked, Astray
<1>1. CASE UpdatePlayers
  BY <1>1 DEF UpdatePlayers
<1>2. CASE FetchFails
  BY <1>2 DEF FetchFails
<1>3. CASE EndPoll
  BY <1>3 DEF EndPoll
<1>4. CASE LoadIdentity
  BY <1>4 DEF LoadIdentity
<1>5. CASE NoFallback
  BY <1>5 DEF NoFallback
<1>6. ASSUME NEW p \in Person, GameCommand(p) PROVE LinkInv'
  BY <1>6 DEF GameCommand
<1>7. ASSUME NEW p \in Person, TellVerifiedFails(p) PROVE LinkInv'
  BY <1>7 DEF TellVerifiedFails
<1>8. ASSUME NEW q \in Person, SendFallback(q) PROVE LinkInv'
  <2>1. seen \subseteq seen' /\ loose \subseteq loose' /\ UNCHANGED <<rows, drawn>>
    BY <1>8 DEF SendFallback
  <2>2. NobodyIsMislinked'
    BY <2>1
  <2>3. pc'["ice"] \in {"upsert", "write", "forget"} => pc'["ice"] = pc["ice"] /\ job'["ice"] = job["ice"]
    BY <1>8 DEF SendFallback
  <2> QED
    BY <2>1, <2>2, <2>3
<1>9. ASSUME NEW q \in Person, NEW n \in Name, AskInMumble(q, n) PROVE LinkInv'
  BY <1>9 DEF AskInMumble
<1>10. ASSUME NEW q \in Person, NEW c \in Code, TypeCode(q, c) PROVE LinkInv'
  <2>1. CASE UNCHANGED <<pc, job>>
    BY <1>10, <2>1 DEF TypeCode
  <2>2. CASE /\ pending'[c].steam # Nobody
             /\ Goto("ice", "upsert")
             /\ job' = [job EXCEPT !["ice"] = [steam |-> pending'[c].steam, hash |-> q, code |-> c]]
    <3>1. UNCHANGED <<rows, drawn, loose, seen>> /\ <<q, c>> \in seen
      BY <1>10 DEF TypeCode
    <3>2. c \in Pending /\ pending'[c].steam = pending[c].steam
      BY <1>10, <2>2 DEF TypeCode, Pending
    <3>3. pending[c].steam \in Person /\ <<pending[c].steam, c>> \in drawn
      BY <3>2 DEF IssueInv, KeptFor, Pending, Someone
    <3>4. q = pending[c].steam \/ c \in loose
      BY <3>1, <3>3 DEF IssueInv, OwnersOnly
    <3>5. job'["ice"].hash = q /\ job'["ice"].steam = pending[c].steam /\ job'["ice"].code = c
      BY <2>2, <3>2
    <3> QED
      BY <3>1, <3>4, <3>5
  <2> QED
    BY <1>10, <2>1, <2>2 DEF TypeCode
<1>11. CASE OpenFile
  BY <1>11 DEF OpenFile
<1>12. CASE WriteFile
  <2>1. PICK p, q \in Person : \E old \in SUBSET rows :
            /\ p = job["ice"].steam /\ q = job["ice"].hash
            /\ rows' = (rows \ old) \cup {Link(p, q)}
    BY <1>12, UpsertRows
  <2>2. Link(p, q).steam = p /\ Link(p, q).hash = q
    BY DEF Link
  <2>3. UNCHANGED <<job, drawn, loose, seen>>
    BY <1>12 DEF WriteFile
  <2>4. <<p, job["ice"].code>> \in drawn /\ job["ice"].code \in Code
    BY <1>12, <2>1 DEF WriteFile, IssueInv, KeptFor, HasCode, Working
  <2>5. <<q, job["ice"].code>> \in seen /\ (q = p \/ job["ice"].code \in loose)
    BY <1>12, <2>1 DEF WriteFile
  <2>6. p = q \/ Astray(p, q)
    BY <2>4, <2>5
  <2>7. \A r \in rows' : r.hash = r.steam \/ Astray(r.steam, r.hash)
    BY <2>1, <2>2, <2>6
  <2>8. NobodyIsMislinked'
    BY <2>3, <2>7
  <2> QED
    BY <1>12, <2>3, <2>8 DEF WriteFile
<1>13. CASE ForgetCode
  BY <1>13 DEF ForgetCode
<1>14. ASSUME NEW t \in Thread, NEW c \in Code, DrawCode(t, c) PROVE LinkInv'
  <2>1. drawn \subseteq drawn' /\ loose \subseteq loose' /\ UNCHANGED <<rows, seen>>
    BY <1>14 DEF DrawCode
  <2>2. NobodyIsMislinked'
    BY <2>1
  <2>3. pc'["ice"] \in {"upsert", "write", "forget"} => pc'["ice"] = pc["ice"] /\ job'["ice"] = job["ice"]
    BY <1>14 DEF DrawCode
  <2> QED
    BY <2>1, <2>2, <2>3
<1>15. ASSUME NEW t \in Thread, DrawFails(t) PROVE LinkInv'
  BY <1>15 DEF DrawFails
<1>16. ASSUME NEW t \in Thread, InsertCode(t) PROVE LinkInv'
  BY <1>16 DEF InsertCode
<1>17. ASSUME NEW t \in Thread, SendCode(t) PROVE LinkInv'
  <2>1. seen \subseteq seen' /\ loose \subseteq loose' /\ UNCHANGED <<rows, drawn>>
    BY <1>17 DEF SendCode
  <2>2. NobodyIsMislinked'
    BY <2>1
  <2>3. pc'["ice"] \in {"upsert", "write", "forget"} => pc'["ice"] = pc["ice"] /\ job'["ice"] = job["ice"]
    BY <1>17 DEF SendCode
  <2> QED
    BY <2>1, <2>2, <2>3
<1>18. ASSUME NEW t \in Thread, SendCodeFails(t) PROVE LinkInv'
  <2>1. seen \subseteq seen' /\ loose \subseteq loose' /\ UNCHANGED <<rows, drawn>>
    BY <1>18 DEF SendCodeFails
  <2>2. NobodyIsMislinked'
    BY <2>1
  <2>3. pc'["ice"] \in {"upsert", "write", "forget"} => pc'["ice"] = pc["ice"] /\ job'["ice"] = job["ice"]
    BY <1>18 DEF SendCodeFails
  <2> QED
    BY <2>1, <2>2, <2>3
<1>19. ASSUME NEW r \in Repeat, CheckRepeat(r) PROVE LinkInv'
  BY <1>19 DEF CheckRepeat
<1>20. ASSUME NEW r \in Repeat, RepeatCode(r) PROVE LinkInv'
  <2>1. seen \subseteq seen' /\ loose \subseteq loose' /\ UNCHANGED <<rows, drawn>>
    BY <1>20 DEF RepeatCode
  <2>2. NobodyIsMislinked'
    BY <2>1
  <2>3. pc'["ice"] \in {"upsert", "write", "forget"} => pc'["ice"] = pc["ice"] /\ job'["ice"] = job["ice"]
    BY <1>20 DEF RepeatCode
  <2> QED
    BY <2>1, <2>2, <2>3
<1>21. ASSUME NEW r \in Repeat, EndRepeat(r) PROVE LinkInv'
  BY <1>21 DEF EndRepeat
<1>22. CASE Killed
  BY <1>22 DEF Killed
<1>23. CASE Restart
  BY <1>23 DEF Restart
<1>24. CASE UNCHANGED vars
  BY <1>24 DEF vars
<1>25. CASE UpsertFails
  BY <1>25 DEF UpsertFails
<1> QED
  BY <1>1, <1>2, <1>3, <1>4, <1>5, <1>6, <1>7, <1>8, <1>9, <1>10, <1>11, <1>12,
     <1>13, <1>14, <1>15, <1>16, <1>17, <1>18, <1>19, <1>20, <1>21, <1>22, <1>23, <1>24, <1>25
     DEF Next, TickStep, IceStep, IssueStep, RepeatStep

\* The initial state satisfies them.
LEMMA IssueInit == Init => IssueInv /\ LinkInv
<1> SUFFICES ASSUME Init PROVE IssueInv /\ LinkInv
  OBVIOUS
<1>1. KeptFor
  BY DEF Init, KeptFor, Pending, NoEntry, HasCode, Working, Thread
<1>2. OwnersOnly
  BY DEF Init, OwnersOnly
<1>3. \A r \in rows : r.steam = r.hash
  BY DEF Init, Link
<1>4. pc["ice"] = "idle"
  BY DEF Init, Thread
<1> QED
  BY <1>1, <1>2, <1>3, <1>4 DEF IssueInv, LinkInv, NobodyIsMislinked

\* The three invariants hold together.
LEMMA LinksInvariant == Spec => [](TypeOK /\ OneRowPerSteamId /\ KeptInv /\ IssueInv /\ LinkInv)
<1>1. TypeOK /\ IssueInv /\ [Next]_vars => IssueInv'
  BY KeptForStep, OwnersStep DEF IssueInv
<1> QED
  BY <1>1, IssueInit, LinkStep, KeptInit, KeptStep, TypeCorrect, UniqueRows, PTL DEF Spec

\* Nobody is linked to another person's Mumble hash, unless a code of theirs was
\* drawn twice, or sent to a Mumble user of their name, and shown to that person.
THEOREM TrueLinks == Spec => []NobodyIsMislinked
<1>1. LinkInv => NobodyIsMislinked
  BY DEF LinkInv
<1> QED
  BY <1>1, LinksInvariant, PTL

\* The row of a player without a namesake never changes, unless one of their
\* codes went astray: each write of the file keeps the other links.
THEOREM AddedLinks == Spec => LinksAreAdded
<1>1. TypeOK /\ OneRowPerSteamId /\ KeptInv /\ IssueInv /\ LinkInv /\ [Next]_vars =>
          [\A r \in rows \ rows' : HasNamesake(r.steam) \/ \E c \in loose : <<r.steam, c>> \in drawn]_rows
  <2> SUFFICES ASSUME TypeOK, OneRowPerSteamId, KeptInv, IssueInv, LinkInv, WriteFile
               PROVE  \A r \in rows \ rows' :
                          HasNamesake(r.steam) \/ \E c \in loose : <<r.steam, c>> \in drawn
    BY FileFrame
  <2>1. PICK p, q \in Person : \E old \in SUBSET rows :
            /\ p = job["ice"].steam /\ q = job["ice"].hash
            /\ rows' = (rows \ old) \cup {Link(p, q)}
            /\ \A r \in old : r.steam = p \/ r.name = GameName[p]
    BY UpsertRows
  <2>2. PICK old \in SUBSET rows :
            /\ rows' = (rows \ old) \cup {Link(p, q)}
            /\ \A r \in old : r.steam = p \/ r.name = GameName[p]
    BY <2>1
  <2>3. <<p, job["ice"].code>> \in drawn /\ (p = q \/ job["ice"].code \in loose)
    BY <2>1 DEF LinkInv, WriteFile, IssueInv, KeptFor, HasCode, Working, Thread
  <2>4. ASSUME NEW r \in old, r # Link(p, q), ~HasNamesake(r.steam)
        PROVE  \E c \in loose : <<r.steam, c>> \in drawn
    <3>1. r \in Row /\ r.name = GameName[r.steam]
      BY DEF TypeOK, StoreTypeOK, KeptInv
    <3>2. r.steam = p
      BY <2>2, <2>4, <3>1 DEF HasNamesake, Row
    <3>3. r.hash # q
      BY <2>4, <3>1, <3>2 DEF Row, Link
    <3>4. CASE p = q
      BY <3>2, <3>3, <3>4 DEF LinkInv, NobodyIsMislinked, Astray
    <3>5. CASE p # q
      BY <2>3, <3>2, <3>5
    <3> QED
      BY <3>4, <3>5
  <2> QED
    BY <2>2, <2>4
<1> QED
  BY <1>1, LinksInvariant, PTL DEF Spec, LinksAreAdded

================================================================================
