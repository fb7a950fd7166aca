------------------------------ MODULE Verification ------------------------------
(***************************************************************************)
(* Linking game players to Mumble users, bridge/exile_bridge/              *)
(* verification.py, with the part of Bridge.tick that drives it.  A player *)
(* asks for a code in game chat (read by the bridge's main thread, "tick") *)
(* or in Mumble (a callback in Ice's dispatch thread, "ice"), is sent it   *)
(* in game over RCON, and types it in Mumble; the bridge then writes the   *)
(* link to the identity map file.  One daemon thread per code repeats it.  *)
(* The lock is held for single accesses to the dictionary of pending       *)
(* codes only; each step below is one such access, one RCON exchange, or   *)
(* one access to the file.                                                 *)
(*                                                                         *)
(* A person stands for their Steam ID and for their certificate hash.      *)
(* People type the codes they were shown.  Messages the bridge refuses     *)
(* without a look at its dictionaries change nothing and are left out: no  *)
(* certificate hash, or no plugin connected.                               *)
(***************************************************************************)
EXTENDS Naturals

CONSTANTS
    Person,
    Name,        \* names, in lower case
    GameName,    \* each person's name in the game
    MumbleName,  \* and in Mumble
    Nobody,
    Code,        \* six-digit codes
    Fallback,    \* game_code_mumble_fallback
    MaxDraws,    \* bound on the codes drawn
    MaxKills     \* bound on abrupt ends of the bridge process

ASSUME VerificationAssumption ==
    /\ GameName \in [Person -> Name] /\ MumbleName \in [Person -> Name]
    /\ Nobody \notin Person
    /\ Fallback \in BOOLEAN /\ MaxDraws \in Nat /\ MaxKills \in Nat

VARIABLES
    pc,          \* where the two threads are
    job,         \* their local variables: the player, the Mumble user, the code
    byName,      \* _players_by_name
    pending,     \* _pending: for each code the player and the Mumble user it is for
    repeats,     \* the repeater threads
    rows,        \* the links in the identity map file, as last written
    torn,        \* the file is truncated and not yet written
    drawn,       \* history: the codes drawn so far, and for whom
    draws,       \* and how many they were
    loose,       \* history: the codes drawn twice, or sent to a namesake
    seen,        \* the codes each person was shown
    linked,      \* the people who were told that they are linked
    kills

code == <<pending, drawn, draws, loose, seen>>
file == <<rows, torn, linked>>
vars == <<pc, job, byName, code, repeats, file, kills>>

Thread == {"tick", "ice"}
TickStates == {"idle", "poll", "load", "pick", "insert", "send", "fallback", "down"}
IceStates == {"idle", "pick", "insert", "send", "upsert", "write", "forget"}
ThreadStates == TickStates \cup IceStates
\* The thread works on a command.
Working == {"pick", "insert", "send", "fallback", "upsert", "write", "forget"}
Someone == Person \cup {Nobody}
\* steam = Nobody: the code is not pending.  hash = Nobody: for any Mumble user.
Entry == [steam : Someone, hash : Someone]
NoEntry == [steam |-> Nobody, hash |-> Nobody]
\* code is in Code, or Nobody while the thread has none.
NoJob == [steam |-> Nobody, hash |-> Nobody, code |-> Nobody]
Row == [steam : Person, name : Name, hash : Person]
Link(p, q) == [steam |-> p, name |-> GameName[p], hash |-> q]
Repeat == [steam : Person, code : Code, checked : BOOLEAN]

Pending == {c \in Code : pending[c].steam # Nobody}
Drawn == {c \in Code : \E p \in Person : <<p, c>> \in drawn}

\* The file may list people who were linked before.
Init ==
    /\ pc = [t \in Thread |-> "idle"]
    /\ job = [t \in Thread |-> NoJob]
    /\ byName = [n \in Name |-> Nobody]
    /\ pending = [c \in Code |-> NoEntry]
    /\ repeats = {}
    /\ \E S \in SUBSET Person : rows = {Link(p, p) : p \in S} /\ linked = S
    /\ torn = FALSE
    /\ drawn = {} /\ draws = 0 /\ loose = {} /\ seen = {} /\ kills = 0

Goto(t, to) == pc' = [pc EXCEPT ![t] = to]
\* The thread is done with a command: tick goes on polling, ice returns.
Return(t) ==
    /\ Goto(t, IF t = "tick" THEN "poll" ELSE "idle")
    /\ job' = [job EXCEPT ![t] = NoJob]
\* An exception leaves the command: it ends Bridge.run, but not Ice's thread.
Raise(t) ==
    /\ Goto(t, IF t = "tick" THEN "down" ELSE "idle")
    /\ job' = [job EXCEPT ![t] = NoJob]

\* _expire_locked: whatever is older than code_ttl_sec.
Expire ==
    \E E \in SUBSET Pending :
        pending' = [c \in Code |-> IF c \in E THEN NoEntry ELSE pending[c]]

(***************************************************************************)
(* Bridge.tick: the players, the game chat, the identity map.              *)
(***************************************************************************)
\* fetch_players and update_players.  Of players with one name the last wins.
UpdatePlayers ==
    /\ pc["tick"] = "idle"
    /\ Goto("tick", "poll")
    /\ byName' \in {f \in [Name -> Someone] : \A n \in Name :
                        f[n] # Nobody => GameName[f[n]] = n}
    /\ Expire
    /\ UNCHANGED <<job, repeats, drawn, draws, loose, seen, file, kills>>

\* RCON does not answer.
FetchFails ==
    /\ pc["tick"] = "idle"
    /\ Goto("tick", "down")
    /\ UNCHANGED <<job, byName, code, repeats, file, kills>>

\* _is_already_verified: not if the file cannot be read.
IsVerified(p) == ~torn /\ \E r \in rows : r.steam = p

\* handle_game_chat_message, for each !verify in the new lines of the log.
GameCommand(p) ==
    /\ pc["tick"] = "poll" /\ ~IsVerified(p)
    /\ Goto("tick", "pick")
    /\ job' = [job EXCEPT !["tick"] = [NoJob EXCEPT !.steam = p]]
    /\ UNCHANGED <<byName, code, repeats, file, kills>>

\* The RCON exchange that tells a player that they are verified raises.
TellVerifiedFails(p) ==
    /\ pc["tick"] = "poll" /\ IsVerified(p)
    /\ Goto("tick", "down")
    /\ UNCHANGED <<job, byName, code, repeats, file, kills>>

EndPoll ==
    /\ pc["tick"] = "poll"
    /\ Goto("tick", "load")
    /\ UNCHANGED <<job, byName, code, repeats, file, kills>>

\* IdentityMap.load raises JSONDecodeError for a file that is being written.
LoadIdentity ==
    /\ pc["tick"] = "load"
    /\ Goto("tick", IF torn THEN "down" ELSE "idle")
    /\ UNCHANGED <<job, byName, code, repeats, file, kills>>

(***************************************************************************)
(* handle_mumble_message: !verify NAME and !verify CODE.                   *)
(***************************************************************************)
\* Wrong on purpose: nobody checks that a player has the name.
AskForAnyone(q, n) ==
    /\ pc["ice"] = "idle" /\ pc["tick"] # "down"
    /\ Expire
    /\ Goto("ice", "pick")
    /\ job' = [job EXCEPT !["ice"] = [NoJob EXCEPT !.steam = byName[n], !.hash = q]]
    /\ UNCHANGED <<byName, repeats, drawn, draws, loose, seen, file, kills>>

\* _issue_code.
AskInMumble(q, n) ==
    /\ pc["ice"] = "idle" /\ pc["tick"] # "down"
    /\ Expire
    /\ IF byName[n] # Nobody
       THEN /\ Goto("ice", "pick")
            /\ job' = [job EXCEPT !["ice"] = [NoJob EXCEPT !.steam = byName[n], !.hash = q]]
       ELSE UNCHANGED <<pc, job>>
    /\ UNCHANGED <<byName, repeats, drawn, draws, loose, seen, file, kills>>

\* The first part of _complete_code: wrong, expired and others' codes are
\* refused.
TypeCode(q, c) ==
    /\ pc["ice"] = "idle" /\ pc["tick"] # "down"
    /\ <<q, c>> \in seen
    /\ Expire
    /\ IF pending'[c].steam # Nobody /\ pending'[c].hash \in {Nobody, q}
       THEN /\ Goto("ice", "upsert")
            /\ job' = [job EXCEPT !["ice"] =
                          [steam |-> pending'[c].steam, hash |-> q, code |-> c]]
       ELSE UNCHANGED <<pc, job>>
    /\ UNCHANGED <<byName, repeats, drawn, draws, loose, seen, file, kills>>

\* upsert_identity_mapping reads the file and opens it for writing, which
\* empties it,
OpenFile ==
    /\ pc["ice"] = "upsert" /\ ~torn
    /\ Goto("ice", "write")
    /\ torn' = TRUE
    /\ UNCHANGED <<job, byName, code, repeats, rows, linked, kills>>

\* Wrong on purpose: a row is added whatever the file holds,
AppendRow(p, q) == rows' = rows \cup {Link(p, q)}

\* or the file starts over,
StartOver(p, q) == rows' = {Link(p, q)}

\* or the row of whoever has the Mumble user's name in the game is replaced.
UpsertByMumbleName(p, q) ==
    rows' = {r \in rows : r.steam # p /\ r.name # MumbleName[q]} \cup {Link(p, q)}

\* and writes all rows: a row with the player's Steam ID is overwritten, or
\* else one with their game name, or else one is added.
Upsert(p, q) ==
    LET own == {r \in rows : r.steam = p}
        named == {r \in rows : r.name = GameName[p]}
        replaceable == IF own # {} THEN own ELSE named
    IN  IF replaceable = {}
        THEN rows' = rows \cup {Link(p, q)}
        ELSE \E r \in replaceable : rows' = (rows \ {r}) \cup {Link(p, q)}

WriteFile ==
    /\ pc["ice"] = "write"
    /\ Goto("ice", "forget")
    /\ Upsert(job["ice"].steam, job["ice"].hash)
    /\ torn' = FALSE
    /\ UNCHANGED <<job, byName, code, repeats, linked, kills>>

\* Or it raises: a torn file cannot be read, nor, on a full disk or without
\* the permission, the file be opened or written; if it was opened, it stays
\* torn.  Ice's callback drops the exception, the code stays pending.
UpsertFails ==
    /\ pc["ice"] \in {"upsert", "write"}
    /\ Raise("ice")
    /\ UNCHANGED <<byName, code, repeats, file, kills>>

\* Wrong on purpose: the code stays pending until it expires.
KeepCode ==
    /\ pc["ice"] = "forget"
    /\ Return("ice")
    /\ linked' = linked \cup {job["ice"].steam}
    /\ UNCHANGED <<byName, code, repeats, rows, torn, kills>>

\* The rest of _complete_code: the code is used, and the user is told.
ForgetCode ==
    /\ pc["ice"] = "forget"
    /\ Return("ice")
    /\ pending' = [pending EXCEPT ![job["ice"].code] = NoEntry]
    /\ linked' = linked \cup {job["ice"].steam}
    /\ UNCHANGED <<byName, repeats, rows, torn, drawn, draws, loose, seen, kills>>

(***************************************************************************)
(* _issue_code_for_player, in either thread.                               *)
(***************************************************************************)
\* _new_code: a code that is not pending, drawn before or not.
DrawCode(t, c) ==
    /\ pc[t] = "pick" /\ c \notin Pending /\ draws < MaxDraws
    /\ Goto(t, "insert")
    /\ job' = [job EXCEPT ![t].code = c]
    /\ drawn' = drawn \cup {<<job[t].steam, c>>} /\ draws' = draws + 1
    /\ loose' = loose \cup ({c} \cap Drawn)
    /\ UNCHANGED <<byName, pending, repeats, seen, file, kills>>

\* Twenty codes in a row that are pending already.
DrawFails(t) ==
    /\ pc[t] = "pick" /\ Pending # {}
    /\ Raise(t)
    /\ UNCHANGED <<byName, code, repeats, file, kills>>

InsertCode(t) ==
    /\ pc[t] = "insert"
    /\ Goto(t, "send")
    /\ pending' = [pending EXCEPT ![job[t].code] = [steam |-> job[t].steam, hash |-> job[t].hash]]
    /\ UNCHANGED <<job, byName, repeats, drawn, draws, loose, seen, file, kills>>

\* The player may have left the game.
Show(p, c) == seen' \in {seen, seen \cup {<<p, c>>}}

\* Wrong on purpose: the message is addressed by the player's name.
SendCodeByName(t) ==
    /\ pc[t] = "send"
    /\ \E p \in Person : GameName[p] = GameName[job[t].steam] /\ Show(p, job[t].code)
    /\ repeats' = repeats \cup {[steam |-> job[t].steam, code |-> job[t].code, checked |-> FALSE]}
    /\ IF t = "tick" /\ Fallback
       THEN Goto(t, "fallback") /\ UNCHANGED job
       ELSE Return(t)
    /\ UNCHANGED <<byName, pending, drawn, draws, loose, file, kills>>

SendCode(t) ==
    /\ pc[t] = "send"
    /\ Show(job[t].steam, job[t].code)
    /\ repeats' = repeats \cup {[steam |-> job[t].steam, code |-> job[t].code, checked |-> FALSE]}
    /\ IF t = "tick" /\ Fallback
       THEN Goto(t, "fallback") /\ UNCHANGED job
       ELSE Return(t)
    /\ UNCHANGED <<byName, pending, drawn, draws, loose, file, kills>>

\* RCON raises, before or after the game got the message.
SendCodeFails(t) ==
    /\ pc[t] = "send"
    /\ Show(job[t].steam, job[t].code)
    /\ pending' = [pending EXCEPT ![job[t].code] = NoEntry]
    /\ Return(t)
    /\ UNCHANGED <<byName, repeats, drawn, draws, loose, file, kills>>

\* _send_code_to_matching_mumble_user: the only user of that name, if any.
SendFallback(q) ==
    /\ pc["tick"] = "fallback"
    /\ MumbleName[q] = GameName[job["tick"].steam]
    /\ Show(q, job["tick"].code)
    /\ loose' = IF q = job["tick"].steam THEN loose ELSE loose \cup {job["tick"].code}
    /\ Return("tick")
    /\ UNCHANGED <<byName, pending, drawn, draws, repeats, file, kills>>

NoFallback ==
    /\ pc["tick"] = "fallback"
    /\ Return("tick")
    /\ UNCHANGED <<byName, code, repeats, file, kills>>

(***************************************************************************)
(* _start_game_message_repeater.                                           *)
(***************************************************************************)
\* Under the lock: is the code still pending, for whomever?
CheckRepeat(r) ==
    /\ r \in repeats /\ ~r.checked
    /\ repeats' = (repeats \ {r}) \cup
           (IF r.code \in Pending THEN {[r EXCEPT !.checked = TRUE]} ELSE {})
    /\ UNCHANGED <<pc, job, byName, code, file, kills>>

\* Without it: show the code again.
RepeatCode(r) ==
    /\ r \in repeats /\ r.checked
    /\ Show(r.steam, r.code)
    /\ repeats' = (repeats \ {r}) \cup {[r EXCEPT !.checked = FALSE]}
    /\ UNCHANGED <<pc, job, byName, pending, drawn, draws, loose, file, kills>>

\* RCON raised, or game_code_display_sec are over.
EndRepeat(r) ==
    /\ r \in repeats
    /\ repeats' = repeats \ {r}
    /\ UNCHANGED <<pc, job, byName, code, file, kills>>

(***************************************************************************)
(* The end of the process, and systemd's Restart=always.                   *)
(***************************************************************************)
\* Only the file survives the process.
Forget ==
    /\ job' = [t \in Thread |-> NoJob]
    /\ byName' = [n \in Name |-> Nobody]
    /\ pending' = [c \in Code |-> NoEntry]
    /\ repeats' = {}

Killed ==
    /\ kills < MaxKills
    /\ kills' = kills + 1
    /\ pc' = [t \in Thread |-> IF t = "tick" THEN "down" ELSE "idle"]
    /\ Forget
    /\ UNCHANGED <<drawn, draws, loose, seen, file>>

\* verifier.stop waits for Ice's thread.  Bridge.__init__ loads the file,
\* which fails for ever if it was left torn.
Restart ==
    /\ pc["tick"] = "down" /\ pc["ice"] = "idle" /\ ~torn
    /\ Goto("tick", "idle")
    /\ Forget
    /\ UNCHANGED <<drawn, draws, loose, seen, file, kills>>

--------------------------------------------------------------------------------
TickStep ==
    \/ UpdatePlayers \/ FetchFails \/ EndPoll \/ LoadIdentity \/ NoFallback
    \/ \E p \in Person : GameCommand(p) \/ TellVerifiedFails(p) \/ SendFallback(p)

IceStep ==
    \/ \E q \in Person : (\E n \in Name : AskInMumble(q, n)) \/ (\E c \in Code : TypeCode(q, c))
    \/ OpenFile \/ WriteFile \/ UpsertFails \/ ForgetCode

IssueStep(t) ==
    \/ \E c \in Code : DrawCode(t, c)
    \/ DrawFails(t) \/ InsertCode(t) \/ SendCode(t) \/ SendCodeFails(t)

RepeatStep == \E r \in Repeat : CheckRepeat(r) \/ RepeatCode(r) \/ EndRepeat(r)

Next ==
    \/ TickStep \/ IceStep \/ RepeatStep \/ Killed \/ Restart
    \/ \E t \in Thread : IssueStep(t)

Spec == Init /\ [][Next]_vars

--------------------------------------------------------------------------------
(***************************************************************************)
(* Properties.                                                             *)
(***************************************************************************)
ThreadTypeOK ==
    /\ pc \in [Thread -> ThreadStates]
    /\ pc["tick"] \in TickStates /\ pc["ice"] \in IceStates
    /\ job \in [Thread -> [steam : Someone, hash : Someone, code : Code \cup {Nobody}]]
    /\ \A t \in Thread :
        /\ pc[t] \in Working => job[t].steam \in Person
        /\ pc[t] \in Working \ {"pick"} => job[t].code \in Code
    /\ pc["ice"] \in {"upsert", "write", "forget"} => job["ice"].hash \in Person

StoreTypeOK ==
    /\ byName \in [Name -> Someone]
    /\ pending \in [Code -> Entry]
    /\ repeats \subseteq Repeat
    /\ rows \subseteq Row /\ torn \in BOOLEAN
    /\ drawn \subseteq Person \X Code /\ seen \subseteq Person \X Code
    /\ loose \subseteq Code
    /\ linked \subseteq Person /\ draws \in Nat /\ kills \in Nat

\* Types; a thread that works on a code has a player and, from the time it
\* drew one, the code.
TypeOK == ThreadTypeOK /\ StoreTypeOK

\* A code of p went astray to q: it was drawn twice, or sent in Mumble to a
\* user of p's game name, and q was shown it.
Astray(p, q) == \E c \in loose : <<p, c>> \in drawn /\ <<q, c>> \in seen

\* Nobody is linked to another person's Mumble hash, whatever they ask for
\* under whatever name, in two threads at once, with codes that expire, are
\* repeated late, or outlive a restart of the bridge, unless a code of that
\* player went astray to that person.
NobodyIsMislinked == \A r \in rows : r.hash = r.steam \/ Astray(r.steam, r.hash)

\* upsert_identity_mapping and IdentityMap search the rows from opposite
\* ends: there is at most one row for each Steam ID.
OneRowPerSteamId == \A r, s \in rows : r.steam = s.steam => r = s

\* Who was told that they are linked, and shares their game name with nobody, is
\* never dropped from a file that can be read, whoever else shares names.
HasNamesake(p) == \E q \in Person \ {p} : GameName[q] = GameName[p]
LinksAreKept ==
    ~torn => \A p \in linked : HasNamesake(p) \/ \E r \in rows : r.steam = p

\* A row is never lost, nor given another hash, unless its player has a
\* namesake or was drawn a code that went astray; in particular no failed or
\* interrupted write of one link touches those of the others.
LinksAreAdded ==
    [][\A r \in rows \ rows' :
           HasNamesake(r.steam) \/ \E c \in loose : <<r.steam, c>> \in drawn]_rows

\* The codes that link nobody any more: neither pending, nor about to be, nor
\* in the hands of the user who typed them.
Spent ==
    Drawn \ ({c \in Pending : ~(pc["ice"] = "forget" /\ job["ice"].code = c)}
             \cup {job[t].code : t \in {u \in Thread : pc[u] \in {"insert", "upsert", "write"}}})

Ledger == INSTANCE LinkLedger WITH
    issued <- drawn,
    told <- seen,
    spent <- Spent \cup loose,
    links <- {<<r.steam, r.hash>> : r \in rows},
    announced <- linked

\* The threads, the dictionaries and the file implement that ledger: a code
\* proves who typed it, once, unless it is loose, however expiries, repeaters,
\* failed sends and writes, and the ends of the process fall between the steps
\* of the threads.
LinksAreEarned == Ledger!Spec

--------------------------------------------------------------------------------
(***************************************************************************)
(* What the documents say and the code does not do.                        *)
(***************************************************************************)
\* bridge/docs/CONFIGURATION.md: the identity map file is where "verified
\* Steam IDs are mapped".  Whenever the bridge loads it, it is whole and
\* lists everyone who was told that they are verified.
VerifiedAreMapped ==
    pc["tick"] = "load" =>
        ~torn /\ \A p \in linked : \E r \in rows : r.steam = p
================================================================================
