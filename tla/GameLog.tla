-------------------------------- MODULE GameLog --------------------------------
(***************************************************************************)
(* How the bridge follows the game's chat log: VerificationManager's       *)
(* poll_game_chat and _init_game_chat_log (verification.py).  The game     *)
(* appends to the file while the bridge reads it, rotates it when it       *)
(* likes, and the bridge keeps in memory alone how far it has read.        *)
(*                                                                         *)
(* Only lines with a !verify command matter.  Such a line is three parts   *)
(* long: the first ends inside the command, the second completes it, the   *)
(* third is the rest with the line end.  Lengths count parts.  Lines are   *)
(* numbered through all files; those of earlier files are 1..before, so    *)
(* that before also tells one file from the next.                          *)
(***************************************************************************)
EXTENDS Integers, Sequences

CONSTANT MaxLines   \* bound on the lines the game writes

ASSUME LogAssumption == MaxLines \in Nat

VARIABLES
    present,   \* the log file exists
    before,    \* the lines of earlier files
    size,      \* the length of the file
    reader,    \* "idle", "open": between stat and open, "handle", or "down"
    offset,    \* _game_log_offset
    todo,      \* the commands of the chunk not yet handled
    handled,   \* the commands handled, in order
    of,        \* the file that offset was read from, known by its before
    excused    \* commands the bridge never saw whole, or fell over

log == <<present, before, size>>
reading == <<reader, offset, todo, handled, of, excused>>
logVars == <<log, reading>>

Line == 1 .. MaxLines
Start(i) == 3 * (i - 1 - before)
Whole(i) == 3 * (i - before) - 1
\* The lines of this file, as far as a or beyond.
Begun(a) == {i \in Line : before < i /\ Start(i) < a}
Complete(a) == {i \in Line : before < i /\ Whole(i) <= a}
\* CHAT_LINE_RE finds the commands that lie in a chunk as a whole.
Commands(a, b) == {i \in Complete(b) : a <= Start(i)}
Done == {handled[k] : k \in 1 .. Len(handled)}

\* VerificationManager.start on a log that may hold lines already.
LogInit ==
    /\ present = TRUE /\ before = 0 /\ size \in 0 .. (3 * MaxLines)
    /\ reader = "idle" /\ offset = size /\ of = before
    /\ todo = {} /\ handled = << >> /\ excused = Begun(size)

(***************************************************************************)
(* The game.                                                               *)
(***************************************************************************)
\* A write may end inside a line.
AppendTo(n) ==
    /\ present /\ size < n /\ 3 * before + n <= 3 * MaxLines
    /\ size' = n
    /\ UNCHANGED <<present, before, reading>>

RemoveLog ==
    /\ present
    /\ present' = FALSE /\ size' = 0
    /\ \E n \in 0 .. MaxLines :
        /\ 3 * n - 3 < size /\ size <= 3 * n
        /\ before' = before + n
    /\ UNCHANGED reading

CreateLog ==
    /\ ~present
    /\ present' = TRUE
    /\ UNCHANGED <<before, size, reading>>

(***************************************************************************)
(* poll_game_chat.                                                         *)
(***************************************************************************)
StatFails == reader = "idle" /\ ~present /\ UNCHANGED logVars

\* Wrong on purpose: a log that did not grow is read from its beginning.
StatUnchanged ==
    /\ reader = "idle" /\ present
    /\ reader' = "open"
    /\ IF size <= offset THEN offset' = 0 /\ of' = before ELSE UNCHANGED <<offset, of>>
    /\ UNCHANGED <<log, todo, handled, excused>>

\* Wrong on purpose: the offset survives a rotation.
StatOnly ==
    /\ reader = "idle" /\ present
    /\ reader' = "open"
    /\ UNCHANGED <<log, offset, todo, handled, of, excused>>

\* A log shorter than the offset is another file.
Stat ==
    /\ reader = "idle" /\ present
    /\ reader' = "open"
    /\ IF size < offset THEN offset' = 0 /\ of' = before ELSE UNCHANGED <<offset, of>>
    /\ UNCHANGED <<log, todo, handled, excused>>

\* The log is gone by now, or cannot be read.
OpenFails ==
    /\ reader = "open"
    /\ reader' = "idle"
    /\ UNCHANGED <<log, offset, todo, handled, of, excused>>

\* Wrong on purpose: only the first command of a chunk is handled.
ReadFirst ==
    /\ reader = "open" /\ present
    /\ reader' = "handle"
    /\ todo' = {i \in Commands(offset, size) : \A j \in Commands(offset, size) : i <= j}
    /\ offset' = IF offset < size THEN size ELSE offset
    /\ of' = IF offset <= size THEN before ELSE of
    /\ excused' = excused \cup {i \in Complete(size) :
                                   /\ Start(i) < offset /\ offset <= size
                                   /\ of # before \/ offset < Whole(i)}
    /\ UNCHANGED <<log, handled>>

\* A read past the end returns nothing, and moves nothing.  Excused are commands of which an
\* earlier read took a part, and those an offset from another file skips.
Read ==
    /\ reader = "open" /\ present
    /\ reader' = "handle"
    /\ todo' = Commands(offset, size)
    /\ offset' = IF offset < size THEN size ELSE offset
    /\ of' = IF offset <= size THEN before ELSE of
    /\ excused' = excused \cup {i \in Complete(size) :
                                   /\ Start(i) < offset /\ offset <= size
                                   /\ of # before \/ offset < Whole(i)}
    /\ UNCHANGED <<log, handled>>

\* handle_game_chat_message, line by line.
Handle(i) ==
    /\ reader = "handle" /\ i \in todo /\ \A j \in todo : i <= j
    /\ todo' = todo \ {i} /\ handled' = Append(handled, i)
    /\ UNCHANGED <<log, reader, offset, of, excused>>

EndPoll ==
    /\ reader = "handle" /\ todo = {}
    /\ reader' = "idle"
    /\ UNCHANGED <<log, offset, todo, handled, of, excused>>

\* The bridge ends while it handles a command, or anywhere else: the rest of
\* the chunk is never looked at.
LogDown ==
    /\ reader # "down"
    /\ reader' = "down"
    /\ todo' = {} /\ excused' = excused \cup todo
    /\ UNCHANGED <<log, offset, handled, of>>

\* _init_game_chat_log: what is in the log by now is skipped.
LogStart ==
    /\ reader = "down"
    /\ reader' = "idle"
    /\ offset' = IF present THEN size ELSE 0
    /\ of' = before
    /\ excused' = excused \cup (Begun(size) \ Done)
    /\ UNCHANGED <<log, todo, handled>>

LogWorld == (\E n \in 1 .. 3 * MaxLines : AppendTo(n)) \/ RemoveLog \/ CreateLog
Poll ==
    \/ StatFails \/ Stat \/ (~present /\ OpenFails) \/ Read \/ EndPoll
    \/ \E i \in Line : Handle(i)

LogNext == LogWorld \/ Poll \/ OpenFails \/ LogDown \/ LogStart

LogSpec == LogInit /\ [][LogNext]_logVars

LogTypeOK ==
    /\ present \in BOOLEAN /\ before \in Nat /\ size \in Nat
    /\ reader \in {"idle", "open", "handle", "down"}
    /\ offset \in Nat /\ of \in Nat
    /\ todo \subseteq Line /\ excused \subseteq Line
    /\ handled \in Seq(Line)

(***************************************************************************)
(* Properties.                                                             *)
(***************************************************************************)
\* A command is handled at most once, and commands are handled in the order
\* in which they were typed, however the log is written, rotated or replaced
\* between stat, open and read, and however often the bridge starts anew
\* (verification.py 136-159, 504-510).
HandledOnce == \A k, l \in 1 .. Len(handled) : k < l => handled[k] < handled[l]

\* No command is passed over: what lies before the offset was handled, is
\* about to be, or is excused, and a command is excused only if no read of
\* this bridge took it whole (150-159).
NoLoss ==
    of = before => Complete(offset) \subseteq Done \cup todo \cup excused

\* A command that is typed is noticed, unless it is excused or the log is
\* rotated first: no offset keeps the reader from the end of the file (146-147).
CommandsAreNoticed ==
    \A i \in Line :
        i \in Complete(size) ~> (i \in Done \cup excused \/ i <= before)
================================================================================
