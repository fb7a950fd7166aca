------------------------------- MODULE LinkLedger -------------------------------
(***************************************************************************)
(* What linking players to Mumble users promises, whatever the threads,    *)
(* the dictionaries and the file are: a code is issued for a player and    *)
(* told to that person; it links that person and nobody else, once, and    *)
(* not after it was dropped; and who is told that they are linked is.  The *)
(* promise ends where a code is issued twice or leaks: such a code is      *)
(* loose, and links a player it was issued for to anyone it was told.  The *)
(* links are those last written: a torn file is not one the ledger speaks  *)
(* of.                                                                     *)
(***************************************************************************)
CONSTANTS Person, Code

VARIABLES
    issued,      \* <<player, code>>: the code was drawn for the player
    loose,       \* the codes that were issued twice or leaked
    told,        \* <<person, code>>: the person was shown the code
    spent,       \* the codes that prove nothing, or nothing any more
    links,       \* <<player, Mumble user>>
    announced    \* the people who were told that they are linked

ledger == <<issued, loose, told, spent, links, announced>>

\* Some people are linked already.
Init ==
    /\ issued = {} /\ loose = {} /\ told = {} /\ spent = {}
    /\ \E S \in SUBSET Person : links = {<<p, p>> : p \in S} /\ announced = S

Issued(c) == \E p \in Person : <<p, c>> \in issued
\* The code proves nothing from now on.
Loosen(c) == loose' = loose \cup {c} /\ spent' = spent \cup {c}

Issue(p, c) ==
    /\ issued' = issued \cup {<<p, c>>}
    /\ IF Issued(c) THEN Loosen(c) ELSE UNCHANGED <<loose, spent>>
    /\ UNCHANGED <<told, links, announced>>

\* Also when it was spent, or is dropped now.
Tell(p, c) ==
    /\ <<p, c>> \in issued
    /\ told' = told \cup {<<p, c>>}
    /\ spent' \in {spent, spent \cup {c}}
    /\ UNCHANGED <<issued, loose, links, announced>>

\* It is sent to someone who may be another person, and may be there.
Leak(q, c) ==
    /\ Issued(c)
    /\ Loosen(c)
    /\ told' \in {told, told \cup {<<q, c>>}}
    /\ UNCHANGED <<issued, links, announced>>

\* Codes expire, and a restart drops them all.
Drop ==
    /\ spent \subseteq spent' /\ spent' \subseteq Code
    /\ UNCHANGED <<issued, loose, told, links, announced>>

\* The link may take the place of the person's old one, or of a namesake's.
Earn(p, q, c) ==
    /\ <<p, c>> \in issued /\ <<q, c>> \in told
    /\ \/ c \notin spent /\ p = q /\ spent' = spent \cup {c}
       \/ c \in loose /\ UNCHANGED spent
    /\ \E l \in links \cup {<<p, q>>} : links' = (links \ {l}) \cup {<<p, q>>}
    /\ UNCHANGED <<issued, loose, told, announced>>

Announce(p) ==
    /\ \E q \in Person : <<p, q>> \in links
    /\ announced' = announced \cup {p}
    /\ UNCHANGED <<issued, loose, told, spent, links>>

Next ==
    \/ Drop
    \/ \E p \in Person : Announce(p)
    \/ \E p \in Person, c \in Code : Issue(p, c) \/ Tell(p, c) \/ Leak(p, c)
    \/ \E p, q \in Person, c \in Code : Earn(p, q, c)

Spec == Init /\ [][Next]_ledger
================================================================================
