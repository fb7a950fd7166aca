----------------------------- MODULE MCBridgeTick -----------------------------
(***************************************************************************)
(* Small instances of BridgeTick for TLC.                                  *)
(***************************************************************************)
EXTENDS BridgeTick, TLC

CONSTANTS p1, p2, n1, n2, n3

MCPerson == {p1, p2}
MCName == {n1, n2, n3}
MCDistinct == (p1 :> n1) @@ (p2 :> n2)
MCSwapped == (p1 :> n2) @@ (p2 :> n1)
\* The name n2 is two words, of which n3 is the first and the name of p2 when they
\* were linked.
MCAtLinking == (p1 :> n1) @@ (p2 :> n3)
MCFirstWord == (n1 :> n1) @@ (n2 :> n3) @@ (n3 :> n3)
MCCuts == (n1 :> {}) @@ (n2 :> {n3}) @@ (n3 :> {})
\* Three cells, one of them negative; faint voices and one out of range.
MCPlace == {-1, 1, 4}

\* Fewer beginnings: an empty log, everyone in the lobby, not all in one place.
MCInit ==
    /\ Init
    /\ size = 0
    /\ channel = [p \in Person |-> Lobby]
    /\ p1 \in links /\ place[p1] = 1 /\ place[p2] # 1
MCSpec == MCInit /\ [][Next]_vars /\ WF_vars(Tick)
================================================================================
