---------------------------- MODULE MCVerification ----------------------------
(***************************************************************************)
(* Small instances of Verification for TLC.                                *)
(***************************************************************************)
EXTENDS Verification, TLC

CONSTANTS p1, p2, n1, n2, k1, k2

MCPerson == {p1, p2}
MCName == {n1, n2}
\* Two players of one name, in the game and in Mumble.
MCNamesakes == [p \in MCPerson |-> n1]
\* Distinct names in the game, and the same ones or each other's in Mumble.
MCDistinct == (p1 :> n1) @@ (p2 :> n2)
MCSwapped == (p1 :> n2) @@ (p2 :> n1)

\* Codes are interchangeable (safety runs only), and so are namesakes.
MCSymmetry == Permutations(Code)
MCNamesakesSymmetry == MCSymmetry \cup Permutations(MCPerson)
================================================================================
