---------------------------- MODULE MCFalloffServer ----------------------------
(***************************************************************************)
(* Small instances of FalloffServer for TLC.                               *)
(***************************************************************************)
EXTENDS FalloffServer, TLC

CONSTANTS c1, c2, h1, h2, H1

\* Two lower-case hashes; H1 is h1 as a hand-edited identity map may spell it.
MCHash == {h1, h2}
MCKey == MCHash \cup {H1}
MCLower == [k \in MCKey |-> IF k = H1 THEN h1 ELSE k]

\* One hash, always in lower case.
MCOneHash == {h1}
MCOneLower == [k \in MCOneHash |-> k]

\* Connections are interchangeable.  The properties checked with this
\* symmetry are invariants and action formulas.
MCConnSymmetry == Permutations(Conn)
================================================================================
