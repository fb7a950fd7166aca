---------------------------- MODULE MCFalloffWorker ----------------------------
(***************************************************************************)
(* Small instances of FalloffWorker for TLC.                               *)
(***************************************************************************)
EXTENDS FalloffWorker, TLC

CONSTANTS h1, h2, w1, w2, w3

MCHash == {h1, h2}
\* Local hashes are interchangeable (safety runs only).
MCSymmetry == Permutations(MCHash)
================================================================================
