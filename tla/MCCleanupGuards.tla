-------------------------- MODULE MCCleanupGuards --------------------------
(* Two pieces of work in the fork, under every choice of flags. *)
EXTENDS CleanupGuards, TLC

CONSTANTS p1, p2

Interchangeable == Permutations(Piece)
=============================================================================
