-------------------------- MODULE MC_SlidingWindow --------------------------
(* Small instances of SlidingWindow.                                       *)
EXTENDS SlidingWindow, TLC

RequestSymmetry == Permutations(Requests)
=============================================================================
