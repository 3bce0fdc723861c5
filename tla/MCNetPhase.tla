------------------------------ MODULE MCNetPhase ------------------------------
(***************************************************************************)
(* A small program for TLC: threads are interchangeable, and so are        *)
(* descriptors.                                                            *)
(***************************************************************************)
EXTENDS NetPhase, TLC

Symmetry == Permutations(Threads) \cup Permutations(Fds)
==============================================================================
