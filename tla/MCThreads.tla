----------------------------- MODULE MCThreads -----------------------------
(***************************************************************************)
(* Model-checking instance of Threads.  The structures are interchangeable.*)
(***************************************************************************)
EXTENDS Threads, TLC

Symmetry == Permutations(Threads)
=============================================================================
