---------------------------- MODULE MCSemaphores ----------------------------
(***************************************************************************)
(* Model-checking instance of Semaphores.  Threads, addresses, entries and *)
(* heap blocks are interchangeable.                                        *)
(***************************************************************************)
EXTENDS Semaphores, TLC

Symmetry == Permutations(Threads) \cup Permutations(Addresses)
                \cup Permutations(Slots) \cup Permutations(Blocks)
=============================================================================
