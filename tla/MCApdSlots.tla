----------------------------- MODULE MCApdSlots -----------------------------
(***************************************************************************)
(* Model-checking instance of ApdSlots.  Clists are interchangeable.       *)
(***************************************************************************)
EXTENDS ApdSlots, TLC

Symmetry == Permutations(Clists)
=============================================================================
