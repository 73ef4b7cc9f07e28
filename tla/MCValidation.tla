---------------------------- MODULE MCValidation ----------------------------
(***************************************************************************)
(* Model-checking instance of Validation.  Bases and cells are             *)
(* interchangeable.                                                        *)
(***************************************************************************)
EXTENDS Validation, TLC

\* Withdrawn, read, denied read, everything.
CONSTANT r
MCUserModes == {{}, {r}, {r, NOT}, Rights}

Symmetry == Permutations(Bases) \cup Permutations(Cells)
=============================================================================
