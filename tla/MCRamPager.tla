---------------------------- MODULE MCRamPager ----------------------------
(* Instances of RamPager. *)
EXTENDS RamPager

CONSTANTS u1, u2, u3
===========================================================================
