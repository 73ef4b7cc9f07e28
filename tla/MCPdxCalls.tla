---------------------------- MODULE MCPdxCalls ----------------------------
(* Instances of PdxCalls. *)
EXTENDS PdxCalls, TLC

CONSTANTS b1, b2, b3, s3, p1, c1, c2, d1

OneBucket(src, p, pd) == 0
ByPd(src, p, pd) == IF pd = Empty THEN 0 ELSE 1

MCBlocks  == {Home, b1, b2, b3}
MCStructs == {Root, Child, s3}

Symmetry == Permutations({b1, b2, b3}) \cup Permutations({s3})
            \cup Permutations({c1, c2})
===========================================================================
