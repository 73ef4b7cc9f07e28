------------------------------ MODULE MCBTree ------------------------------
(***************************************************************************)
(* The index over small objects: one at each of nine addresses, and two   *)
(* that cover several.                                                     *)
(***************************************************************************)
EXTENDS BTree

Object(b, e) == [base |-> b, end |-> e]

MCObjects == {Object(b, b + 1) : b \in 0 .. 8} \cup {Object(1, 3), Object(4, 7)}

\* A pool that clears the bit of the page that is freed.
OwnBit(b) == b

\* The bit the kernel's free_page clears (btree.c:84-85): 1 << (b % 8*sizeof(int)), in the
\* word of the page's own bit.
KernelBit(b) == 32 * (b \div 32) + 4 * (b % 8)
=============================================================================
