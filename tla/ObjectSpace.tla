---------------------------- MODULE ObjectSpace ----------------------------
(***************************************************************************)
(* The address space objects are allocated from: the freelist (kmalloc_obj,*)
(* kmalloc_obj_addr and kfree_obj of mm.c) and its callers in objects.c,   *)
(* object_create, object_delete and object_resize.  All of them run on the *)
(* system call loop, one at a time.                                        *)
(*                                                                         *)
(* The list is kept in the order of addresses: an entry is put in where    *)
(* its address belongs and changed without passing a neighbour.  Here it   *)
(* is the set of its entries.  The kernel heap, which the entries come     *)
(* from, does not run out.                                                 *)
(*                                                                         *)
(* Three ways through the code leave the list at odds with the objects:    *)
(* an entry taken whole or too small by a growing object, and a part of a  *)
(* page freed to an empty list.  After one of them the model stops.        *)
(***************************************************************************)
EXTENDS Integers, FiniteSets, FiniteSetsExt

CONSTANTS PageSize,      \* L4_PAGESIZE, in some unit
          Pages,         \* size of the object region, in pages
          Sizes          \* bound: sizes users ask for

ASSUME SpaceAssumption ==
    /\ PageSize \in Nat \ {0}
    /\ Pages \in Nat \ {0}
    /\ Sizes \subseteq Nat

VARIABLES
    objs,       \* the object table: base and size of each object
    free,       \* _FREELIST
    spoiled,    \* the list and the objects disagree
    halted      \* a null pointer was used

vars == <<objs, free, spoiled, halted>>

End(x) == x.addr + x.size

\* page_round_up, for sizes and addresses.
RoundUp(n) == ((n + PageSize - 1) \div PageSize) * PageSize

RoundDown(n) == (n \div PageSize) * PageSize

\* The object region; address 0 is not part of it.
Region == [addr |-> PageSize, size |-> Pages * PageSize]

Ranges == [addr : PageSize .. End(Region), size : 0 .. Region.size]

TypeOK ==
    /\ objs \subseteq [addr : PageSize .. End(Region), size : Nat]
    /\ free \subseteq Ranges
    /\ spoiled \in BOOLEAN
    /\ halted \in BOOLEAN

\* FreeInit.
Init ==
    /\ objs = {}
    /\ free = {Region}
    /\ spoiled = FALSE
    /\ halted = FALSE

-----------------------------------------------------------------------------
(* The freelist *)

\* The entries of a list below an address; the lowest and the highest of a set
\* of entries, as a set.
Below(list, a) == {c \in list : c.addr < a}
Lowest(S)      == {c \in S : \A d \in S : c.addr <= d.addr}
Highest(S)     == {c \in S : \A d \in S : d.addr <= c.addr}

\* Variants: the first entry, big enough or not; an entry that is bigger.
FirstFitAny(n)    == Lowest(free)
FirstFitLarger(n) == Lowest({c \in free : c.size > n})

\* The entry kmalloc_obj takes from: the first that is big enough.
FirstFit(n) == Lowest({c \in free : c.size >= n})

\* An entry without its first n units: what is left of it, if anything.
WithoutFront(c, n) ==
    {d \in {[addr |-> c.addr + n, size |-> c.size - n]} : d.size # 0}

\* The list once n units are taken from the front of entry c.
Allocated(c, n) == (free \ {c}) \cup WithoutFront(c, n)

\* Variant: not joined to the entry that follows.
FreedApart(list, a, n) ==
    LET size  == RoundUp(n)
        left  == {c \in Highest(Below(list, a)) : End(c) = a}
        start == Min({a} \cup {c.addr : c \in left})
    IN  IF list = {} THEN {[addr |-> a, size |-> n]}
        ELSE (list \ left) \cup {[addr |-> start, size |-> a + size - start]}

\* kfree_obj: the list once n units at address a are put back.  They are joined
\* to the entry that ends there and to the entry that follows.  If the list is
\* empty FreeInit makes an entry of them, of exactly that size.
Freed(list, a, n) ==
    LET size  == RoundUp(n)
        left  == {c \in Highest(Below(list, a)) : End(c) = a}
        right == {c \in Lowest(list \ Below(list, a)) : c.addr = a + size}
        start == Min({a} \cup {c.addr : c \in left})
        end   == Max({a + size} \cup {End(c) : c \in right})
    IN  IF list = {} THEN {[addr |-> a, size |-> n]}
        ELSE (list \ (left \cup right))
                 \cup {[addr |-> start, size |-> end - start]}

\* Part of a page is put back to an empty list.
Splinters(list, n) == list = {} /\ RoundUp(n) # n

-----------------------------------------------------------------------------
(* Objects *)

Ready == ~spoiled /\ ~halted

\* BTIns refuses an object that overlaps another one, or has its base.
Clashes(a, n) ==
    \E o \in objs : \/ o.addr \in a .. a + n - 1
                    \/ a \in o.addr .. End(o) - 1

\* object_create, and object_add.  The object keeps the size asked for.
Create(n) ==
    /\ Ready
    /\ n > 0
    /\ \E c \in FirstFit(RoundUp(n)) :
          /\ ~Clashes(c.addr, n)
          /\ objs' = objs \cup {[addr |-> c.addr, size |-> n]}
          /\ free' = Allocated(c, RoundUp(n))
    /\ UNCHANGED <<spoiled, halted>>

\* object_create, when object_add fails because the table refuses the object or
\* has no page left: the space is put back.
CreateUndone(n) ==
    /\ Ready
    /\ n > 0
    /\ \E c \in FirstFit(RoundUp(n)) :
          LET rest == Allocated(c, RoundUp(n))
          IN  /\ free' = Freed(rest, c.addr, n)
              /\ spoiled' = Splinters(rest, n)
    /\ UNCHANGED <<objs, halted>>

\* object_delete.  An object of no size is not found by any address.
Delete(o) ==
    /\ Ready
    /\ o.size > 0
    /\ objs' = objs \ {o}
    /\ free' = Freed(free, o.addr, o.size)
    /\ spoiled' = Splinters(free, o.size)
    /\ UNCHANGED halted

\* object_resize to n units, a number of pages.
Resized(o, n) == (objs \ {o}) \cup {[o EXCEPT !.size = n]}

CanResize(o) == Ready /\ o.size > 0

\* To the pages it has.
ResizeWithin(o, n) ==
    /\ CanResize(o)
    /\ n = RoundUp(o.size)
    /\ objs' = Resized(o, n)
    /\ UNCHANGED <<free, spoiled, halted>>

\* Variant: the page it ends in is put back too.
ShrunkTooFar(o, n) == Freed(free, RoundDown(o.addr + n - 1), o.size - n)

\* The list once the end of an object is put back.
Shrunk(o, n) == Freed(free, o.addr + n, o.size - n)

Shrink(o, n) ==
    /\ CanResize(o)
    /\ n < RoundUp(o.size)
    /\ objs' = Resized(o, n)
    /\ free' = Shrunk(o, n)
    /\ spoiled' = Splinters(free, o.size - n)
    /\ UNCHANGED halted

\* kmalloc_obj_addr for an object that grows: the pages looked for start at the
\* page the object ends in or, if it ends with a page, at the next one.
GrowsAt(o)  == RoundDown(End(o))
Extra(o, n) == RoundUp(n - o.size)
CanGrow(o, n) == CanResize(o) /\ n > RoundUp(o.size)


\* The entry there, as a set.
Following(o) == {c \in free : c.addr = GrowsAt(o)}

\* The front of the entry is taken.
Grow(o, n) ==
    /\ CanGrow(o, n)
    /\ \E c \in Following(o) :
          /\ c.size > Extra(o, n)
          /\ free' = Allocated(c, Extra(o, n))
    /\ objs' = Resized(o, n)
    /\ UNCHANGED <<spoiled, halted>>

\* The whole entry is taken.  What should be the entry before it is the one
\* before that: without two entries before there is none, and a null pointer is
\* written through; the head of the list is taken for a list of one; otherwise
\* the entry in between goes as well.
GrowWhole(o, n) ==
    /\ CanGrow(o, n)
    /\ \E c \in Following(o) :
          LET before == Below(free, c.addr)
          IN  /\ c.size = Extra(o, n)
              /\ \/ /\ Cardinality(before) < 2
                    /\ halted' = TRUE
                    /\ UNCHANGED <<objs, free>>
                 \/ /\ Cardinality(before) = 2
                    /\ free' = {}
                    /\ objs' = Resized(o, n)
                    /\ UNCHANGED halted
                 \/ /\ Cardinality(before) > 2
                    /\ free' = free \ ({c} \cup Highest(before))
                    /\ objs' = Resized(o, n)
                    /\ UNCHANGED halted
    /\ spoiled' = TRUE

\* No entry there, and none before.
CannotGrow(o, n) ==
    CanGrow(o, n) /\ Following(o) = {} /\ Below(free, GrowsAt(o)) = {}

\* An entry too small, or none there but one before, which does not reach that
\* far: the address is returned although nothing is taken.
GrowAnyway(o, n) ==
    /\ CanGrow(o, n)
    /\ ~CannotGrow(o, n)
    /\ \A c \in Following(o) : c.size < Extra(o, n)
    /\ objs' = Resized(o, n)
    /\ spoiled' = TRUE
    /\ UNCHANGED <<free, halted>>

Next ==
    \/ \E n \in Sizes : Create(n) \/ CreateUndone(n)
    \/ \E o \in objs : Delete(o)
    \/ \E o \in objs : \E n \in {RoundUp(k) : k \in Sizes \cup {0}} :
          \/ ResizeWithin(o, n)
          \/ Shrink(o, n)
          \/ Grow(o, n)
          \/ GrowWhole(o, n)
          \/ GrowAnyway(o, n)

Spec == Init /\ [][Next]_vars

-----------------------------------------------------------------------------
(* Properties *)

PageOf(a) == a \div PageSize
PagesOf(x) == {p \in 1 .. Pages : x.addr <= p * PageSize /\ p * PageSize < End(x)}

\* Until the list is spoiled, every page of the region belongs to one object or to one
\* entry of the list: splitting, joining and rounding neither lose a page nor give it
\* away twice, also when a creation is undone.
PagesAccounted ==
    ~spoiled =>
        \A p \in 1 .. Pages :
            /\ \E x \in objs \cup free : p \in PagesOf(x)
            /\ \A x, y \in objs : p \in PagesOf(x) \cap PagesOf(y) => x = y
            /\ \A x, y \in free : p \in PagesOf(x) \cap PagesOf(y) => x = y
            /\ \A x \in objs, y \in free : p \notin PagesOf(x) \cap PagesOf(y)

\* "sanity check the freelist as we go": until the list is spoiled, entries are of whole
\* pages, and no two of them touch, for both neighbours of what is freed are joined to it.
EntriesWhole ==
    ~spoiled =>
        /\ \A c \in free : /\ c.size > 0
                           /\ c.addr % PageSize = 0
                           /\ c.size % PageSize = 0
        /\ \A c, d \in free : End(c) # d.addr

\* A run of k free pages from page p on.
FreeRun(p, k) ==
    \A q \in p .. p + k - 1 : q <= Pages /\ \A o \in objs : q \notin PagesOf(o)

\* A creation is refused, and an object that ends with a page cannot grow, only if
\* the pages needed are not all free: free pages side by side are in one entry.
RefusedForWant ==
    Ready =>
        /\ \A n \in Sizes \ {0} : FirstFit(RoundUp(n)) = {} =>
              \A p \in 1 .. Pages : ~FreeRun(p, PageOf(RoundUp(n)))
        /\ \A o \in objs, n \in Sizes :
              o.size % PageSize = 0 /\ CannotGrow(o, RoundUp(n)) =>
                 ~FreeRun(PageOf(End(o)), PageOf(RoundUp(n) - o.size))
=============================================================================
