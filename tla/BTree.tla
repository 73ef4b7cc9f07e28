------------------------------- MODULE BTree -------------------------------
(***************************************************************************)
(* The index of the object table: a B+-tree over intervals of addresses    *)
(* (kernel/lib/klibc/btree.c) and the pool its pages come from.            *)
(*                                                                         *)
(* A page's keys are in order, so the code's binary search finds how many  *)
(* of them are not above an address.                                       *)
(*                                                                         *)
(* The model stops at the end of a call that damaged the tree or the pool, *)
(* with the tree as it was before.                                         *)
(***************************************************************************)
EXTENDS Integers, Sequences, FiniteSets, SequencesExt, FiniteSetsExt

CONSTANTS Objects,      \* records with their base and end
          Orders,       \* values of BT_ORDER
          PoolSizes,
          Clears(_),    \* the bit of the pool's bitmap that free_page clears
          None

ASSUME BTreeAssumption ==
    /\ \A o \in Objects : {o.base, o.end} \subseteq Nat /\ o.base < o.end
    /\ \A n \in Orders : n \in Nat /\ n >= 3 /\ n % 2 = 1
    /\ PoolSizes \subseteq Nat \ {0}

VARIABLES
    order,       \* BT_ORDER
    root,
    size,        \* pages in the pool
    bitmap,      \* the pages of the pool that are taken
    reply,       \* of an operation to its caller, or None
    stop         \* why the model stopped

vars == <<order, size, root, bitmap, reply, stop>>

MaxKey == order - 1
MinKey == MaxKey \div 2

Pool      == 0 .. size - 1
Span(o)   == o.base .. o.end - 1
Addresses == UNION {Span(o) : o \in Objects}

\* A page holds objects or pages, one more than keys.
Page(id, isleaf, key, child) == [id |-> id, isleaf |-> isleaf, key |-> key, child |-> child]

Init ==
    /\ order \in Orders
    /\ size \in PoolSizes
    /\ root = None
    /\ bitmap = {}
    /\ reply = None
    /\ stop = "no"

\* The children of a page whose keys are above an address, or below: how many keys
\* come before them.
NotAbove(p, a) == Cardinality({i \in DOMAIN p.key : p.key[i] <= a})
Below(p, a)    == Cardinality({i \in DOMAIN p.key : p.key[i] < a})

RECURSIVE Find(_, _)

\* BTSearch, and BTModify: the object whose base is the last that is not above the address.
Find(p, a) ==
    LET c == p.child[NotAbove(p, a) + 1]
    IN  IF p.isleaf THEN c ELSE Find(c, a)

BTSearch(a) ==
    IF root = None THEN None
    ELSE LET o == Find(root, a) IN IF a \in Span(o) THEN o ELSE None

RECURSIVE GetLeastKey(_)

GetLeastKey(p) == IF p.isleaf THEN p.child[1].base ELSE GetLeastKey(p.child[1])

RECURSIVE Pages(_)

\* The pages of a tree.
Pages(p) ==
    IF p = None THEN {}
    ELSE {p.id} \cup IF p.isleaf THEN {} ELSE UNION {Pages(c) : c \in Range(p.child)}

-----------------------------------------------------------------------------
(* Insertion *)

\* BTInsertPage.  hi is -1 for an object that goes before all others.
BTInsertPage(p, hi, k, c) ==
    IF hi < 0
    THEN [p EXCEPT !.key = <<p.child[1].base>> \o @, !.child = <<c>> \o @]
    ELSE [p EXCEPT !.key = InsertAt(@, hi + 1, k), !.child = InsertAt(@, hi + 2, c)]


\* What a step of a call hands back: the page as it left it, the pool, and for a page
\* that was split the new page to its right and the key between them.
Answer(status, page, taken) == [status |-> status, page |-> page, taken |-> taken]
Promotion(page, key, right, taken) ==
    [status |-> "promotion", page |-> page, key |-> key, right |-> right, taken |-> taken]

\* How many keys of a full page stay: one less when the new key joins them.
Kept(hi) == IF hi < MinKey THEN MinKey - 1 ELSE MinKey

\* The key between the halves.
Median(p, hi, k) == IF hi = MinKey THEN k ELSE p.key[Kept(hi) + 1]

\* A full page is split, and the new key and child go to one of the halves.  A child that
\* is to be the new page's first has its right neighbour's key read from the neighbour,
\* as if that were an object.
Split(p, hi, k, c, taken) ==
    LET n     == Kept(hi)
        id    == Min(Pool \ taken)
        left  == [p EXCEPT !.key = SubSeq(@, 1, n), !.child = SubSeq(@, 1, n + 1)]
        right == Page(id, p.isleaf, SubSeq(p.key, n + 2, MaxKey),
                      SubSeq(p.child, n + 2, MaxKey + 1))
        median == Median(p, hi, k)
    IN  IF hi = MinKey /\ ~p.isleaf THEN Answer("garbage", p, taken)
        ELSE IF hi < MinKey
        THEN Promotion(BTInsertPage(left, hi, k, c), median, right, taken \cup {id})
        ELSE Promotion(left, median, BTInsertPage(right, hi - n - 1, k, c), taken \cup {id})

\* A key and its child reach a page.  Where memory runs out below a page that was split,
\* its new half is in no page.
Promoted(p, hi, k, c, taken) ==
    IF Len(p.key) < MaxKey THEN Answer("ok", BTInsertPage(p, hi, k, c), taken)
    ELSE IF Pool \subseteq taken
    THEN Answer(IF p.isleaf THEN "alloc_fail" ELSE "lost", p, taken)
    ELSE Split(p, hi, k, c, taken)

\* An object does not fit before the next key, or in a leaf with its neighbours.
Overlaps(p, hi, o) ==
    \/ hi < Len(p.key) /\ p.key[hi + 1] \in Span(o)
    \/ p.isleaf /\ o.base \in Span(p.child[hi + 1])
    \/ p.isleaf /\ hi = 0 /\ Span(o) \cap Span(p.child[1]) # {}

RECURSIVE BTInsert(_, _, _)

BTInsert(p, o, taken) ==
    LET hi == Below(p, o.base)
    IN  IF o.base \in Range(p.key) THEN Answer("duplicate", p, taken)
        ELSE IF Overlaps(p, hi, o) THEN Answer("overlap", p, taken)
        ELSE IF p.isleaf
        THEN Promoted(p, IF hi = 0 /\ o.base < p.child[1].base THEN -1 ELSE hi, o.base, o, taken)
        ELSE LET r == BTInsert(p.child[hi + 1], o, taken)
                 q == [p EXCEPT !.child[hi + 1] = r.page]
             IN  CASE r.status = "promotion" -> Promoted(q, hi, r.key, r.right, r.taken)
                   [] r.status = "ok"        -> [r EXCEPT !.page = q]
                   [] OTHER                  -> r

-----------------------------------------------------------------------------
(* Deletion *)

Count(p) == Len(p.child) - 1

\* A page without the key at an index and the child to its right, or without its first child.
BTDeletePage(p, idx) ==
    IF idx < 0
    THEN [p EXCEPT !.key = IF @ = <<>> THEN @ ELSE Tail(@), !.child = Tail(@)]
    ELSE [p EXCEPT !.key = RemoveAt(@, idx + 1), !.child = RemoveAt(@, idx + 2)]

\* A page that lost a key may be left with too few.
Deleted(p, idx, taken) ==
    LET q == BTDeletePage(p, idx)
    IN  Answer(IF Count(q) < MinKey THEN "less" ELSE "ok", q, taken)

\* Variant: the key of a page whose least object was deleted stays.
KeptKey(p, hi, key) == p

\* The key of a page whose least object was deleted is now its least that is left.
Refreshed(p, hi, key) ==
    IF hi > 0 /\ p.key[hi] = key
    THEN [p EXCEPT !.key[hi] = GetLeastKey(p.child[hi + 1])]
    ELSE p

\* free_page: panics when the bit it clears is clear.
FreePage(r, id) ==
    IF Clears(id) \in r.taken THEN [r EXCEPT !.taken = @ \ {Clears(id)}]
    ELSE [r EXCEPT !.status = "panic"]

\* The two pages' keys and children, with the least key of the right one between them.
Joined(left, right) ==
    [left EXCEPT !.key = @ \o <<GetLeastKey(right)>> \o right.key, !.child = @ \o right.child]

BTCollapse(p, m, taken) ==
    LET right == p.child[m + 2]
        q     == [p EXCEPT !.child[m + 1] = Joined(p.child[m + 1], right)]
    IN  FreePage(Deleted(q, m, taken), right.id)

\* The left page gets half of the keys.  When it gets some from a full right page, the
\* loop that clears what was moved goes one key past the last, which is the first child.
BTRedistribute(p, m, taken) ==
    LET left  == p.child[m + 1]
        right == p.child[m + 2]
        half  == (Count(left) + Count(right)) \div 2
        both  == Joined(left, right)
    IN  IF Count(left) < half /\ Count(right) = MaxKey THEN Answer("overwritten", p, taken)
        ELSE Answer("ok",
              [p EXCEPT !.key[m + 1] = both.key[half + 1],
                        !.child[m + 1] = [both EXCEPT !.key = SubSeq(@, 1, half),
                                                      !.child = SubSeq(@, 1, half + 1)],
                        !.child[m + 2] = [right EXCEPT
                            !.key = SubSeq(both.key, half + 2, Len(both.key)),
                            !.child = SubSeq(both.child, half + 2, Len(both.child))]], taken)

\* The fuller of the neighbours of a page, counted from 0: the right one when neither is.
Sibling(p, hi) ==
    IF hi = 0 \/ (hi < Count(p) /\ Count(p.child[hi]) <= Count(p.child[hi + 2]))
    THEN hi + 1 ELSE hi - 1

\* A page with too few keys gets some of its sibling's, or all.
Rebalanced(p, hi, taken) ==
    LET sibling == Sibling(p, hi)
        m       == Min({hi, sibling})
    IN  IF Count(p.child[sibling + 1]) > MinKey
        THEN BTRedistribute(p, m, taken)
        ELSE BTCollapse(p, m, taken)

RECURSIVE BTDelete(_, _, _)

BTDelete(p, key, taken) ==
    LET hi == NotAbove(p, key)
    IN  IF p.isleaf
        THEN IF p.child[hi + 1].base # key THEN Answer("not_found", p, taken)
             ELSE Deleted(p, hi - 1, taken)
        ELSE LET r == BTDelete(p.child[hi + 1], key, taken)
                 q == Refreshed([p EXCEPT !.child[hi + 1] = r.page], hi, key)
             IN  CASE r.status = "less" -> Rebalanced(q, hi, r.taken)
                   [] r.status = "ok"   -> [r EXCEPT !.page = q]
                   [] OTHER             -> r

-----------------------------------------------------------------------------

Stopped(why) == stop' = why /\ UNCHANGED <<order, size, root, bitmap, reply>>

\* A call with its arguments returns.
Returned(of, status, r, taken) ==
    /\ reply' = [of |-> of, status |-> status]
    /\ root' = r
    /\ bitmap' = taken
    /\ UNCHANGED <<order, size, stop>>

\* The first object makes a leaf the root.
BTIns_empty(o) ==
    /\ root = None
    /\ LET id == Min(Pool \ bitmap)
       IN  Returned(<<o.base, o.end>>, "ok", Page(id, TRUE, <<>>, <<o>>), bitmap \cup {id})

\* A root that was split gets a root above it.
BTIns(o) ==
    /\ root # None
    /\ LET r     == BTInsert(root, o, bitmap)
           id    == Min(Pool \ r.taken)
           split == r.status = "promotion"
       IN  \/ /\ split /\ ~(Pool \subseteq r.taken)
              /\ Returned(<<o.base, o.end>>, "ok", Page(id, FALSE, <<r.key>>, <<r.page, r.right>>), r.taken \cup {id})
           \/ /\ split /\ Pool \subseteq r.taken
              /\ Stopped("lost")
           \/ /\ r.status \in {"lost", "garbage"}
              /\ Stopped(r.status)
           \/ /\ r.status \in {"ok", "duplicate", "overlap", "alloc_fail"}
              /\ Returned(<<o.base, o.end>>, r.status, IF r.status = "ok" THEN r.page ELSE root, r.taken)

\* The root goes when it is a leaf with no object, or has one child.
WithoutRoot(r) ==
    IF r.page.isleaf /\ Count(r.page) < 0
    THEN FreePage([r EXCEPT !.page = None], r.page.id)
    ELSE IF ~r.page.isleaf /\ Count(r.page) = 0
    THEN FreePage([r EXCEPT !.page = r.page.child[1]], r.page.id)
    ELSE r

BTDel_empty(key) ==
    /\ root = None
    /\ Returned(<<key>>, "not_found", root, bitmap)

\* The pool may have lost another page than the one that was freed.
Checked(r) ==
    IF r.status \in {"ok", "less"} /\ r.taken # Pages(r.page)
    THEN [r EXCEPT !.status = "pool"]
    ELSE r

BTDel(key) ==
    /\ root # None
    /\ LET d == BTDelete(root, key, bitmap)
           r == Checked(IF d.status = "less" THEN WithoutRoot(d) ELSE d)
       IN  \/ /\ r.status = "not_found"
              /\ Returned(<<key>>, "not_found", root, bitmap)
           \/ /\ r.status \in {"ok", "less"}
              /\ Returned(<<key>>, "ok", r.page, r.taken)
           \/ /\ r.status \in {"panic", "pool", "overwritten"}
              /\ Stopped(r.status)

Return ==
    /\ reply # None
    /\ reply' = None
    /\ UNCHANGED <<order, size, root, bitmap, stop>>

Next ==
    /\ stop = "no"
    /\ \/ Return
       \/ reply = None /\ \E o \in Objects : BTIns_empty(o) \/ BTIns(o)
       \/ reply = None /\ \E key \in Addresses : BTDel_empty(key) \/ BTDel(key)

Spec == Init /\ [][Next]_vars

-----------------------------------------------------------------------------

\* The tree is the set of objects that were inserted and not deleted: an object is found
\* by each of its addresses and by no other, an insertion is refused for an object in its
\* place only when there is one, and a deletion takes the one object it names, whatever
\* pages are split, joined and evened out (btree.c).
Index == INSTANCE ObjectIndex WITH at <- [a \in Addresses |-> BTSearch(a)]
ImplementsIndex == Index!Spec

\* "free_page: Tried to deallocate page %p twice!" (btree.c:88): no page is freed twice.
NotFreedTwice == stop # "panic"
=============================================================================
