-------------------------- MODULE ObjectSpaceProofs --------------------------
(***************************************************************************)
(* Proofs about ObjectSpace.  As long as the list and the objects agree,   *)
(* objects with their sizes rounded up and the entries of the list tile    *)
(* the region, and no two entries touch.                                   *)
(***************************************************************************)
EXTENDS ObjectSpace, TLAPS, WellFoundedInduction

\* A number of pages, or the address of one.
Whole(n) == \E k \in Int : n = k * PageSize

\* An address in an entry or an object.
In(q, x) == x.addr <= q /\ q < End(x)

\* The entries of a list are of whole pages of the region,
Entries(list) ==
    \A c \in list : /\ c \in Ranges
                    /\ Whole(c.addr) /\ Whole(c.size)
                    /\ c.size > 0 /\ End(c) <= End(Region)

\* and do not touch.
Apart(list) == \A c, d \in list : c = d \/ End(c) < d.addr \/ End(d) < c.addr

\* Units m from address a on are not in the list.
Clear(list, a, m) == \A c \in list : End(c) <= a \/ a + m <= c.addr

\* A block of pages that can be put into the list.
Block(list, a, m) ==
    /\ a \in Nat /\ m \in Nat /\ m > 0
    /\ Whole(a) /\ Whole(m)
    /\ PageSize <= a /\ a + m <= End(Region)
    /\ Clear(list, a, m)

\* The pages of objects, with those that they end in.
ObjsWhole ==
    \A o \in objs : Whole(o.addr) /\ o.addr + RoundUp(o.size) <= End(Region)

ObjsApart ==
    \A o, p \in objs : \/ o = p \/ o.size = 0 \/ p.size = 0
                       \/ o.addr + RoundUp(o.size) <= p.addr
                       \/ p.addr + RoundUp(p.size) <= o.addr

ObjsClear == \A o \in objs : o.size # 0 => Clear(free, o.addr, RoundUp(o.size))

Covered == \A p \in 1 .. Pages : \E x \in objs \cup free : In(p * PageSize, x)

Sound == Entries(free) /\ Apart(free) /\ ObjsWhole /\ ObjsApart /\ ObjsClear /\ Covered

IInv == TypeOK /\ (halted => spoiled) /\ (~spoiled => Sound)

-----------------------------------------------------------------------------
(* Pages *)

\* Division by the page size.
LEMMA DivFacts ==
    ASSUME NEW n \in Int
    PROVE  /\ n \div PageSize \in Int
           /\ (n \div PageSize) * PageSize <= n
           /\ n < (n \div PageSize) * PageSize + PageSize
           /\ n % PageSize = n - (n \div PageSize) * PageSize
BY SpaceAssumption

\* Whole numbers are a page apart.
LEMMA WholeGap ==
    ASSUME NEW a \in Int, NEW b \in Int, Whole(a), Whole(b), a < b
    PROVE  a + PageSize <= b
<1>1. PICK k \in Int : a = k * PageSize
  BY DEF Whole
<1>2. PICK j \in Int : b = j * PageSize
  BY DEF Whole
<1>3. k < j
  BY <1>1, <1>2, SpaceAssumption
<1>4. (k + 1) * PageSize <= j * PageSize
  BY <1>3, SpaceAssumption
<1> QED
  BY <1>1, <1>2, <1>4, SpaceAssumption

\* Whole numbers add up to whole numbers,
LEMMA WholeSum ==
    ASSUME NEW a \in Int, NEW b \in Int, Whole(a), Whole(b)
    PROVE  Whole(a + b)
<1>1. PICK k \in Int : a = k * PageSize
  BY DEF Whole
<1>2. PICK j \in Int : b = j * PageSize
  BY DEF Whole
<1>3. a + b = (k + j) * PageSize
  BY <1>1, <1>2, SpaceAssumption
<1> QED
  BY <1>3 DEF Whole

\* and so do their differences.
LEMMA WholeRest ==
    ASSUME NEW a \in Int, NEW b \in Int, Whole(a), Whole(b)
    PROVE  Whole(a - b)
<1>1. PICK k \in Int : a = k * PageSize
  BY DEF Whole
<1>2. PICK j \in Int : b = j * PageSize
  BY DEF Whole
<1>3. a - b = (k - j) * PageSize
  BY <1>1, <1>2, SpaceAssumption
<1> QED
  BY <1>3 DEF Whole

\* The next number of pages is a page more.
LEMMA MoreIsWhole ==
    ASSUME NEW k \in Int, NEW j \in Int, k < j
    PROVE  k * PageSize + PageSize <= j * PageSize
<1>1. (k + 1) * PageSize <= j * PageSize
  BY SpaceAssumption
<1> QED
  BY <1>1, SpaceAssumption

\* The remainder tells whole numbers.
LEMMA WholeMod ==
    ASSUME NEW n \in Int
    PROVE  Whole(n) <=> n % PageSize = 0
<1> DEFINE d == n \div PageSize
<1>1. /\ d \in Int /\ d * PageSize <= n /\ n < d * PageSize + PageSize
      /\ n % PageSize = n - d * PageSize
  BY DivFacts
<1> HIDE DEF d
<1>2. d * PageSize \in Int
  BY <1>1, SpaceAssumption
<1>3. n % PageSize = 0 => n = d * PageSize
  BY <1>1, <1>2
<1>4. n % PageSize = 0 => Whole(n)
  BY <1>1, <1>3 DEF Whole
<1>5. ASSUME Whole(n) PROVE n % PageSize = 0
  <2>1. PICK k \in Int : n = k * PageSize
    BY <1>5 DEF Whole
  <2>2. ~(k < d) /\ ~(d < k)
    BY <1>1, <1>2, <2>1, MoreIsWhole, SpaceAssumption
  <2>3. k = d
    BY <1>1, <2>2
  <2> QED
    BY <1>1, <1>2, <2>1, <2>3
<1> QED
  BY <1>4, <1>5

\* The page that an address is in.
LEMMA RoundDownFacts ==
    ASSUME NEW n \in Nat
    PROVE  /\ RoundDown(n) \in Int /\ Whole(RoundDown(n))
           /\ RoundDown(n) <= n /\ n < RoundDown(n) + PageSize
<1> DEFINE d == n \div PageSize
<1>1. d \in Int /\ d * PageSize <= n /\ n < d * PageSize + PageSize
  BY DivFacts
<1>2. RoundDown(n) = d * PageSize
  BY DEF RoundDown
<1> HIDE DEF d
<1>3. d * PageSize \in Int
  BY <1>1, SpaceAssumption
<1> QED
  BY <1>1, <1>2, <1>3 DEF Whole

\* The least number of whole pages.
LEMMA RoundUpFacts ==
    ASSUME NEW n \in Nat
    PROVE  /\ RoundUp(n) \in Nat /\ Whole(RoundUp(n))
           /\ n <= RoundUp(n) /\ RoundUp(n) < n + PageSize
<1>1. n + PageSize - 1 \in Int
  BY SpaceAssumption
<1> DEFINE d == (n + PageSize - 1) \div PageSize
<1>2. d \in Int /\ d * PageSize <= n + PageSize - 1 /\ n + PageSize - 1 < d * PageSize + PageSize
  BY <1>1, DivFacts
<1>3. RoundUp(n) = d * PageSize
  BY DEF RoundUp
<1> HIDE DEF d
<1>4. d * PageSize \in Int
  BY <1>2, SpaceAssumption
<1> QED
  BY <1>2, <1>3, <1>4, SpaceAssumption DEF Whole

\* No less will do,
LEMMA RoundUpLeast ==
    ASSUME NEW n \in Nat, NEW m \in Int, Whole(m), n <= m
    PROVE  RoundUp(n) <= m
BY RoundUpFacts, WholeGap, SpaceAssumption

\* and a whole number is its own.
LEMMA RoundUpWhole ==
    ASSUME NEW n \in Nat, Whole(n)
    PROVE  RoundUp(n) = n
BY RoundUpFacts, RoundUpLeast

\* The region FreeInit makes the first entry of.
LEMMA RegionFacts ==
    /\ PageSize \in Nat /\ PageSize > 0
    /\ Region.addr = PageSize /\ Region.size \in Nat /\ Region.size > 0
    /\ Region.size = Pages * PageSize
    /\ End(Region) = PageSize + Region.size
    /\ Whole(PageSize) /\ Whole(Region.size)
<1>1. Pages * PageSize \in Nat /\ Pages * PageSize > 0
  BY SpaceAssumption
<1>2. PageSize = 1 * PageSize
  BY SpaceAssumption
<1> QED
  BY <1>1, <1>2, SpaceAssumption DEF Region, End, Whole

\* What ranges hold.
LEMMA RangeFacts ==
    ASSUME NEW c \in Ranges
    PROVE  /\ c.addr \in Nat /\ c.size \in Nat /\ PageSize <= c.addr
           /\ c = [addr |-> c.addr, size |-> c.size]
           /\ End(c) = c.addr + c.size
BY RegionFacts DEF Ranges, End

\* A block of the region is a range.
LEMMA RangeMade ==
    ASSUME NEW a \in Nat, NEW n \in Nat, PageSize <= a, a + n <= End(Region)
    PROVE  [addr |-> a, size |-> n] \in Ranges
BY RegionFacts DEF Ranges

-----------------------------------------------------------------------------
(* The least and the greatest of two addresses *)

\* Of an address and one that is not above it.
LEMMA MinOf ==
    ASSUME NEW a \in Int, NEW b \in Int, b <= a
    PROVE  Min({a}) = a /\ Min({a, b}) = b
BY DEF Min

\* Of an address and one that is not below it.
LEMMA MaxOf ==
    ASSUME NEW a \in Int, NEW b \in Int, a <= b
    PROVE  Max({a}) = a /\ Max({a, b}) = b
BY DEF Max

-----------------------------------------------------------------------------
(* Taking the front of an entry *)

\* kmalloc_obj leaves a list in order, without the block, and with everything else.
LEMMA AllocatedFacts ==
    ASSUME NEW c \in free, NEW m \in Nat, Entries(free), Apart(free),
           Whole(m), 0 < m, m <= c.size
    PROVE  /\ Entries(Allocated(c, m)) /\ Apart(Allocated(c, m))
           /\ Block(Allocated(c, m), c.addr, m)
           /\ \A a, n \in Nat : Clear(free, a, n) => Clear(Allocated(c, m), a, n)
           /\ \A q \in Int, d \in free : In(q, d) =>
                  \/ c.addr <= q /\ q < c.addr + m
                  \/ \E e \in Allocated(c, m) : In(q, e)
<1> DEFINE r == [addr |-> c.addr + m, size |-> c.size - m]
           L == Allocated(c, m)
<1>1. /\ c \in Ranges /\ Whole(c.addr) /\ Whole(c.size) /\ End(c) <= End(Region)
      /\ c.addr \in Nat /\ c.size \in Nat /\ PageSize <= c.addr
      /\ End(c) = c.addr + c.size
  BY RangeFacts DEF Entries
<1>2. /\ r.addr = c.addr + m /\ r.size = c.size - m /\ End(r) = End(c)
      /\ Whole(r.addr) /\ Whole(r.size) /\ r.addr \in Nat /\ r.size \in Nat
      /\ r \in Ranges
  <2>1. r.addr = c.addr + m /\ r.size = c.size - m /\ r.addr \in Nat /\ r.size \in Nat
    BY <1>1
  <2>2. End(r) = End(c)
    BY <1>1, <2>1 DEF End
  <2>3. Whole(c.addr + m) /\ Whole(c.size - m)
    <3>1. c.addr \in Int /\ c.size \in Int /\ m \in Int
      BY <1>1
    <3> QED
      BY <1>1, <3>1, WholeSum, WholeRest
  <2>4. r \in Ranges
    <3>1. /\ c.addr + m \in Nat /\ c.size - m \in Nat /\ PageSize <= c.addr + m
          /\ (c.addr + m) + (c.size - m) <= End(Region)
      BY <1>1, RegionFacts
    <3> QED
      BY <3>1, RangeMade
  <2> QED
    BY <2>1, <2>2, <2>3, <2>4
<1>3. L = (free \ {c}) \cup (IF r.size # 0 THEN {r} ELSE {})
  BY DEF Allocated, WithoutFront
<1> HIDE DEF L, r
<1>4. \A d \in free : /\ d.addr \in Nat /\ d.size \in Nat /\ d.size > 0
                      /\ End(d) = d.addr + d.size
                      /\ d = c \/ End(d) < c.addr \/ End(c) < d.addr
  BY RangeFacts DEF Entries, Apart
<1>5. Entries(L)
  BY <1>1, <1>2, <1>3 DEF Entries
<1>6. Apart(L)
  <2> SUFFICES ASSUME NEW d \in L, NEW e \in L, d # e
               PROVE  End(d) < e.addr \/ End(e) < d.addr
    BY DEF Apart
  <2>1. CASE d \in free \ {c} /\ e \in free \ {c}
    BY <2>1 DEF Apart
  <2>2. CASE d = r /\ e \in free \ {c}
    BY <1>1, <1>2, <1>4, <2>2
  <2>3. CASE e = r /\ d \in free \ {c}
    BY <1>1, <1>2, <1>4, <2>3
  <2> QED
    BY <1>3, <2>1, <2>2, <2>3
<1>7. Block(L, c.addr, m)
  <2>1. Clear(L, c.addr, m)
    BY <1>1, <1>2, <1>3, <1>4 DEF Clear
  <2> QED
    BY <1>1, <2>1, RegionFacts DEF Block
<1>8. ASSUME NEW a \in Nat, NEW n \in Nat, Clear(free, a, n) PROVE Clear(L, a, n)
  BY <1>1, <1>2, <1>3, <1>8 DEF Clear
<1>9. ASSUME NEW q \in Int, NEW d \in free, In(q, d), ~(c.addr <= q /\ q < c.addr + m)
      PROVE  \E e \in L : In(q, e)
  <2>1. CASE d # c
    BY <1>3, <1>9, <2>1
  <2>2. CASE d = c
    <3>1. q >= r.addr /\ q < End(r)
      BY <1>1, <1>2, <1>9, <2>2 DEF In
    <3>2. r.size # 0 /\ In(q, r)
      BY <1>1, <1>2, <3>1 DEF In
    <3> QED
      BY <1>3, <3>2
  <2> QED
    BY <2>1, <2>2
<1> QED
  BY <1>5, <1>6, <1>7, <1>8, <1>9 DEF L

-----------------------------------------------------------------------------
(* Putting a block back *)

\* The entry that a block is joined to is the one that ends, or begins, with it.
LEMMA Neighbours ==
    ASSUME NEW list, NEW a, NEW m, Entries(list), Apart(list), Block(list, a, m)
    PROVE  /\ {c \in Highest(Below(list, a)) : End(c) = a} = {c \in list : End(c) = a}
           /\ {c \in Lowest(list \ Below(list, a)) : c.addr = a + m}
                  = {c \in list : c.addr = a + m}
<1>1. \A c \in list : /\ c.addr \in Nat /\ c.size \in Nat /\ c.size > 0
                      /\ End(c) = c.addr + c.size
                      /\ End(c) <= a \/ a + m <= c.addr
  BY RangeFacts DEF Entries, Block, Clear
<1>2. a \in Nat /\ m \in Nat /\ m > 0
  BY DEF Block
<1>3. \A c, d \in list : c = d \/ End(c) < d.addr \/ End(d) < c.addr
  BY DEF Apart
<1>4. ASSUME NEW c \in list, End(c) = a PROVE c \in Highest(Below(list, a))
  <2>1. c \in Below(list, a)
    BY <1>1, <1>2, <1>4 DEF Below
  <2>2. ASSUME NEW d \in Below(list, a) PROVE d.addr <= c.addr
    BY <1>1, <1>2, <1>3, <1>4 DEF Below
  <2> QED
    BY <2>1, <2>2 DEF Highest
<1>5. ASSUME NEW c \in list, c.addr = a + m PROVE c \in Lowest(list \ Below(list, a))
  <2>1. c \in list \ Below(list, a)
    BY <1>1, <1>2, <1>5 DEF Below
  <2>2. ASSUME NEW d \in list \ Below(list, a) PROVE c.addr <= d.addr
    BY <1>1, <1>2, <1>5 DEF Below
  <2> QED
    BY <2>1, <2>2 DEF Lowest
<1>6. Highest(Below(list, a)) \subseteq list /\ Lowest(list \ Below(list, a)) \subseteq list
  BY DEF Highest, Lowest, Below
<1> QED
  BY <1>4, <1>5, <1>6

\* The entry that a block becomes, and the entries that become part of it.
Gone(list, a, m) == {d \in list : End(d) = a \/ d.addr = a + m}

Joined(list, a, m, s, e) ==
    /\ s \in Nat /\ e \in Nat /\ s <= a /\ a + m <= e
    /\ s = a \/ \E d \in list : d.addr = s /\ End(d) = a
    /\ e = a + m \/ \E d \in list : End(d) = e /\ d.addr = a + m
    /\ \A d \in list : End(d) = a => d.addr = s
    /\ \A d \in list : d.addr = a + m => End(d) = e

\* kfree_obj makes one entry of the block and of what it is joined to.
LEMMA FreedFacts ==
    ASSUME NEW list, NEW a, NEW n \in Nat, Entries(list), Apart(list),
           Block(list, a, RoundUp(n)), ~Splinters(list, n)
    PROVE  \E s, e \in Nat :
               /\ Joined(list, a, RoundUp(n), s, e)
               /\ Freed(list, a, n) = (list \ Gone(list, a, RoundUp(n)))
                                          \cup {[addr |-> s, size |-> e - s]}
<1> DEFINE m     == RoundUp(n)
           left  == {c \in list : End(c) = a}
           right == {c \in list : c.addr = a + m}
           start == Min({a} \cup {c.addr : c \in left})
           end   == Max({a + m} \cup {End(c) : c \in right})
<1>1. \A c \in list : /\ c.addr \in Nat /\ c.size \in Nat /\ c.size > 0
                      /\ End(c) = c.addr + c.size
                      /\ End(c) <= a \/ a + m <= c.addr
  BY RangeFacts DEF Entries, Block, Clear
<1>2. a \in Nat /\ m \in Nat /\ m > 0
  BY DEF Block
<1>3. \A c, d \in list : c = d \/ End(c) < d.addr \/ End(d) < c.addr
  BY DEF Apart
<1>4. Freed(list, a, n) = IF list = {} THEN {[addr |-> a, size |-> n]}
                          ELSE (list \ (left \cup right))
                                   \cup {[addr |-> start, size |-> end - start]}
  <2> DEFINE l == {c \in Highest(Below(list, a)) : End(c) = a}
             g == {c \in Lowest(list \ Below(list, a)) : c.addr = a + m}
  <2>1. l = left /\ g = right
    BY Neighbours
  <2>2. Freed(list, a, n) = IF list = {} THEN {[addr |-> a, size |-> n]}
            ELSE (list \ (l \cup g))
                     \cup {[addr |-> Min({a} \cup {c.addr : c \in l}),
                            size |-> Max({a + m} \cup {End(c) : c \in g})
                                         - Min({a} \cup {c.addr : c \in l})]}
    BY DEF Freed
  <2> HIDE DEF l, g, left, right
  <2> QED
    BY <2>1, <2>2
<1>5. Gone(list, a, m) = left \cup right
  BY DEF Gone
<1>6. list = {} => m = n
  BY DEF Splinters
<1> HIDE DEF m
<1>7. /\ start \in Nat /\ start <= a
      /\ start = a \/ \E d \in list : d.addr = start /\ End(d) = a
      /\ \A d \in list : End(d) = a => d.addr = start
  <2>1. CASE left = {}
    <3>1. start = Min({a})
      BY <2>1
    <3>2. start = a
      BY <1>2, <3>1, MinOf
    <3> HIDE DEF start
    <3> QED
      BY <1>2, <2>1, <3>2
  <2>2. ASSUME NEW d \in left PROVE <1>7!1 /\ <1>7!2 /\ <1>7!3
    <3>1. left = {d}
      BY <1>1, <1>3, <2>2
    <3>2. /\ start = Min({a, d.addr}) /\ d.addr <= a /\ d.addr \in Nat
          /\ End(d) = a /\ d \in list
      <4>1. {a} \cup {c.addr : c \in left} = {a, d.addr}
        BY <3>1
      <4> QED
        BY <1>1, <2>2, <4>1
    <3>3. Min({a, d.addr}) = d.addr
      <4>1. a \in Int /\ d.addr \in Int /\ d.addr <= a
        BY <1>2, <3>2
      <4> QED
        BY <4>1, MinOf
    <3> HIDE DEF start
    <3> QED
      BY <3>1, <3>2, <3>3
  <2> QED
    BY <2>1, <2>2
<1>8. /\ end \in Nat /\ a + m <= end
      /\ end = a + m \/ \E d \in list : End(d) = end /\ d.addr = a + m
      /\ \A d \in list : d.addr = a + m => End(d) = end
  <2>1. CASE right = {}
    <3>1. end = Max({a + m})
      BY <2>1
    <3>2. end = a + m
      BY <1>2, <3>1, MaxOf
    <3> HIDE DEF end
    <3> QED
      BY <1>2, <2>1, <3>2
  <2>2. ASSUME NEW d \in right PROVE <1>8!1 /\ <1>8!2 /\ <1>8!3
    <3>1. right = {d}
      BY <1>1, <1>3, <2>2
    <3>2. /\ end = Max({a + m, End(d)}) /\ a + m <= End(d) /\ End(d) \in Nat
          /\ d.addr = a + m /\ d \in list
      <4>1. {a + m} \cup {End(c) : c \in right} = {a + m, End(d)}
        BY <3>1
      <4>2. /\ a + m <= End(d) /\ End(d) \in Nat /\ d.addr = a + m /\ d \in list
        BY <1>1, <1>2, <2>2
      <4> HIDE DEF right
      <4> QED
        BY <4>1, <4>2
    <3>3. Max({a + m, End(d)}) = End(d)
      <4>1. a + m \in Int /\ End(d) \in Int /\ a + m <= End(d)
        BY <1>2, <3>2
      <4> QED
        BY <4>1, MaxOf
    <3> HIDE DEF end
    <3> QED
      BY <3>1, <3>2, <3>3
  <2> QED
    BY <2>1, <2>2
<1>9. list = {} => start = a /\ end = a + m
  BY <1>7, <1>8
<1>10. Freed(list, a, n) = (list \ Gone(list, a, m)) \cup {[addr |-> start, size |-> end - start]}
  <2>1. CASE list = {}
    <3>1. end - start = n
      BY <1>2, <1>6, <1>9, <2>1
    <3> HIDE DEF start, end
    <3> QED
      BY <1>4, <1>9, <2>1, <3>1 DEF Gone
  <2>2. CASE list # {}
    BY <1>4, <1>5, <2>2
  <2> QED
    BY <2>1, <2>2
<1> HIDE DEF start, end
<1>11. Joined(list, a, m, start, end)
  BY <1>7, <1>8 DEF Joined
<1> QED
  BY <1>7, <1>8, <1>10, <1>11 DEF m

\* The list stays in order, and holds what it held and the block.
LEMMA JoinedFacts ==
    ASSUME NEW list, NEW a, NEW m, Entries(list), Apart(list), Block(list, a, m),
           NEW s \in Nat, NEW e \in Nat, Joined(list, a, m, s, e), NEW new,
           new = (list \ Gone(list, a, m)) \cup {[addr |-> s, size |-> e - s]}
    PROVE  /\ Entries(new) /\ Apart(new)
           /\ \A q \in Int : (a <= q /\ q < a + m) => \E c \in new : In(q, c)
           /\ \A q \in Int, d \in list : In(q, d) => \E c \in new : In(q, c)
           /\ \A b \in Nat, k \in Nat \ {0} :
                  Clear(list, b, k) /\ (b + k <= a \/ a + m <= b) => Clear(new, b, k)
<1> DEFINE r == [addr |-> s, size |-> e - s]
<1>1. \A c \in list : /\ c.addr \in Nat /\ c.size \in Nat /\ c.size > 0
                      /\ PageSize <= c.addr /\ End(c) <= End(Region)
                      /\ Whole(c.addr) /\ Whole(c.size)
                      /\ End(c) = c.addr + c.size
                      /\ End(c) <= a \/ a + m <= c.addr
  BY RangeFacts DEF Entries, Block, Clear
<1>2. /\ a \in Nat /\ m \in Nat /\ m > 0 /\ Whole(a) /\ Whole(m)
      /\ PageSize <= a /\ a + m <= End(Region)
  BY DEF Block
<1>3. /\ s <= a /\ a + m <= e
      /\ s = a \/ \E d \in list : d.addr = s /\ End(d) = a
      /\ e = a + m \/ \E d \in list : End(d) = e /\ d.addr = a + m
      /\ \A d \in list : End(d) = a => d.addr = s
      /\ \A d \in list : d.addr = a + m => End(d) = e
  BY DEF Joined
<1>4. /\ Whole(s) /\ Whole(e) /\ PageSize <= s /\ e <= End(Region)
  <2>1. Whole(s) /\ PageSize <= s
    BY <1>1, <1>2, <1>3
  <2>2. Whole(a + m)
    <3>1. a \in Int /\ m \in Int
      BY <1>2
    <3> QED
      BY <1>2, <3>1, WholeSum
  <2>4. \A d \in list : Whole(d.addr + d.size)
    <3>1. \A d \in list : d.addr \in Int /\ d.size \in Int
      BY <1>1
    <3> QED
      BY <1>1, <3>1, WholeSum
  <2>3. Whole(e) /\ e <= End(Region)
    BY <1>1, <1>2, <1>3, <2>2, <2>4
  <2> QED
    BY <2>1, <2>3
<1>5. /\ r.addr = s /\ r.size = e - s /\ End(r) = e /\ r.size > 0 /\ r.size \in Nat
      /\ Whole(r.size) /\ r \in Ranges
  <2>1. r.addr = s /\ r.size = e - s /\ e - s > 0 /\ e - s \in Nat
    BY <1>2, <1>3
  <2>2. End(r) = e
    BY <2>1 DEF End
  <2>3. Whole(e - s)
    BY <1>4, WholeRest
  <2>4. s + (e - s) <= End(Region)
    BY <1>4
  <2>5. r \in Ranges
    BY <1>4, <2>1, <2>4, RangeMade
  <2> QED
    BY <2>1, <2>2, <2>3, <2>5
<1>6. new = (list \ Gone(list, a, m)) \cup {r}
  OBVIOUS
<1> HIDE DEF r
<1>7. \A d \in list \ Gone(list, a, m) :
          d \in list /\ (End(d) < a \/ a + m < d.addr)
  BY <1>1, <1>2 DEF Gone
<1>8. \A d \in list \ Gone(list, a, m) : End(d) < s \/ e < d.addr
  <2> SUFFICES ASSUME NEW d \in list \ Gone(list, a, m) PROVE End(d) < s \/ e < d.addr
    OBVIOUS
  <2>1. CASE End(d) < a
    BY <1>1, <1>2, <1>3, <1>7, <2>1 DEF Apart, Gone
  <2>2. CASE a + m < d.addr
    BY <1>1, <1>2, <1>3, <1>7, <2>2 DEF Apart, Gone
  <2> QED
    BY <1>7, <2>1, <2>2
<1>9. Entries(new)
  BY <1>4, <1>5, <1>6, <1>1 DEF Entries
<1>10. Apart(new)
  BY <1>5, <1>6, <1>7, <1>8 DEF Apart
<1>11. ASSUME NEW q \in Int, a <= q, q < a + m PROVE In(q, r)
  BY <1>2, <1>3, <1>5, <1>11 DEF In
<1>12. ASSUME NEW q \in Int, NEW d \in list, In(q, d) PROVE \E c \in new : In(q, c)
  <2>1. CASE d \notin Gone(list, a, m)
    BY <1>6, <1>12, <2>1
  <2>2. CASE d \in Gone(list, a, m)
    BY <1>1, <1>2, <1>3, <1>5, <1>6, <1>12, <2>2 DEF Gone, In
  <2> QED
    BY <2>1, <2>2
<1>13. ASSUME NEW b \in Nat, NEW k \in Nat \ {0}, Clear(list, b, k),
              b + k <= a \/ a + m <= b
       PROVE  Clear(new, b, k)
  <2>1. e <= b \/ b + k <= s
    BY <1>1, <1>2, <1>3, <1>13 DEF Clear
  <2> QED
    BY <1>5, <1>6, <1>13, <2>1 DEF Clear
<1> QED
  BY <1>6, <1>9, <1>10, <1>11, <1>12, <1>13

\* What kfree_obj does with a block of pages.
LEMMA FreedSound ==
    ASSUME NEW list, NEW a, NEW n \in Nat, Entries(list), Apart(list),
           Block(list, a, RoundUp(n)), ~Splinters(list, n)
    PROVE  LET m == RoundUp(n)
               new == Freed(list, a, n)
           IN  /\ Entries(new) /\ Apart(new)
               /\ \A q \in Int : (a <= q /\ q < a + m) => \E c \in new : In(q, c)
               /\ \A q \in Int, d \in list : In(q, d) => \E c \in new : In(q, c)
               /\ \A b \in Nat, k \in Nat \ {0} :
                      Clear(list, b, k) /\ (b + k <= a \/ a + m <= b) => Clear(new, b, k)
<1>1. PICK s \in Nat, e \in Nat :
          /\ Joined(list, a, RoundUp(n), s, e)
          /\ Freed(list, a, n) = (list \ Gone(list, a, RoundUp(n)))
                                     \cup {[addr |-> s, size |-> e - s]}
  BY FreedFacts
<1> QED
  BY <1>1, JoinedFacts

\* In any case the list is made of ranges.
LEMMA FreedType ==
    ASSUME NEW list, NEW a, NEW n \in Nat, Entries(list), Apart(list),
           Block(list, a, RoundUp(n))
    PROVE  \A c \in Freed(list, a, n) : c \in Ranges
<1>1. CASE Splinters(list, n)
  <2>1. Freed(list, a, n) = {[addr |-> a, size |-> n]}
    BY <1>1 DEF Splinters, Freed
  <2>2. a \in Nat /\ PageSize <= a /\ a + n <= End(Region)
    BY RoundUpFacts, RegionFacts DEF Block
  <2> QED
    BY <2>1, <2>2, RangeMade
<1>2. CASE ~Splinters(list, n)
  BY <1>2, FreedSound DEF Entries
<1> QED
  BY <1>1, <1>2

-----------------------------------------------------------------------------
(* Objects *)

\* What objects hold.
LEMMA ObjFacts ==
    ASSUME TypeOK, NEW o \in objs
    PROVE  /\ o.addr \in Nat /\ o.size \in Nat /\ PageSize <= o.addr
           /\ End(o) = o.addr + o.size
           /\ RoundUp(o.size) \in Nat /\ Whole(RoundUp(o.size))
           /\ o.size <= RoundUp(o.size) /\ RoundUp(o.size) < o.size + PageSize
<1>1. o.addr \in Nat /\ o.size \in Nat /\ PageSize <= o.addr
  BY RegionFacts DEF TypeOK
<1> QED
  BY <1>1, RoundUpFacts DEF End

\* An object's record.
LEMMA ObjMade ==
    ASSUME NEW a \in Nat, NEW n \in Nat, PageSize <= a, a <= End(Region)
    PROVE  [addr |-> a, size |-> n] \in [addr : PageSize .. End(Region), size : Nat]
BY RegionFacts

\* A page that begins in the pages of an object begins in the object.
LEMMA PageBegins ==
    ASSUME NEW a \in Nat, NEW n \in Nat, NEW q \in Nat, Whole(a), Whole(q),
           a <= q, q < a + RoundUp(n)
    PROVE  q < a + n
<1>1. Whole(q - a)
  BY WholeRest
<1>2. q - a \in Int
  OBVIOUS
<1>3. n <= q - a => RoundUp(n) <= q - a
  BY <1>1, <1>2, RoundUpLeast
<1> QED
  BY <1>3, RoundUpFacts

\* Where a page begins.
LEMMA PageWhole ==
    ASSUME NEW p \in 1 .. Pages
    PROVE  p * PageSize \in Nat /\ Whole(p * PageSize)
BY SpaceAssumption DEF Whole

\* What is taken for a creation.
LEMMA FirstFitFacts ==
    ASSUME NEW n \in Nat, n > 0, NEW c \in FirstFit(RoundUp(n))
    PROVE  /\ c \in free
           /\ RoundUp(n) \in Nat /\ Whole(RoundUp(n)) /\ 0 < RoundUp(n)
           /\ RoundUp(n) <= c.size
BY RoundUpFacts DEF FirstFit, Lowest

\* What a size can be resized to.
LEMMA SizeFacts ==
    ASSUME NEW n \in {RoundUp(k) : k \in Sizes \cup {0}}
    PROVE  n \in Nat /\ Whole(n) /\ RoundUp(n) = n
<1>1. n \in Nat /\ Whole(n)
  BY RoundUpFacts, SpaceAssumption
<1> QED
  BY <1>1, RoundUpWhole

\* The rest of an object that shrinks.
LEMMA ShrunkSize ==
    ASSUME NEW k \in Nat, NEW n \in Nat, Whole(n), n < RoundUp(k)
    PROVE  n < k /\ RoundUp(k - n) = RoundUp(k) - n
<1>1. /\ RoundUp(k) \in Nat /\ Whole(RoundUp(k))
      /\ k <= RoundUp(k) /\ RoundUp(k) < k + PageSize
  BY RoundUpFacts
<1>2. n + PageSize <= RoundUp(k)
  BY <1>1, WholeGap
<1>3. n < k
  BY <1>1, <1>2, RegionFacts
<1>4. k - n \in Nat
  BY <1>3
<1>5. /\ RoundUp(k - n) \in Nat /\ Whole(RoundUp(k - n))
      /\ k - n <= RoundUp(k - n)
  BY <1>4, RoundUpFacts
<1>6. RoundUp(k - n) <= RoundUp(k) - n
  <2>1. RoundUp(k) \in Int /\ n \in Int
    BY <1>1
  <2>2. Whole(RoundUp(k) - n)
    BY <1>1, <2>1, WholeRest
  <2>3. RoundUp(k) - n \in Int /\ k - n <= RoundUp(k) - n
    BY <1>1
  <2> QED
    BY <1>4, <2>2, <2>3, RoundUpLeast
<1>7. RoundUp(k) <= RoundUp(k - n) + n
  <2>1. Whole(RoundUp(k - n) + n)
    BY <1>5, WholeSum
  <2>2. RoundUp(k - n) + n \in Int /\ k <= RoundUp(k - n) + n
    BY <1>5
  <2> QED
    BY <2>1, <2>2, RoundUpLeast
<1> QED
  BY <1>1, <1>3, <1>5, <1>6, <1>7

\* An object that grows into an entry ends where the entry begins.
LEMMA GrownSize ==
    ASSUME IInv, Ready, NEW o \in objs, NEW c \in Following(o), NEW n \in Nat, Whole(n),
           CanGrow(o, n)
    PROVE  /\ c \in free
           /\ o.size = RoundUp(o.size) /\ c.addr = o.addr + o.size
           /\ Extra(o, n) = n - o.size /\ n > o.size
<1>1. /\ o.addr \in Nat /\ o.size \in Nat /\ End(o) = o.addr + o.size
      /\ RoundUp(o.size) \in Nat /\ Whole(RoundUp(o.size))
      /\ o.size <= RoundUp(o.size) /\ RoundUp(o.size) < o.size + PageSize
  BY ObjFacts DEF IInv
<1>2. /\ c \in free /\ c.addr = RoundDown(End(o))
  BY DEF Following, GrowsAt
<1>3. /\ c.addr \in Nat /\ c.size \in Nat /\ End(c) = c.addr + c.size
      /\ c.size > 0 /\ Whole(c.size) /\ Whole(c.addr)
  BY <1>2, RangeFacts DEF IInv, Ready, Sound, Entries
<1>4. c.addr <= End(o) /\ End(o) < c.addr + PageSize
  BY <1>1, <1>2, RoundDownFacts
<1>5. o.size > 0 /\ n > RoundUp(o.size)
  BY DEF CanGrow, CanResize
<1>6. End(c) <= o.addr \/ o.addr + RoundUp(o.size) <= c.addr
  BY <1>2, <1>5, <1>1 DEF IInv, Ready, Sound, ObjsClear, Clear
<1>7. Whole(0)
  BY SpaceAssumption DEF Whole
<1>8. PageSize <= c.size
  BY <1>3, <1>7, WholeGap, RegionFacts
<1>9. o.size = RoundUp(o.size) /\ c.addr = o.addr + o.size
  BY <1>1, <1>3, <1>4, <1>5, <1>6, <1>8, RegionFacts
<1>10. Whole(n - o.size)
  <2>1. n \in Int /\ o.size \in Int /\ Whole(o.size)
    BY <1>1, <1>9
  <2> QED
    BY <2>1, WholeRest
<1>11. n - o.size \in Nat
  BY <1>1, <1>5
<1> QED
  BY <1>1, <1>2, <1>5, <1>9, <1>10, <1>11, RoundUpWhole DEF Extra

-----------------------------------------------------------------------------
(* The steps *)

\* What holds of the objects and entries of a state in which they agree.
LEMMA SoundFacts ==
    ASSUME IInv, ~spoiled
    PROVE  /\ TypeOK /\ Entries(free) /\ Apart(free) /\ Covered
           /\ \A o \in objs :
                  /\ o.addr \in Nat /\ o.size \in Nat /\ PageSize <= o.addr
                  /\ Whole(o.addr) /\ End(o) = o.addr + o.size
                  /\ RoundUp(o.size) \in Nat /\ Whole(RoundUp(o.size))
                  /\ o.size <= RoundUp(o.size) /\ RoundUp(o.size) < o.size + PageSize
                  /\ o.addr + RoundUp(o.size) <= End(Region)
                  /\ o.size # 0 => Clear(free, o.addr, RoundUp(o.size))
           /\ \A o, p \in objs : \/ o = p \/ o.size = 0 \/ p.size = 0
                                 \/ o.addr + RoundUp(o.size) <= p.addr
                                 \/ p.addr + RoundUp(p.size) <= o.addr
<1>1. TypeOK /\ Sound
  BY DEF IInv
<1> QED
  BY <1>1, ObjFacts DEF Sound, ObjsWhole, ObjsApart, ObjsClear

\* object_create gives the front of the first fitting entry to the new object.
LEMMA CreateStep ==
    ASSUME IInv, NEW n \in Sizes, Create(n)
    PROVE  IInv'
<1>1. /\ ~spoiled /\ n \in Nat /\ n > 0
      /\ spoiled' = spoiled /\ halted' = halted
  BY SpaceAssumption DEF Create, Ready
<1>2. PICK c \in FirstFit(RoundUp(n)) :
          /\ objs' = objs \cup {[addr |-> c.addr, size |-> n]}
          /\ free' = Allocated(c, RoundUp(n))
  BY DEF Create
<1> DEFINE o == [addr |-> c.addr, size |-> n]
           m == RoundUp(n)
<1>3. c \in free /\ m \in Nat /\ Whole(m) /\ 0 < m /\ m <= c.size
  BY <1>1, FirstFitFacts
<1>4. /\ Entries(free') /\ Apart(free')
      /\ Block(free', c.addr, m)
      /\ \A a, k \in Nat : Clear(free, a, k) => Clear(free', a, k)
      /\ \A q \in Int, d \in free : In(q, d) =>
             \/ c.addr <= q /\ q < c.addr + m
             \/ \E e \in free' : In(q, e)
  BY <1>1, <1>2, <1>3, SoundFacts, AllocatedFacts
<1>5. /\ c.addr \in Nat /\ c.size \in Nat /\ PageSize <= c.addr /\ Whole(c.addr)
      /\ End(c) = c.addr + c.size /\ End(c) <= End(Region)
  BY <1>1, <1>3, SoundFacts, RangeFacts DEF Entries
<1>6. /\ o.addr = c.addr /\ o.size = n /\ End(o) = c.addr + n
      /\ RoundUp(o.size) = m /\ m \in Nat
      /\ o \in [addr : PageSize .. End(Region), size : Nat]
  <2>1. c.addr <= End(Region)
    BY <1>5, RegionFacts
  <2> QED
    BY <1>1, <1>3, <1>5, <2>1, ObjMade DEF End
<1>7. objs' = objs \cup {o}
  BY <1>2
<1> HIDE DEF o, m
<1>8. \A x \in objs : x.size # 0 => \/ End(c) <= x.addr
                                    \/ x.addr + RoundUp(x.size) <= c.addr
  BY <1>1, <1>3, SoundFacts DEF Clear
<1>9. TypeOK'
  BY <1>1, <1>4, <1>6, <1>7, SoundFacts DEF TypeOK, Entries
<1>10. ObjsWhole'
  <2>1. o.addr + RoundUp(o.size) <= End(Region)
    BY <1>3, <1>5, <1>6, RegionFacts
  <2>2. Whole(o.addr)
    BY <1>5, <1>6
  <2> QED
    BY <1>1, <1>7, <2>1, <2>2, SoundFacts DEF ObjsWhole
<1>11. ObjsApart'
  <2>1. \A x \in objs : x.size # 0 => \/ c.addr + m <= x.addr
                                      \/ x.addr + RoundUp(x.size) <= c.addr
    BY <1>1, <1>3, <1>5, <1>8, SoundFacts
  <2> QED
    BY <1>1, <1>6, <1>7, <2>1, SoundFacts DEF ObjsApart
<1>12. ObjsClear'
  BY <1>1, <1>4, <1>6, <1>7, SoundFacts DEF ObjsClear, Block
<1>13. Covered'
  <2> SUFFICES ASSUME NEW p \in 1 .. Pages
               PROVE  \E x \in objs' \cup free' : In(p * PageSize, x)
    BY DEF Covered
  <2> DEFINE q == p * PageSize
  <2>1. q \in Nat /\ Whole(q)
    BY PageWhole
  <2>2. PICK x \in objs \cup free : In(q, x)
    BY <1>1, SoundFacts DEF Covered
  <2> HIDE DEF q
  <2>3. CASE c.addr <= q /\ q < c.addr + m
    <3>1. In(q, o)
      BY <1>1, <1>5, <1>6, <2>1, <2>3, PageBegins DEF In, m
    <3> QED
      BY <1>7, <3>1 DEF q
  <2>4. CASE ~(c.addr <= q /\ q < c.addr + m)
    BY <1>4, <1>7, <2>1, <2>2, <2>4 DEF q
  <2> QED
    BY <2>3, <2>4
<1> QED
  BY <1>1, <1>4, <1>9, <1>10, <1>11, <1>12, <1>13 DEF IInv, Sound

\* A block that was taken from the list, or was an object's, is put back.
LEMMA PutBack ==
    ASSUME IInv, ~spoiled, NEW list, NEW a, NEW n \in Nat, Entries(list), Apart(list),
           Block(list, a, RoundUp(n)), free' = Freed(list, a, n),
           spoiled' = Splinters(list, n), halted' = halted,
           ObjsWhole', ObjsApart',
           objs' \subseteq [addr : PageSize .. End(Region), size : Nat],
           \A x \in objs' : x.size # 0 =>
               /\ Clear(list, x.addr, RoundUp(x.size))
               /\ x.addr + RoundUp(x.size) <= a \/ a + RoundUp(n) <= x.addr,
           \A p \in 1 .. Pages :
               \/ a <= p * PageSize /\ p * PageSize < a + RoundUp(n)
               \/ \E x \in objs' \cup list : In(p * PageSize, x)
    PROVE  IInv'
<1>1. TypeOK'
  <2>1. free' \subseteq Ranges
    BY FreedType
  <2>2. spoiled' \in BOOLEAN /\ halted' \in BOOLEAN
    BY SoundFacts DEF Splinters, TypeOK
  <2> QED
    BY <2>1, <2>2 DEF TypeOK
<1>2. ~spoiled' => Sound'
  <2> SUFFICES ASSUME ~Splinters(list, n) PROVE Sound'
    OBVIOUS
  <2> DEFINE m == RoundUp(n)
  <2>1. /\ Entries(free') /\ Apart(free')
        /\ \A q \in Int : (a <= q /\ q < a + m) => \E c \in free' : In(q, c)
        /\ \A q \in Int, d \in list : In(q, d) => \E c \in free' : In(q, c)
        /\ \A b \in Nat, k \in Nat \ {0} :
               Clear(list, b, k) /\ (b + k <= a \/ a + m <= b) => Clear(free', b, k)
    BY FreedSound
  <2>2. ObjsClear'
    <3> SUFFICES ASSUME NEW x \in objs', x.size # 0
                 PROVE  Clear(free', x.addr, RoundUp(x.size))
      BY DEF ObjsClear
    <3>1. x.addr \in Nat /\ x.size \in Nat
      BY RegionFacts
    <3>2. RoundUp(x.size) \in Nat \ {0}
      BY <3>1, RoundUpFacts
    <3> QED
      BY <2>1, <3>1, <3>2
  <2>3. Covered'
    <3> SUFFICES ASSUME NEW p \in 1 .. Pages
                 PROVE  \E x \in objs' \cup free' : In(p * PageSize, x)
      BY DEF Covered
    <3>1. p * PageSize \in Int
      BY PageWhole
    <3> QED
      BY <2>1, <3>1
  <2> QED
    BY <1>1, <2>1, <2>2, <2>3 DEF Sound
<1>3. halted' => spoiled'
  BY DEF IInv
<1> QED
  BY <1>1, <1>2, <1>3 DEF IInv

\* A creation that the table refuses puts its space back.
LEMMA CreateUndoneStep ==
    ASSUME IInv, NEW n \in Sizes, CreateUndone(n)
    PROVE  IInv'
<1>1. ~spoiled /\ n \in Nat /\ n > 0 /\ objs' = objs /\ halted' = halted
  BY SpaceAssumption DEF CreateUndone, Ready
<1> DEFINE m == RoundUp(n)
<1>2. PICK c \in FirstFit(m) :
          /\ free' = Freed(Allocated(c, m), c.addr, n)
          /\ spoiled' = Splinters(Allocated(c, m), n)
  BY DEF CreateUndone
<1>3. c \in free /\ m \in Nat /\ Whole(m) /\ 0 < m /\ m <= c.size
  BY <1>1, FirstFitFacts
<1> DEFINE rest == Allocated(c, m)
<1>4. /\ Entries(rest) /\ Apart(rest) /\ Block(rest, c.addr, m)
      /\ \A a, k \in Nat : Clear(free, a, k) => Clear(rest, a, k)
      /\ \A q \in Int, d \in free : In(q, d) =>
             \/ c.addr <= q /\ q < c.addr + m
             \/ \E e \in rest : In(q, e)
  BY <1>1, <1>3, SoundFacts, AllocatedFacts
<1>5. c.addr \in Nat /\ c.size \in Nat /\ End(c) = c.addr + c.size
  BY <1>1, <1>3, SoundFacts, RangeFacts DEF Entries
<1>6. \A x \in objs' : x.size # 0 =>
          /\ Clear(rest, x.addr, RoundUp(x.size))
          /\ x.addr + RoundUp(x.size) <= c.addr \/ c.addr + m <= x.addr
  <2> SUFFICES ASSUME NEW x \in objs, x.size # 0
               PROVE  /\ Clear(rest, x.addr, RoundUp(x.size))
                      /\ x.addr + RoundUp(x.size) <= c.addr \/ c.addr + m <= x.addr
    BY <1>1
  <2>1. x.addr \in Nat /\ RoundUp(x.size) \in Nat /\ Clear(free, x.addr, RoundUp(x.size))
    BY <1>1, SoundFacts
  <2>2. End(c) <= x.addr \/ x.addr + RoundUp(x.size) <= c.addr
    BY <1>3, <2>1 DEF Clear
  <2> HIDE DEF m, rest
  <2> QED
    BY <1>3, <1>4, <1>5, <2>1, <2>2
<1>7. \A p \in 1 .. Pages :
          \/ c.addr <= p * PageSize /\ p * PageSize < c.addr + m
          \/ \E x \in objs' \cup rest : In(p * PageSize, x)
  <2> SUFFICES ASSUME NEW p \in 1 .. Pages
               PROVE  \/ c.addr <= p * PageSize /\ p * PageSize < c.addr + m
                      \/ \E x \in objs' \cup rest : In(p * PageSize, x)
    OBVIOUS
  <2>1. p * PageSize \in Int
    BY PageWhole
  <2>2. PICK x \in objs \cup free : In(p * PageSize, x)
    BY <1>1, SoundFacts DEF Covered
  <2> HIDE DEF m, rest
  <2> QED
    BY <1>1, <1>4, <2>1, <2>2
<1>8. /\ objs' \subseteq [addr : PageSize .. End(Region), size : Nat]
      /\ ObjsWhole' /\ ObjsApart'
  <2>1. ObjsWhole /\ ObjsApart /\ TypeOK
    BY <1>1 DEF IInv, Sound
  <2> QED
    BY <1>1, <2>1 DEF ObjsWhole, ObjsApart, TypeOK
<1> HIDE DEF rest
<1>9. free' = Freed(rest, c.addr, n) /\ spoiled' = Splinters(rest, n)
  BY <1>2 DEF rest
<1> QED
  BY <1>1, <1>4, <1>6, <1>7, <1>8, <1>9, PutBack

\* object_delete puts back all pages of the object.
LEMMA DeleteStep ==
    ASSUME IInv, NEW o \in objs, Delete(o)
    PROVE  IInv'
<1>1. /\ ~spoiled /\ o.size > 0 /\ objs' = objs \ {o}
      /\ free' = Freed(free, o.addr, o.size) /\ spoiled' = Splinters(free, o.size)
      /\ halted' = halted
  BY DEF Delete, Ready
<1> DEFINE m == RoundUp(o.size)
<1>2. /\ o.addr \in Nat /\ o.size \in Nat /\ PageSize <= o.addr /\ Whole(o.addr)
      /\ End(o) = o.addr + o.size /\ m \in Nat /\ Whole(m) /\ o.size <= m
      /\ o.addr + m <= End(Region) /\ Clear(free, o.addr, m)
  BY <1>1, SoundFacts
<1>3. Entries(free) /\ Apart(free) /\ Block(free, o.addr, m)
  BY <1>1, <1>2, SoundFacts DEF Block
<1>4. \A x \in objs' : x.size # 0 =>
          /\ Clear(free, x.addr, RoundUp(x.size))
          /\ x.addr + RoundUp(x.size) <= o.addr \/ o.addr + m <= x.addr
  BY <1>1, <1>2, SoundFacts
<1>5. \A p \in 1 .. Pages :
          \/ o.addr <= p * PageSize /\ p * PageSize < o.addr + m
          \/ \E x \in objs' \cup free : In(p * PageSize, x)
  <2> SUFFICES ASSUME NEW p \in 1 .. Pages
               PROVE  \/ o.addr <= p * PageSize /\ p * PageSize < o.addr + m
                      \/ \E x \in objs' \cup free : In(p * PageSize, x)
    OBVIOUS
  <2>1. p * PageSize \in Int
    BY PageWhole
  <2>2. PICK x \in objs \cup free : In(p * PageSize, x)
    BY <1>1, SoundFacts DEF Covered
  <2>3. x = o => o.addr <= p * PageSize /\ p * PageSize < o.addr + m
    BY <1>2, <2>1, <2>2 DEF In
  <2> QED
    BY <1>1, <2>2, <2>3
<1>6. /\ objs' \subseteq [addr : PageSize .. End(Region), size : Nat]
      /\ ObjsWhole' /\ ObjsApart'
  <2>1. ObjsWhole /\ ObjsApart /\ TypeOK
    BY <1>1 DEF IInv, Sound
  <2> QED
    BY <1>1, <2>1 DEF ObjsWhole, ObjsApart, TypeOK
<1> QED
  BY <1>1, <1>2, <1>3, <1>4, <1>5, <1>6, PutBack

\* Part of what is clear is clear.
LEMMA ClearPart ==
    ASSUME NEW list, Entries(list), NEW a \in Nat, NEW m \in Nat, Clear(list, a, m),
           NEW b \in Nat, NEW k \in Nat, a <= b, b + k <= a + m
    PROVE  Clear(list, b, k)
<1>1. \A c \in list : /\ c.addr \in Nat /\ End(c) \in Nat
                      /\ End(c) <= a \/ a + m <= c.addr
  BY RangeFacts DEF Entries, Clear
<1> QED
  BY <1>1 DEF Clear

\* An object has another size.
New(o, n) == [o EXCEPT !.size = n]

\* Only the size changes.
LEMMA ResizedType ==
    ASSUME TypeOK, NEW o \in objs, NEW n \in Nat
    PROVE  /\ New(o, n).addr = o.addr /\ New(o, n).size = n
           /\ End(New(o, n)) = o.addr + n
           /\ Resized(o, n) = (objs \ {o}) \cup {New(o, n)}
           /\ Resized(o, n) \subseteq [addr : PageSize .. End(Region), size : Nat]
BY DEF TypeOK, Resized, New, End

\* The new size is apart from other objects when its pages are.
LEMMA ResizedFacts ==
    ASSUME IInv, ~spoiled, NEW o \in objs, NEW n \in Nat, RoundUp(n) = n,
           o.addr + n <= End(Region), objs' = Resized(o, n),
           \A x \in objs \ {o} : \/ x.size = 0 \/ n = 0
                                 \/ x.addr + RoundUp(x.size) <= o.addr
                                 \/ o.addr + n <= x.addr
    PROVE  ObjsWhole' /\ ObjsApart'
<1>1. /\ New(o, n).addr = o.addr /\ New(o, n).size = n
      /\ objs' = (objs \ {o}) \cup {New(o, n)}
  BY SoundFacts, ResizedType
<1>2. ObjsWhole'
  BY <1>1, SoundFacts DEF ObjsWhole
<1>3. ObjsApart'
  BY <1>1, SoundFacts DEF ObjsApart
<1> QED
  BY <1>2, <1>3

\* An object is resized to the pages it has.
LEMMA ResizeWithinStep ==
    ASSUME IInv, NEW o \in objs, NEW n \in {RoundUp(k) : k \in Sizes \cup {0}},
           ResizeWithin(o, n)
    PROVE  IInv'
<1>1. /\ ~spoiled /\ o.size > 0 /\ n = RoundUp(o.size) /\ objs' = Resized(o, n)
      /\ free' = free /\ spoiled' = spoiled /\ halted' = halted
      /\ n \in Nat /\ RoundUp(n) = n
  BY SizeFacts DEF ResizeWithin, CanResize, Ready
<1>2. /\ o.addr \in Nat /\ o.size \in Nat /\ End(o) = o.addr + o.size
      /\ o.size <= n /\ o.addr + n <= End(Region) /\ Clear(free, o.addr, n)
  BY <1>1, SoundFacts
<1>3. \A x \in objs \ {o} : \/ x.size = 0 \/ n = 0
                            \/ x.addr + RoundUp(x.size) <= o.addr
                            \/ o.addr + n <= x.addr
  BY <1>1, SoundFacts
<1>4. /\ New(o, n).addr = o.addr /\ New(o, n).size = n /\ End(New(o, n)) = o.addr + n
      /\ objs' = (objs \ {o}) \cup {New(o, n)}
      /\ objs' \subseteq [addr : PageSize .. End(Region), size : Nat]
  BY <1>1, SoundFacts, ResizedType
<1>5. ObjsWhole' /\ ObjsApart'
  BY <1>1, <1>2, <1>3, ResizedFacts
<1>6. ObjsClear'
  BY <1>1, <1>2, <1>4, SoundFacts DEF ObjsClear
<1>7. Covered'
  <2> SUFFICES ASSUME NEW p \in 1 .. Pages
               PROVE  \E x \in objs' \cup free' : In(p * PageSize, x)
    BY DEF Covered
  <2>1. p * PageSize \in Int
    BY PageWhole
  <2>2. PICK x \in objs \cup free : In(p * PageSize, x)
    BY <1>1, SoundFacts DEF Covered
  <2>3. x = o => In(p * PageSize, New(o, n))
    BY <1>2, <1>4, <2>1, <2>2 DEF In
  <2> QED
    BY <1>1, <1>4, <2>2, <2>3
<1>8. TypeOK' /\ Entries(free') /\ Apart(free')
  BY <1>1, <1>4, SoundFacts DEF TypeOK
<1> QED
  BY <1>1, <1>5, <1>6, <1>7, <1>8 DEF IInv, Sound

\* The end of an object is put back.
LEMMA ShrinkStep ==
    ASSUME IInv, NEW o \in objs, NEW n \in {RoundUp(k) : k \in Sizes \cup {0}},
           Shrink(o, n)
    PROVE  IInv'
<1>1. /\ ~spoiled /\ o.size > 0 /\ n < RoundUp(o.size) /\ objs' = Resized(o, n)
      /\ free' = Freed(free, o.addr + n, o.size - n)
      /\ spoiled' = Splinters(free, o.size - n) /\ halted' = halted
      /\ n \in Nat /\ Whole(n) /\ RoundUp(n) = n
  BY SizeFacts DEF Shrink, Shrunk, CanResize, Ready
<1> DEFINE a == o.addr + n
           k == o.size - n
           m == RoundUp(o.size) - n
<1>2. /\ o.addr \in Nat /\ o.size \in Nat /\ End(o) = o.addr + o.size
      /\ PageSize <= o.addr /\ Whole(o.addr)
      /\ RoundUp(o.size) \in Nat /\ Whole(RoundUp(o.size)) /\ o.size <= RoundUp(o.size)
      /\ o.addr + RoundUp(o.size) <= End(Region) /\ Clear(free, o.addr, RoundUp(o.size))
  BY <1>1, SoundFacts
<1>3. /\ k \in Nat /\ k > 0 /\ RoundUp(k) = m /\ m \in Nat /\ m > 0 /\ a \in Nat
      /\ a + m = o.addr + RoundUp(o.size)
  BY <1>1, <1>2, ShrunkSize
<1>4. Block(free, a, RoundUp(k))
  <2>1. Whole(a) /\ Whole(m)
    <3>1. o.addr \in Int /\ n \in Int /\ RoundUp(o.size) \in Int
      BY <1>1, <1>2
    <3> QED
      BY <1>1, <1>2, <3>1, WholeSum, WholeRest
  <2>2. Clear(free, a, m)
    <3>1. o.addr <= a /\ a + m <= o.addr + RoundUp(o.size)
      BY <1>1, <1>2, <1>3
    <3> HIDE DEF a, m
    <3> QED
      BY <1>1, <1>2, <1>3, <3>1, SoundFacts, ClearPart
  <2>3. PageSize <= a /\ a + m <= End(Region)
    BY <1>1, <1>2, <1>3, RegionFacts
  <2> HIDE DEF a, k, m
  <2> QED
    BY <1>3, <2>1, <2>2, <2>3 DEF Block
<1>5. \A x \in objs \ {o} : \/ x.size = 0
                            \/ x.addr + RoundUp(x.size) <= o.addr
                            \/ o.addr + RoundUp(o.size) <= x.addr
  BY <1>1, SoundFacts
<1>6. /\ New(o, n).addr = o.addr /\ New(o, n).size = n /\ End(New(o, n)) = o.addr + n
      /\ objs' = (objs \ {o}) \cup {New(o, n)}
      /\ objs' \subseteq [addr : PageSize .. End(Region), size : Nat]
  BY <1>1, SoundFacts, ResizedType
<1>7. ObjsWhole' /\ ObjsApart'
  <2>1. o.addr + n <= End(Region)
    BY <1>1, <1>2, RegionFacts
  <2>2. \A x \in objs \ {o} : \/ x.size = 0 \/ n = 0
                              \/ x.addr + RoundUp(x.size) <= o.addr
                              \/ o.addr + n <= x.addr
    BY <1>1, <1>2, <1>5, SoundFacts
  <2> QED
    BY <1>1, <2>1, <2>2, ResizedFacts
<1>8. \A x \in objs' : x.size # 0 =>
          /\ Clear(free, x.addr, RoundUp(x.size))
          /\ x.addr + RoundUp(x.size) <= a \/ a + RoundUp(k) <= x.addr
  <2>1. ASSUME NEW x \in objs \ {o}, x.size # 0
        PROVE  /\ Clear(free, x.addr, RoundUp(x.size))
               /\ x.addr + RoundUp(x.size) <= a \/ a + RoundUp(k) <= x.addr
    <3>1. x.addr \in Nat /\ RoundUp(x.size) \in Nat /\ Clear(free, x.addr, RoundUp(x.size))
      BY <1>1, <2>1, SoundFacts
    <3> QED
      BY <1>1, <1>2, <1>3, <1>5, <2>1, <3>1
  <2>2. Clear(free, o.addr, n) /\ o.addr + n <= a
    <3>1. o.addr <= o.addr /\ o.addr + n <= o.addr + RoundUp(o.size)
      BY <1>1, <1>2
    <3> QED
      BY <1>1, <1>2, <3>1, SoundFacts, ClearPart
  <2> HIDE DEF a, k
  <2> QED
    BY <1>1, <1>6, <2>1, <2>2
<1>9. \A p \in 1 .. Pages :
          \/ a <= p * PageSize /\ p * PageSize < a + RoundUp(k)
          \/ \E x \in objs' \cup free : In(p * PageSize, x)
  <2> SUFFICES ASSUME NEW p \in 1 .. Pages
               PROVE  \/ a <= p * PageSize /\ p * PageSize < a + RoundUp(k)
                      \/ \E x \in objs' \cup free : In(p * PageSize, x)
    OBVIOUS
  <2> DEFINE q == p * PageSize
  <2>1. q \in Int
    BY PageWhole
  <2>2. PICK x \in objs \cup free : In(q, x)
    BY <1>1, SoundFacts DEF Covered
  <2> HIDE DEF q
  <2>3. x = o => In(q, New(o, n)) \/ (a <= q /\ q < a + RoundUp(k))
    BY <1>1, <1>2, <1>3, <1>6, <2>1, <2>2 DEF In
  <2> HIDE DEF a, k
  <2>4. (a <= q /\ q < a + RoundUp(k)) \/ \E y \in objs' \cup free : In(q, y)
    BY <1>6, <2>2, <2>3
  <2> QED
    BY <2>4 DEF q
<1>10. Entries(free) /\ Apart(free)
  BY <1>1, SoundFacts
<1>11. free' = Freed(free, a, k) /\ spoiled' = Splinters(free, k)
  BY <1>1
<1> HIDE DEF a, k, m
<1> QED
  BY <1>1, <1>3, <1>4, <1>6, <1>7, <1>8, <1>9, <1>10, <1>11, PutBack

\* An object grows into the entry that follows it.
LEMMA GrowStep ==
    ASSUME IInv, NEW o \in objs, NEW n \in {RoundUp(k) : k \in Sizes \cup {0}},
           Grow(o, n)
    PROVE  IInv'
<1>1. /\ ~spoiled /\ Ready /\ o.size > 0 /\ CanGrow(o, n)
      /\ objs' = Resized(o, n) /\ spoiled' = spoiled /\ halted' = halted
      /\ n \in Nat /\ Whole(n) /\ RoundUp(n) = n
  BY SizeFacts DEF Grow, CanGrow, CanResize, Ready
<1> DEFINE m == n - o.size
<1>2. PICK c \in Following(o) :
          c.size > Extra(o, n) /\ free' = Allocated(c, Extra(o, n))
  BY DEF Grow
<1>3. /\ c \in free /\ o.size = RoundUp(o.size) /\ c.addr = o.addr + o.size
      /\ Extra(o, n) = m /\ n > o.size
  BY <1>1, GrownSize
<1>4. /\ o.addr \in Nat /\ o.size \in Nat /\ End(o) = o.addr + o.size
      /\ PageSize <= o.addr /\ Whole(o.size) /\ Clear(free, o.addr, o.size)
  BY <1>1, <1>3, SoundFacts
<1>5. /\ c.addr \in Nat /\ c.size \in Nat /\ End(c) = c.addr + c.size
      /\ End(c) <= End(Region)
  BY <1>1, <1>3, SoundFacts, RangeFacts DEF Entries
<1>6. m \in Nat /\ 0 < m /\ m <= c.size /\ Whole(m) /\ o.addr + n = c.addr + m
  <2>1. Whole(m)
    <3>1. n \in Int /\ o.size \in Int
      BY <1>1, <1>4
    <3> QED
      BY <1>1, <1>4, <3>1, WholeRest
  <2> QED
    BY <1>1, <1>2, <1>3, <1>4, <1>5, <2>1
<1>7. free' = Allocated(c, m)
  BY <1>2, <1>3
<1> HIDE DEF m
<1>8. /\ Entries(free') /\ Apart(free')
      /\ Block(free', c.addr, m)
      /\ \A a, k \in Nat : Clear(free, a, k) => Clear(free', a, k)
      /\ \A q \in Int, d \in free : In(q, d) =>
             \/ c.addr <= q /\ q < c.addr + m
             \/ \E e \in free' : In(q, e)
  BY <1>1, <1>3, <1>6, <1>7, SoundFacts, AllocatedFacts
<1>9. /\ New(o, n).addr = o.addr /\ New(o, n).size = n /\ End(New(o, n)) = o.addr + n
      /\ objs' = (objs \ {o}) \cup {New(o, n)}
      /\ objs' \subseteq [addr : PageSize .. End(Region), size : Nat]
  BY <1>1, SoundFacts, ResizedType
<1>10. ObjsWhole' /\ ObjsApart'
  <2>1. o.addr + n <= End(Region)
    BY <1>5, <1>6, RegionFacts
  <2>2. ASSUME NEW x \in objs \ {o}, x.size # 0
        PROVE  x.addr + RoundUp(x.size) <= o.addr \/ o.addr + n <= x.addr
    <3>1. /\ x.addr \in Nat /\ RoundUp(x.size) \in Nat /\ RoundUp(x.size) > 0
          /\ Clear(free, x.addr, RoundUp(x.size))
      BY <1>1, <2>2, SoundFacts
    <3>2. End(c) <= x.addr \/ x.addr + RoundUp(x.size) <= c.addr
      BY <1>3, <3>1 DEF Clear
    <3>3. x.addr + RoundUp(x.size) <= o.addr \/ o.addr + o.size <= x.addr
      BY <1>1, <1>3, <2>2, SoundFacts
    <3> QED
      BY <1>3, <1>4, <1>5, <1>6, <3>1, <3>2, <3>3
  <2> QED
    BY <1>1, <2>1, <2>2, ResizedFacts
<1>11. ObjsClear'
  <2>1. Clear(free', o.addr, n)
    <3> SUFFICES ASSUME NEW e \in free'
                 PROVE  End(e) <= o.addr \/ o.addr + n <= e.addr
      BY DEF Clear
    <3>1. /\ End(e) <= o.addr \/ o.addr + o.size <= e.addr
          /\ End(e) <= c.addr \/ c.addr + m <= e.addr
      BY <1>4, <1>8 DEF Block, Clear
    <3>2. e.addr \in Nat /\ e.size \in Nat /\ e.size > 0 /\ End(e) = e.addr + e.size
      BY <1>8, RangeFacts DEF Entries
    <3> QED
      BY <1>3, <1>4, <1>6, <3>1, <3>2
  <2>2. \A x \in objs : x.size # 0 => Clear(free', x.addr, RoundUp(x.size))
    BY <1>1, <1>8, SoundFacts
  <2> QED
    BY <1>1, <1>9, <2>1, <2>2 DEF ObjsClear
<1>12. Covered'
  <2> SUFFICES ASSUME NEW p \in 1 .. Pages
               PROVE  \E x \in objs' \cup free' : In(p * PageSize, x)
    BY DEF Covered
  <2> DEFINE q == p * PageSize
  <2>1. q \in Int
    BY PageWhole
  <2>2. PICK x \in objs \cup free : In(q, x)
    BY <1>1, SoundFacts DEF Covered
  <2> HIDE DEF q
  <2>3. x = o \/ (c.addr <= q /\ q < c.addr + m) => In(q, New(o, n))
    BY <1>3, <1>4, <1>6, <1>9, <1>1, <2>1, <2>2 DEF In
  <2>4. \E y \in objs' \cup free' : In(q, y)
    BY <1>8, <1>9, <2>1, <2>2, <2>3
  <2> QED
    BY <2>4 DEF q
<1>13. TypeOK'
  BY <1>1, <1>8, <1>9, SoundFacts DEF TypeOK, Entries
<1> QED
  BY <1>1, <1>8, <1>10, <1>11, <1>12, <1>13 DEF IInv, Sound

\* After the other ways of growing the model stops.
LEMMA GrowWholeStep ==
    ASSUME IInv, NEW o \in objs, NEW n \in {RoundUp(k) : k \in Sizes \cup {0}},
           GrowWhole(o, n)
    PROVE  IInv'
<1>1. PICK c \in Following(o) :
          \/ halted' = TRUE /\ UNCHANGED <<objs, free>>
          \/ free' = {} /\ objs' = Resized(o, n) /\ UNCHANGED halted
          \/ /\ free' = free \ ({c} \cup Highest(Below(free, c.addr)))
             /\ objs' = Resized(o, n) /\ UNCHANGED halted
  BY DEF GrowWhole
<1>2. spoiled' = TRUE /\ TypeOK /\ n \in Nat
  BY SizeFacts DEF GrowWhole, IInv
<1>3. TypeOK'
  BY <1>1, <1>2, ResizedType DEF TypeOK
<1> QED
  BY <1>2, <1>3 DEF IInv

\* An object that grew over others leaves the list at odds.
LEMMA GrowAnywayStep ==
    ASSUME IInv, NEW o \in objs, NEW n \in {RoundUp(k) : k \in Sizes \cup {0}},
           GrowAnyway(o, n)
    PROVE  IInv'
<1>1. /\ spoiled' = TRUE /\ free' = free /\ halted' = halted /\ objs' = Resized(o, n)
      /\ TypeOK /\ n \in Nat
  BY SizeFacts DEF GrowAnyway, IInv
<1>2. TypeOK'
  BY <1>1, ResizedType DEF TypeOK
<1> QED
  BY <1>1, <1>2 DEF IInv

\* At the start the region is one entry.
LEMMA IInvInit == Init => IInv
<1> SUFFICES ASSUME Init PROVE IInv
  OBVIOUS
<1>1. objs = {} /\ free = {Region} /\ spoiled = FALSE /\ halted = FALSE
  BY DEF Init
<1>2. Region \in Ranges
  BY RegionFacts DEF Ranges, Region
<1>3. Entries(free)
  BY <1>1, <1>2, RegionFacts DEF Entries
<1>4. Apart(free)
  BY <1>1 DEF Apart
<1>5. Covered
  <2> SUFFICES ASSUME NEW p \in 1 .. Pages PROVE In(p * PageSize, Region)
    BY <1>1 DEF Covered
  <2>1. PageSize <= p * PageSize
    BY SpaceAssumption
  <2>2. p * PageSize < PageSize + Pages * PageSize
    <3>1. p < Pages + 1 /\ p \in Int /\ Pages + 1 \in Int
      BY SpaceAssumption
    <3>2. p * PageSize + PageSize <= (Pages + 1) * PageSize
      BY <3>1, MoreIsWhole
    <3> QED
      BY <3>2, SpaceAssumption
  <2> QED
    BY <2>1, <2>2, RegionFacts DEF In
<1>6. TypeOK
  BY <1>1, <1>2 DEF TypeOK
<1> QED
  BY <1>1, <1>3, <1>4, <1>5, <1>6 DEF IInv, Sound, ObjsWhole, ObjsApart, ObjsClear

\* Every step keeps the objects and the list in agreement, or marks them as spoiled.
LEMMA IInvStep == IInv /\ [Next]_vars => IInv'
<1> SUFFICES ASSUME IInv, [Next]_vars PROVE IInv'
  OBVIOUS
<1>1. ASSUME UNCHANGED vars PROVE IInv'
  BY <1>1 DEF vars, IInv, TypeOK, Sound, Entries, Apart, ObjsWhole, ObjsApart, ObjsClear,
              Clear, Covered
<1>2. ASSUME NEW n \in Sizes, Create(n) \/ CreateUndone(n) PROVE IInv'
  BY <1>2, CreateStep, CreateUndoneStep
<1>3. ASSUME NEW o \in objs, Delete(o) PROVE IInv'
  BY <1>3, DeleteStep
<1>4. ASSUME NEW o \in objs, NEW n \in {RoundUp(k) : k \in Sizes \cup {0}},
             \/ ResizeWithin(o, n) \/ Shrink(o, n) \/ Grow(o, n)
             \/ GrowWhole(o, n) \/ GrowAnyway(o, n)
      PROVE  IInv'
  BY <1>4, ResizeWithinStep, ShrinkStep, GrowStep, GrowWholeStep, GrowAnywayStep
<1> QED
  BY <1>1, <1>2, <1>3, <1>4 DEF Next

\* The calls on objects keep the objects and the freelist a tiling of the region, until one
\* of them spoils it (object_create, object_delete, object_resize).
THEOREM Invariant == Spec => []IInv
<1> QED
  BY IInvInit, IInvStep, PTL DEF Spec

-----------------------------------------------------------------------------
(* The properties *)

\* The freelist is made of ranges of the region, and objects begin in it, whatever
\* kmalloc_obj, kmalloc_obj_addr and kfree_obj split and join.
THEOREM TypeCorrect == Spec => []TypeOK
<1>1. IInv => TypeOK
  BY DEF IInv
<1> QED
  BY <1>1, Invariant, PTL

\* The pages of an object or entry are those that begin in it.
LEMMA PagesIn ==
    ASSUME NEW x, NEW p \in 1 .. Pages
    PROVE  p \in PagesOf(x) <=> In(p * PageSize, x)
BY DEF PagesOf, In

\* Until the list is spoiled, by the growth of an object whose next entry is taken whole or
\* is too small or by part of a page that is put back to an empty list, every page is one
\* object's or one entry's: object_create, object_delete and object_resize neither lose a
\* page nor give it away twice.
THEOREM PagesAreAccounted == Spec => []PagesAccounted
<1>1. IInv => PagesAccounted
  <2> SUFFICES ASSUME IInv, ~spoiled, NEW p \in 1 .. Pages
               PROVE  /\ \E x \in objs \cup free : p \in PagesOf(x)
                      /\ \A x, y \in objs : p \in PagesOf(x) \cap PagesOf(y) => x = y
                      /\ \A x, y \in free : p \in PagesOf(x) \cap PagesOf(y) => x = y
                      /\ \A x \in objs, y \in free : p \notin PagesOf(x) \cap PagesOf(y)
    BY DEF PagesAccounted
  <2> DEFINE q == p * PageSize
  <2>1. q \in Int
    BY PageWhole
  <2>2. \A x : p \in PagesOf(x) <=> In(q, x)
    BY PagesIn
  <2>3. \E x \in objs \cup free : In(q, x)
    BY SoundFacts DEF Covered
  <2> HIDE DEF q
  <2>4. \A x \in objs : In(q, x) =>
            /\ x.addr \in Nat /\ RoundUp(x.size) \in Nat
            /\ x.size # 0 /\ x.addr <= q /\ q < x.addr + RoundUp(x.size)
    BY <2>1, SoundFacts DEF In
  <2>5. \A x, y \in objs : In(q, x) /\ In(q, y) => x = y
    BY <2>1, <2>4, SoundFacts
  <2>6. \A x \in free : In(q, x) =>
            x.addr \in Nat /\ End(x) \in Nat /\ x.addr <= q /\ q < End(x)
    BY SoundFacts, RangeFacts DEF Entries, In
  <2>7. \A x, y \in free : In(q, x) /\ In(q, y) => x = y
    BY <2>1, <2>6, SoundFacts DEF Apart
  <2>8. \A x \in objs, y \in free : ~(In(q, x) /\ In(q, y))
    <3> SUFFICES ASSUME NEW x \in objs, NEW y \in free, In(q, x), In(q, y) PROVE FALSE
      OBVIOUS
    <3>1. Clear(free, x.addr, RoundUp(x.size))
      BY <2>4, SoundFacts
    <3> QED
      BY <2>1, <2>4, <2>6, <3>1 DEF Clear
  <2> QED
    BY <2>2, <2>3, <2>5, <2>7, <2>8
<1> QED
  BY <1>1, Invariant, PTL

\* Until the list is spoiled, entries are of whole pages, and kfree_obj joins what it puts
\* back to both its neighbours.
THEOREM EntriesAreWhole == Spec => []EntriesWhole
<1>1. IInv => EntriesWhole
  <2> SUFFICES ASSUME IInv, ~spoiled
               PROVE  /\ \A c \in free : /\ c.size > 0
                                         /\ c.addr % PageSize = 0
                                         /\ c.size % PageSize = 0
                      /\ \A c, d \in free : End(c) # d.addr
    BY DEF EntriesWhole
  <2>1. \A c \in free : /\ c.addr \in Nat /\ c.size \in Nat /\ c.size > 0
                        /\ Whole(c.addr) /\ Whole(c.size) /\ End(c) = c.addr + c.size
    BY SoundFacts, RangeFacts DEF Entries
  <2>2. \A c \in free : c.addr \in Int /\ c.size \in Int
    BY <2>1
  <2>3. \A c \in free : c.addr % PageSize = 0 /\ c.size % PageSize = 0
    BY <2>1, <2>2, WholeMod
  <2>4. \A c, d \in free : c = d \/ End(c) < d.addr \/ End(d) < c.addr
    BY SoundFacts DEF Apart
  <2> QED
    BY <2>1, <2>3, <2>4
<1> QED
  BY <1>1, Invariant, PTL

-----------------------------------------------------------------------------
(* Refusals *)

\* Of the entries of a list, one is the lowest.
LEMMA LowestThere ==
    ASSUME NEW S, S # {}, \A c \in S : c.addr \in Nat
    PROVE  Lowest(S) # {}
<1> DEFINE A == {c.addr : c \in S}
<1>1. A \subseteq Nat /\ A # {}
  OBVIOUS
<1>2. PICK x \in A : \A y \in A : ~(<<y, x>> \in OpToRel(<, Nat))
  BY <1>1, NatLessThanWellFounded, WFMin
<1>3. PICK c \in S : c.addr = x
  OBVIOUS
<1> HIDE DEF A
<1>4. \A y \in A : ~(y < x)
  BY <1>1, <1>2 DEF OpToRel
<1>5. \A d \in S : x <= d.addr
  <2>1. \A d \in S : d.addr \in A
    BY DEF A
  <2>2. x \in Nat
    BY <1>1
  <2> QED
    BY <1>4, <2>1, <2>2
<1>6. c \in Lowest(S)
  BY <1>3, <1>5 DEF Lowest
<1> QED
  BY <1>6

\* The number of pages.
LEMMA WholeDiv ==
    ASSUME NEW n \in Int, Whole(n)
    PROVE  /\ PageOf(n) \in Int /\ PageOf(n) * PageSize = n
           /\ n > 0 => PageOf(n) > 0
<1> DEFINE d == n \div PageSize
<1>1. d \in Int /\ n % PageSize = 0 /\ n % PageSize = n - d * PageSize
  BY DivFacts, WholeMod
<1> HIDE DEF d
<1>2. d * PageSize \in Int
  BY <1>1, SpaceAssumption
<1>3. d * PageSize = n
  BY <1>1, <1>2
<1>4. n > 0 => d > 0
  BY <1>1, <1>3, SpaceAssumption
<1> QED
  BY <1>1, <1>3, <1>4 DEF PageOf, d

\* A page that is no object's is in the list.
LEMMA FreePage ==
    ASSUME IInv, ~spoiled, NEW p \in 1 .. Pages, \A o \in objs : p \notin PagesOf(o)
    PROVE  \E c \in free : In(p * PageSize, c)
BY SoundFacts, PagesIn DEF Covered

\* Free pages side by side are in one entry.
LEMMA RunInEntry ==
    ASSUME IInv, ~spoiled, NEW p \in 1 .. Pages, NEW k \in Nat, k > 0, FreeRun(p, k)
    PROVE  \E c \in free : c.addr <= p * PageSize /\ p * PageSize + k * PageSize <= End(c)
<1>1. \A q \in p .. p + k - 1 : q <= Pages /\ \A o \in objs : q \notin PagesOf(o)
  BY DEF FreeRun
<1>2. PICK c \in free : In(p * PageSize, c)
  BY <1>1, FreePage, SpaceAssumption
<1>3. \A d \in free : /\ d.addr \in Nat /\ d.size \in Nat /\ d.size > 0
                      /\ Whole(d.addr) /\ Whole(d.size) /\ End(d) = d.addr + d.size
  BY SoundFacts, RangeFacts DEF Entries
<1>4. PICK j \in Int : End(c) = j * PageSize
  <2>1. c.addr \in Int /\ c.size \in Int
    BY <1>3
  <2>2. Whole(c.addr + c.size)
    BY <1>3, <2>1, WholeSum
  <2> QED
    BY <1>3, <2>2 DEF Whole
<1>5. p * PageSize \in Nat /\ c.addr <= p * PageSize /\ p * PageSize < End(c)
  BY <1>2, PageWhole DEF In
<1>6. p < j
  <2>1. j < p => j * PageSize + PageSize <= p * PageSize
    BY MoreIsWhole
  <2> QED
    BY <1>3, <1>4, <1>5, <2>1, RegionFacts
<1>7. ~(j < p + k)
  <2> SUFFICES ASSUME j < p + k PROVE FALSE
    OBVIOUS
  <2>1. j \in 1 .. Pages /\ \A o \in objs : j \notin PagesOf(o)
    BY <1>1, <1>6
  <2>2. PICK d \in free : In(j * PageSize, d)
    BY <2>1, FreePage
  <2>3. d.addr <= End(c) /\ End(c) < End(d)
    BY <1>4, <2>2 DEF In
  <2>4. c = d \/ End(c) < d.addr \/ End(d) < c.addr
    BY SoundFacts DEF Apart
  <2> QED
    BY <1>3, <2>3, <2>4
<1>8. p * PageSize + k * PageSize <= End(c)
  <2>1. (p + k) * PageSize = p * PageSize + k * PageSize
    BY SpaceAssumption
  <2>2. j = p + k \/ (p + k) * PageSize + PageSize <= j * PageSize
    BY <1>7, MoreIsWhole
  <2>3. (p + k) * PageSize \in Int /\ j * PageSize \in Int
    BY SpaceAssumption
  <2> QED
    BY <1>4, <2>1, <2>2, <2>3, RegionFacts
<1> QED
  BY <1>5, <1>8

\* Until the list is spoiled, object_create and object_resize are refused space only when the
\* pages are not all free: free pages side by side are in one entry.
THEOREM RefusalsAreForWant == Spec => []RefusedForWant
<1>1. IInv => RefusedForWant
  <2> SUFFICES ASSUME IInv, ~spoiled PROVE RefusedForWant
    BY DEF RefusedForWant, Ready
  <2>1. ASSUME NEW n \in Sizes \ {0}, FirstFit(RoundUp(n)) = {}, NEW p \in 1 .. Pages,
               FreeRun(p, PageOf(RoundUp(n)))
        PROVE  FALSE
    <3> DEFINE k == PageOf(RoundUp(n))
    <3>1. n \in Nat /\ n > 0
      BY SpaceAssumption
    <3>2. RoundUp(n) \in Nat /\ Whole(RoundUp(n)) /\ RoundUp(n) > 0
      BY <3>1, RoundUpFacts
    <3>3. k \in Nat /\ k > 0 /\ k * PageSize = RoundUp(n)
      BY <3>2, WholeDiv
    <3>4. PICK c \in free : /\ c.addr <= p * PageSize
                            /\ p * PageSize + k * PageSize <= End(c)
      BY <2>1, <3>3, RunInEntry
    <3>5. \A d \in free : d.addr \in Nat /\ d.size \in Nat /\ End(d) = d.addr + d.size
      BY SoundFacts, RangeFacts DEF Entries
    <3>6. p * PageSize \in Nat
      BY PageWhole
    <3>7. c.size >= RoundUp(n)
      BY <3>2, <3>3, <3>4, <3>5, <3>6
    <3> QED
      BY <2>1, <3>5, <3>7, LowestThere DEF FirstFit
  <2>2. ASSUME NEW o \in objs, NEW n \in Sizes, o.size % PageSize = 0,
               CannotGrow(o, RoundUp(n)),
               FreeRun(PageOf(End(o)), PageOf(RoundUp(n) - o.size))
        PROVE  FALSE
    <3> DEFINE p == PageOf(End(o))
               k == PageOf(RoundUp(n) - o.size)
    <3>1. /\ o.addr \in Nat /\ o.size \in Nat /\ PageSize <= o.addr /\ Whole(o.addr)
          /\ End(o) = o.addr + o.size /\ o.size <= RoundUp(o.size)
          /\ RoundUp(o.size) \in Nat
      BY SoundFacts
    <3>2. o.addr \in Int /\ o.size \in Int /\ Whole(o.size)
      BY <2>2, <3>1, WholeMod
    <3>3. Whole(End(o)) /\ End(o) \in Int /\ End(o) > 0
      <4>1. Whole(o.addr + o.size)
        BY <3>1, <3>2, WholeSum
      <4> QED
        BY <3>1, <4>1, RegionFacts
    <3>4. RoundUp(n) \in Nat /\ Whole(RoundUp(n)) /\ RoundUp(n) - o.size > 0
      <4>1. RoundUp(n) > RoundUp(o.size)
        BY <2>2 DEF CannotGrow, CanGrow
      <4>2. RoundUp(n) \in Nat /\ Whole(RoundUp(n))
        BY RoundUpFacts, SpaceAssumption
      <4> QED
        BY <3>1, <4>1, <4>2
    <3>5. Whole(RoundUp(n) - o.size) /\ RoundUp(n) - o.size \in Int
      <4>1. RoundUp(n) \in Int
        BY <3>4
      <4>2. Whole(RoundUp(n) - o.size)
        BY <3>2, <3>4, <4>1, WholeRest
      <4> QED
        BY <3>2, <4>1, <4>2
    <3>6. p \in Int /\ p > 0 /\ p * PageSize = End(o)
      BY <3>3, WholeDiv
    <3>7. k \in Int /\ k > 0
      BY <3>4, <3>5, WholeDiv
    <3> HIDE DEF p, k
    <3>8. p \in p .. p + k - 1
      BY <3>6, <3>7
    <3>9. p \in 1 .. Pages /\ \A x \in objs : p \notin PagesOf(x)
      BY <2>2, <3>6, <3>8, SpaceAssumption DEF FreeRun, p, k
    <3>10. PICK c \in free : In(End(o), c)
      BY <3>6, <3>9, FreePage
    <3>11. c.addr \in Nat /\ c.addr <= End(o)
      BY <3>10, SoundFacts, RangeFacts DEF Entries, In
    <3>12. GrowsAt(o) = End(o)
      BY <3>6 DEF GrowsAt, RoundDown, PageOf, p
    <3>13. c.addr # End(o) /\ ~(c.addr < End(o))
      BY <2>2, <3>12 DEF CannotGrow, Following, Below
    <3> QED
      BY <3>3, <3>11, <3>13
  <2> QED
    BY <2>1, <2>2 DEF RefusedForWant
<1> QED
  BY <1>1, Invariant, PTL
=============================================================================
