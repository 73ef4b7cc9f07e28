--------------------------- MODULE RamPagerProofs ---------------------------
(***************************************************************************)
(* Proofs about RamPager.  A frame is in entries of one page, and belongs  *)
(* to that page from the moment rpager takes it off the list until it is   *)
(* in the page table; everything that is mapped comes from the table.      *)
(* A thread that a pager works for waits for what the pager has mapped,    *)
(* and no two pagers work for one thread.                                  *)
(***************************************************************************)
EXTENDS RamPager, TLAPS, WellFoundedInduction

\* The page and the frame are together in the table t.
EntryOf(t, p, f) ==
    \E i \in DOMAIN t[p % MaxPtable] : t[p % MaxPtable][i] = [page |-> p, frame |-> f]

Entered(p, f) == EntryOf(ptable, p, f)

\* An entry is in the bucket of its page, with a frame that was handed out.
EntriesHome ==
    \A h \in Buckets : \A i \in DOMAIN ptable[h] :
        /\ ptable[h][i].page % MaxPtable = h
        /\ ptable[h][i].frame <= frames

\* Entries with one frame are of one page.
FramesApart ==
    \A h, k \in Buckets : \A i \in DOMAIN ptable[h], j \in DOMAIN ptable[k] :
        ptable[h][i].frame = ptable[k][j].frame => ptable[h][i].page = ptable[k][j].page

\* So is the frame in rpager's hands.
RpagerFrame ==
    rpager.step # "idle" =>
        /\ rpager.page \in Pages /\ rpager.frame \in 1 .. frames
        /\ \A h \in Buckets : \A i \in DOMAIN ptable[h] :
               ptable[h][i].frame = rpager.frame => ptable[h][i].page = rpager.page

\* What is mapped, or on its way, is in the table; pages that are asked for are pages.
OnItsWay ==
    /\ rpager.step = "map" => Entered(rpager.page, rpager.frame)
    /\ apager.step = "send" => apager.page \in Pages /\ Entered(apager.page, apager.frame)
    /\ mpager.step # "idle" => mpager.page \in Pages
    /\ \A u \in Users : user[u].state # "run" => user[u].page \in Pages
    /\ \A p \in Pages : mpager_has[p] # None => Entered(p, mpager_has[p])
    /\ \A u \in Users, p \in Pages : mapped[u][p] # None => Entered(p, mapped[u][p])

\* What pending faults and rpager lead to is there.
Linked ==
    /\ rpager.off # None => ppftable[rpager.off] # None
    /\ \A i \in Offsets :
          ppftable[i] # None /\ ppftable[i].collision # None =>
              ppftable[ppftable[i].collision] # None

IInv == TypeOK /\ EntriesHome /\ FramesApart /\ RpagerFrame /\ OnItsWay /\ Linked

-----------------------------------------------------------------------------
(* Sequences and chains *)

LEMMA InsertAtFacts ==
    ASSUME NEW S, NEW q \in Seq(S), NEW i \in 1 .. Len(q) + 1, NEW e \in S
    PROVE  /\ InsertAt(q, i, e) \in Seq(S)
           /\ Len(InsertAt(q, i, e)) = Len(q) + 1
           /\ \A j \in 1 .. i - 1 : InsertAt(q, i, e)[j] = q[j]
           /\ InsertAt(q, i, e)[i] = e
           /\ \A j \in i + 1 .. Len(q) + 1 : InsertAt(q, i, e)[j] = q[j - 1]
<1> DEFINE front == SubSeq(q, 1, i - 1)
           back  == SubSeq(q, i, Len(q))
           mid   == front \o <<e>>
<1>1. front \in Seq(S) /\ Len(front) = i - 1 /\ \A j \in 1 .. i - 1 : front[j] = q[j]
  OBVIOUS
<1>2. back \in Seq(S) /\ Len(back) = Len(q) - i + 1
      /\ \A j \in 1 .. Len(q) - i + 1 : back[j] = q[i + j - 1]
  OBVIOUS
<1>3. mid \in Seq(S) /\ Len(mid) = i /\ mid[i] = e /\ \A j \in 1 .. i - 1 : mid[j] = q[j]
  <2> HIDE DEF front
  <2> QED
    BY <1>1
<1>4. /\ mid \o back \in Seq(S) /\ Len(mid \o back) = Len(q) + 1
      /\ \A j \in 1 .. i - 1 : (mid \o back)[j] = q[j]
      /\ (mid \o back)[i] = e
      /\ \A j \in i + 1 .. Len(q) + 1 : (mid \o back)[j] = q[j - 1]
  <2> HIDE DEF mid, back
  <2>1. mid \o back \in Seq(S) /\ Len(mid \o back) = Len(q) + 1 /\ Len(q) \in Nat
    BY <1>2, <1>3
  <2>2. ASSUME NEW j \in 1 .. i - 1 PROVE (mid \o back)[j] = q[j]
    <3>1. (mid \o back)[j] = mid[j] /\ mid[j] = q[j]
      BY <1>2, <1>3
    <3> QED
      BY <3>1
  <2>3. (mid \o back)[i] = e
    BY <1>2, <1>3
  <2>4. ASSUME NEW j \in i + 1 .. Len(q) + 1 PROVE (mid \o back)[j] = q[j - 1]
    <3>1. (mid \o back)[j] = back[j - i]
      BY <2>1, <1>2, <1>3
    <3>2. back[j - i] = q[i + (j - i) - 1]
      BY <2>1, <1>2
    <3> QED
      BY <3>1, <3>2
  <2> QED
    BY <2>1, <2>2, <2>3, <2>4
<1> QED
  BY <1>4 DEF InsertAt

\* A nonempty set of naturals has a least member.
LEMMA LeastNat ==
    ASSUME NEW T, T \subseteq Nat, T # {}
    PROVE  \E x \in T : \A y \in T : x <= y
<1>1. PICK x \in T : \A y \in T : ~(<<y, x>> \in OpToRel(<, Nat))
  BY NatLessThanWellFounded, WFMin
<1>2. \A y \in T : ~(y < x)
  BY <1>1 DEF OpToRel
<1> QED
  BY <1>2

\* add_collision always stops somewhere.
LEMMA PositionFacts ==
    ASSUME NEW q \in Seq(Ptes), q # <<>>, NEW p \in Pages
    PROVE  Position(q, p) \in 1 .. Len(q) + 1
<1> DEFINE T == {i \in DOMAIN q : i = Len(q) \/ q[i].page >= p}
<1>1. T \subseteq Nat /\ Len(q) \in T
  OBVIOUS
<1>2. PICK x \in T : \A y \in T : x <= y
  BY <1>1, LeastNat
<1>3. \A i \in DOMAIN q : q[i].page \in Nat
  <2>1. \A i \in DOMAIN q : q[i] \in Ptes
    OBVIOUS
  <2> QED
    BY <2>1, PagerAssumption DEF Ptes
<1>4. StopsAt(q, p, x)
  <2>1. ASSUME NEW j \in 1 .. x - 1 PROVE q[j].page < p
    <3>1. j \in DOMAIN q /\ j \notin T
      BY <1>2
    <3>2. ~(q[j].page >= p)
      BY <3>1
    <3> QED
      BY <3>1, <3>2, <1>3, PagerAssumption
  <2> QED
    BY <2>1 DEF StopsAt
<1>5. (CHOOSE i \in DOMAIN q : StopsAt(q, p, i)) \in DOMAIN q
  BY <1>4
<1> QED
  BY <1>5 DEF Position

\* add_pte adds one entry and keeps the others.
LEMMA AddedFacts ==
    ASSUME NEW q \in Seq(Ptes), NEW p \in Pages, NEW f \in Frames
    PROVE  LET e == [page |-> p, frame |-> f]
               a == Added(q, p, f)
           IN  /\ a \in Seq(Ptes)
               /\ \A j \in DOMAIN a : a[j] = e \/ \E i \in DOMAIN q : a[j] = q[i]
               /\ \A i \in DOMAIN q : \E j \in DOMAIN a : a[j] = q[i]
               /\ \E j \in DOMAIN a : a[j] = e
<1> DEFINE e == [page |-> p, frame |-> f]
<1>1. e \in Ptes
  BY DEF Ptes
<1>2. CASE q = <<>>
  BY <1>1, <1>2 DEF Added
<1>3. CASE q # <<>>
  <2> DEFINE i == Position(q, p)
             a == InsertAt(q, i, e)
  <2>1. i \in 1 .. Len(q) + 1
    BY <1>3, PositionFacts
  <2> HIDE DEF i, e
  <2>2. /\ a \in Seq(Ptes) /\ Len(a) = Len(q) + 1
        /\ \A j \in 1 .. i - 1 : a[j] = q[j]
        /\ a[i] = e
        /\ \A j \in i + 1 .. Len(q) + 1 : a[j] = q[j - 1]
    <3>1. e \in Ptes
      BY <1>1 DEF e
    <3> QED
      BY <3>1, <2>1, InsertAtFacts DEF a
  <2> HIDE DEF a
  <2>3. DOMAIN a = 1 .. Len(q) + 1 /\ DOMAIN q = 1 .. Len(q) /\ Len(q) \in Nat
    BY <2>2
  <2>4. \A j \in DOMAIN a : a[j] = e \/ \E k \in DOMAIN q : a[j] = q[k]
    <3> SUFFICES ASSUME NEW j \in DOMAIN a PROVE a[j] = e \/ \E k \in DOMAIN q : a[j] = q[k]
      OBVIOUS
    <3>1. CASE j < i
      <4>1. j \in DOMAIN q /\ a[j] = q[j]
        BY <3>1, <2>1, <2>2, <2>3
      <4> QED
        BY <4>1
    <3>2. CASE j = i
      BY <3>2, <2>2, <2>3
    <3>3. CASE j > i
      <4>1. j - 1 \in DOMAIN q /\ a[j] = q[j - 1]
        BY <3>3, <2>1, <2>2, <2>3
      <4> QED
        BY <4>1
    <3> QED
      BY <3>1, <3>2, <3>3, <2>1, <2>3
  <2>5. \A k \in DOMAIN q : \E j \in DOMAIN a : a[j] = q[k]
    <3> SUFFICES ASSUME NEW k \in DOMAIN q PROVE \E j \in DOMAIN a : a[j] = q[k]
      OBVIOUS
    <3>1. CASE k < i
      <4>1. k \in DOMAIN a /\ a[k] = q[k]
        BY <3>1, <2>1, <2>2, <2>3
      <4> QED
        BY <4>1
    <3>2. CASE k >= i
      <4>1. k + 1 \in DOMAIN a /\ a[k + 1] = q[k]
        BY <3>2, <2>1, <2>2, <2>3
      <4> QED
        BY <4>1
    <3> QED
      BY <3>1, <3>2, <2>1, <2>3
  <2>6. i \in DOMAIN a /\ a[i] = e
    BY <2>1, <2>2, <2>3
  <2>7. Added(q, p, f) = a
    BY <1>3 DEF Added, a, i, e
  <2> QED
    BY <2>2, <2>4, <2>5, <2>6, <2>7 DEF e
<1> QED
  BY <1>2, <1>3

LEMMA Hashes ==
    /\ \A p \in Pages : p % MaxPtable \in Buckets
    /\ \A p \in Pages : Primary(p) \in Offsets /\ Primary(p) < MaxPf
<1>1. ASSUME NEW p \in Pages PROVE p % MaxPtable \in Buckets
  BY PagerAssumption DEF Buckets
<1>2. ASSUME NEW p \in Pages PROVE p % MaxPf \in 0 .. MaxPf - 1
  BY PagerAssumption
<1>3. ASSUME NEW p \in Pages PROVE Primary(p) \in Offsets /\ Primary(p) < MaxPf
  BY <1>2, PagerAssumption DEF Primary, Offsets
<1> QED
  BY <1>1, <1>3

-----------------------------------------------------------------------------
(* Types *)

LEMMA SlotForFacts ==
    ASSUME TypeOK, NEW p \in Pages, NEW i \in SlotFor(p)
    PROVE  /\ i \in Offsets /\ ppftable[i] = None
           /\ i # Primary(p) => ppftable[Primary(p)] \in Pending
<1>1. Primary(p) \in Offsets
  BY Hashes
<1>2. CASE ppftable[Primary(p)] = None
  BY <1>1, <1>2 DEF SlotFor
<1>3. CASE ppftable[Primary(p)] # None
  BY <1>1, <1>3 DEF SlotFor, TypeOK, OrNone
<1> QED
  BY <1>2, <1>3

LEMMA SavedType ==
    ASSUME TypeOK, NEW p \in Pages, NEW i \in SlotFor(p), NEW u \in OrNone(Users),
           NEW to \in {"apager", "mpager"}
    PROVE  Saved(i, p, u, to) \in [Offsets -> OrNone(Pending)]
<1> DEFINE linked == IF i = Primary(p) THEN ppftable
                     ELSE [ppftable EXCEPT ![Primary(p)].collision = i]
           e == [page |-> p, user |-> u, to |-> to, collision |-> None]
<1>1. i \in Offsets /\ (i # Primary(p) => ppftable[Primary(p)] \in Pending)
  BY SlotForFacts
<1>2. linked \in [Offsets -> OrNone(Pending)]
  <2>1. CASE i = Primary(p)
    BY <2>1 DEF TypeOK
  <2>2. CASE i # Primary(p)
    <3>1. [ppftable[Primary(p)] EXCEPT !.collision = i] \in Pending
      BY <1>1, <2>2 DEF Pending, OrNone
    <3> QED
      BY <2>2, <3>1 DEF TypeOK, OrNone
  <2> QED
    BY <2>1, <2>2
<1>3. e \in OrNone(Pending)
  BY DEF Pending, OrNone
<1>4. Saved(i, p, u, to) = [linked EXCEPT ![i] = e]
  BY DEF Saved
<1> HIDE DEF linked, e
<1> QED
  BY <1>2, <1>3, <1>4

LEMMA PteOfFacts ==
    ASSUME TypeOK, NEW p \in Pages, Finds(p)
    PROVE  /\ PteOf(p) \in Ptes /\ PteOf(p).page = p
           /\ \E i \in DOMAIN Bucket(p) : PteOf(p) = Bucket(p)[i]
<1> DEFINE q == Bucket(p)
           i == CHOOSE i \in DOMAIN q : FoundAt(q, p, i)
<1>1. i \in DOMAIN q /\ FoundAt(q, p, i)
  BY DEF Finds
<1>2. q \in Seq(Ptes)
  BY Hashes DEF TypeOK, Bucket
<1>3. PteOf(p) = q[i]
  BY DEF PteOf
<1>4. q[i].page = p
  BY <1>1 DEF FoundAt
<1> HIDE DEF q, i
<1> QED
  BY <1>1, <1>2, <1>3, <1>4 DEF q

\* An entry has a frame.
LEMMA EntryFrame ==
    ASSUME TypeOK, NEW p \in Pages, NEW f, EntryOf(ptable, p, f)
    PROVE  f \in Frames
<1>1. PICK i \in DOMAIN Bucket(p) : Bucket(p)[i] = [page |-> p, frame |-> f]
  BY DEF EntryOf, Bucket
<1>2. Bucket(p) \in Seq(Ptes)
  BY Hashes DEF TypeOK, Bucket
<1> HIDE DEF Bucket
<1>3. [page |-> p, frame |-> f] \in Ptes
  BY <1>1, <1>2
<1> QED
  BY <1>3 DEF Ptes

LEMMA TypeInit == Init => TypeOK
<1> SUFFICES ASSUME Init PROVE TypeOK
  OBVIOUS
<1> USE DEF Init, OrNone
<1>1. user \in [Users -> Threads] /\ mapped \in [Users -> [Pages -> OrNone(Frames)]]
  BY DEF Threads
<1>2. mpager \in Mpagers /\ mpager_has \in [Pages -> OrNone(Frames)] /\ apager \in Apagers
  BY DEF Mpagers, Apagers, MpagerIdle, ApagerIdle
<1>3. rpager \in Rpagers
  BY DEF Rpagers, RpagerIdle
<1>4. ptable \in [Buckets -> Seq(Ptes)] /\ ppftable \in [Offsets -> OrNone(Pending)]
  OBVIOUS
<1>5. frames \in 0 .. MaxFtable /\ abandoned \subseteq Users
      /\ stop \in {"no", "assertion", "overrun"}
  BY PagerAssumption
<1> QED
  BY <1>1, <1>2, <1>3, <1>4, <1>5 DEF TypeOK

\* What a fault that reaches rpager does to the types.
LEMMA KnownType ==
    ASSUME TypeOK, NEW p \in Pages, NEW u \in OrNone(Users),
           NEW to \in {"apager", "mpager"}, Known(p, u, to)
    PROVE  rpager' \in Rpagers /\ UNCHANGED <<ppftable, frames, stop>>
<1>1. PteOf(p).frame \in Frames
  BY PteOfFacts DEF Known, Ptes
<1> QED
  BY <1>1 DEF Known, Rpagers, RpagerIdle, OrNone

LEMMA UnknownType ==
    ASSUME TypeOK, NEW p \in Pages, NEW u \in OrNone(Users),
           NEW to \in {"apager", "mpager"}, Unknown(p, u, to)
    PROVE  /\ rpager' \in Rpagers
           /\ ppftable' \in [Offsets -> OrNone(Pending)]
           /\ frames' \in 0 .. MaxFtable
           /\ stop' \in {"no", "assertion", "overrun"}
<1>1. CASE stop' = "overrun" /\ UNCHANGED <<rpager, ppftable, frames>>
  BY <1>1 DEF TypeOK
<1>2. ASSUME NEW i \in SlotFor(p),
             ppftable' = Saved(i, p, u, to),
             rpager' = IF AlreadyRequested(p) \/ frames = MaxFtable THEN RpagerIdle
                       ELSE [RpagerIdle EXCEPT !.step = "request", !.page = p,
                                               !.frame = NewFrame, !.off = i],
             IF AlreadyRequested(p) THEN UNCHANGED <<frames, stop>>
             ELSE IF frames = MaxFtable
             THEN stop' = "assertion" /\ UNCHANGED frames
             ELSE frames' = frames + 1 /\ UNCHANGED stop
      PROVE  /\ rpager' \in Rpagers
             /\ ppftable' \in [Offsets -> OrNone(Pending)]
             /\ frames' \in 0 .. MaxFtable
             /\ stop' \in {"no", "assertion", "overrun"}
  <2>1. ppftable' \in [Offsets -> OrNone(Pending)]
    BY <1>2, SavedType
  <2>2. i \in Offsets
    BY SlotForFacts
  <2>3. frames # MaxFtable => NewFrame \in Frames
    BY PagerAssumption DEF TypeOK, NewFrame, Frames
  <2>4. rpager' \in Rpagers
    BY <1>2, <2>2, <2>3 DEF Rpagers, RpagerIdle, OrNone
  <2>5. frames' \in 0 .. MaxFtable /\ stop' \in {"no", "assertion", "overrun"}
    BY <1>2, PagerAssumption DEF TypeOK
  <2> QED
    BY <2>1, <2>4, <2>5
<1> QED
  BY <1>1, <1>2 DEF Unknown

\* Answer enters rpager's page, with rpager's frame.
Enters ==
    /\ rpager.step # "idle"
    /\ ptable' = [ptable EXCEPT ![rpager.page % MaxPtable] =
                     Added(@, rpager.page, rpager.frame)]
    /\ rpager'.step = "map" /\ rpager'.page = rpager.page /\ rpager'.frame = rpager.frame

LEMMA AnswerCases ==
    ASSUME TypeOK, Linked, RpagerFrame, Answer
    PROVE  /\ rpager' \in Rpagers /\ stop' \in {"no", "assertion", "overrun"}
           /\ rpager'.off # None => ppftable[rpager'.off] # None
           /\ \/ Enters
              \/ /\ UNCHANGED ptable
                 /\ \/ rpager'.step = "idle"
                    \/ /\ rpager'.step # "map" /\ rpager.step # "idle"
                       /\ rpager'.page = rpager.page /\ rpager'.frame = rpager.frame
<1> DEFINE pf == ppftable[rpager.off]
<1>1. rpager \in Rpagers /\ stop \in {"no", "assertion", "overrun"} /\ rpager.step # "idle"
  BY DEF TypeOK, Answer
<1>2. CASE rpager.off = None
  BY <1>1, <1>2 DEF Answer, RpagerIdle, Rpagers, OrNone
<1>3. CASE rpager.off # None
  <2>1. rpager.off \in Offsets
    BY <1>1, <1>3 DEF Rpagers, OrNone
  <2>2. pf \in Pending
    BY <1>3, <2>1 DEF TypeOK, OrNone, Linked
  <2>3. pf.collision # None => ppftable[pf.collision] # None
    BY <1>3, <2>1 DEF Linked
  <2> HIDE DEF pf
  <2>4. CASE pf.page # rpager.page
    <3>1. rpager' = [rpager EXCEPT !.step = "walk", !.off = pf.collision]
          /\ UNCHANGED <<ptable, stop>>
      BY <1>3, <2>4 DEF Answer, pf
    <3> QED
      BY <1>1, <2>2, <2>3, <3>1 DEF Rpagers, Pending
  <2>5. CASE pf.page = rpager.page /\ UNCHANGED <<rpager, ptable>>
    BY <1>1, <1>3, <2>5 DEF Answer, pf, Linked
  <2>6. CASE /\ pf.page = rpager.page
             /\ ptable' = [ptable EXCEPT ![pf.page % MaxPtable] =
                               Added(@, pf.page, rpager.frame)]
             /\ rpager' = [rpager EXCEPT !.step = "map", !.to = pf.to,
                               !.user = pf.user, !.off = pf.collision]
             /\ UNCHANGED stop
    <3>1. rpager' \in Rpagers
      BY <1>1, <2>2, <2>6 DEF Rpagers, Pending
    <3>2. rpager'.off = pf.collision
      BY <1>1, <2>6 DEF Rpagers
    <3>3. Enters
      BY <1>1, <2>6 DEF Enters, Rpagers
    <3> QED
      BY <1>1, <2>3, <2>6, <3>1, <3>2, <3>3
  <2> QED
    BY <1>3, <2>4, <2>5, <2>6 DEF Answer, pf
<1> QED
  BY <1>2, <1>3

LEMMA AnswerType ==
    ASSUME TypeOK, Linked, RpagerFrame, Answer
    PROVE  rpager' \in Rpagers /\ ptable' \in [Buckets -> Seq(Ptes)]
           /\ stop' \in {"no", "assertion", "overrun"}
<1>1. CASE Enters
  <2> DEFINE h == rpager.page % MaxPtable
  <2>1. rpager.page \in Pages /\ rpager.frame \in Frames
    BY <1>1, PagerAssumption DEF RpagerFrame, Enters, Frames, TypeOK
  <2>2. h \in Buckets
    BY <2>1, Hashes
  <2>3. Added(ptable[h], rpager.page, rpager.frame) \in Seq(Ptes)
    BY <2>1, <2>2, AddedFacts DEF TypeOK
  <2> QED
    BY <1>1, <2>2, <2>3, AnswerCases DEF TypeOK, Enters
<1> QED
  BY <1>1, AnswerCases DEF TypeOK

LEMMA MapsType ==
    ASSUME TypeOK, NEW u, NEW p, NEW f \in OrNone(Frames), Maps(u, p, f)
    PROVE  user' \in [Users -> Threads] /\ mapped' \in [Users -> [Pages -> OrNone(Frames)]]
<1>1. [state |-> "run", page |-> None] \in Threads
  BY DEF Threads, OrNone
<1>2. user' \in [Users -> Threads]
  BY <1>1 DEF TypeOK, Maps
<1>3. mapped' \in [Users -> [Pages -> OrNone(Frames)]]
  <2>1. ASSUME u \in Users PROVE [mapped[u] EXCEPT ![p] = f] \in [Pages -> OrNone(Frames)]
    BY <2>1 DEF TypeOK
  <2> QED
    BY <2>1 DEF TypeOK, Maps
<1> QED
  BY <1>2, <1>3

LEMMA TypeStep == IInv /\ [Next]_vars => TypeOK'
<1> SUFFICES ASSUME IInv, [Next]_vars PROVE TypeOK'
  OBVIOUS
<1>0. TypeOK /\ Linked /\ RpagerFrame /\ OnItsWay
  BY DEF IInv
<1>1. ASSUME NEW u \in Users, NEW p \in Pages, Fault(u, p) PROVE TypeOK'
  <2>1. [state |-> "sent", page |-> p] \in Threads
    BY DEF Threads, OrNone
  <2> QED
    BY <1>0, <1>1, <2>1 DEF TypeOK, Fault
<1>2. ASSUME NEW u \in Users, Abandon(u) PROVE TypeOK'
  <2>1. [state |-> "run", page |-> None] \in Threads
    BY DEF Threads, OrNone
  <2> QED
    BY <1>0, <1>2, <2>1 DEF TypeOK, Abandon
<1>3. ASSUME NEW u \in Users, Take(u) PROVE TypeOK'
  <2>1. user[u] \in Threads
    BY <1>0 DEF TypeOK
  <2>2. [user[u] EXCEPT !.state = "wait"] \in Threads /\ user[u].page \in OrNone(Pages)
    BY <2>1 DEF Threads
  <2>3. user' \in [Users -> Threads]
    BY <1>0, <1>3, <2>2 DEF TypeOK, Take
  <2>4. mpager' \in Mpagers
    BY <1>3, <2>2 DEF Take, Mpagers, MpagerIdle, OrNone
  <2> QED
    BY <1>0, <1>3, <2>3, <2>4 DEF TypeOK, Take
<1>4. ASSUME MpagerMaps PROVE TypeOK'
  <2>1. mpager.page \in Pages
    BY <1>0, <1>4 DEF OnItsWay, MpagerMaps
  <2>2. mpager_has[mpager.page] \in OrNone(Frames)
    BY <1>0, <2>1 DEF TypeOK
  <2>3. MpagerIdle \in Mpagers
    BY DEF MpagerIdle, Mpagers, OrNone
  <2>4. user' \in [Users -> Threads] /\ mapped' \in [Users -> [Pages -> OrNone(Frames)]]
    BY <1>0, <1>4, <2>2, MapsType DEF MpagerMaps
  <2> QED
    BY <1>0, <1>4, <2>3, <2>4 DEF TypeOK, MpagerMaps
<1>5. ASSUME Ask PROVE TypeOK'
  <2>1. mpager.page \in Pages /\ mpager.user \in OrNone(Users)
    BY <1>0, <1>5 DEF OnItsWay, Ask, TypeOK, Mpagers
  <2>2. /\ rpager' \in Rpagers /\ ppftable' \in [Offsets -> OrNone(Pending)]
        /\ frames' \in 0 .. MaxFtable /\ stop' \in {"no", "assertion", "overrun"}
    <3>1. CASE Known(mpager.page, mpager.user, "apager")
      BY <1>0, <2>1, <3>1, KnownType DEF TypeOK
    <3>2. CASE Unknown(mpager.page, mpager.user, "apager")
      BY <1>0, <2>1, <3>2, UnknownType
    <3> QED
      BY <1>5, <3>1, <3>2 DEF Ask
  <2>3. MpagerIdle \in Mpagers
    BY DEF MpagerIdle, Mpagers, OrNone
  <2> QED
    BY <1>0, <1>5, <2>2, <2>3 DEF TypeOK, Ask
<1>6. ASSUME Touch PROVE TypeOK'
  <2>1. mpager.page \in Pages /\ None \in OrNone(Users)
    BY <1>0, <1>6 DEF OnItsWay, Touch, OrNone
  <2>2. /\ rpager' \in Rpagers /\ ppftable' \in [Offsets -> OrNone(Pending)]
        /\ frames' \in 0 .. MaxFtable /\ stop' \in {"no", "assertion", "overrun"}
    <3>1. CASE Known(mpager.page, None, "mpager")
      BY <1>0, <2>1, <3>1, KnownType DEF TypeOK
    <3>2. CASE Unknown(mpager.page, None, "mpager")
      BY <1>0, <2>1, <3>2, UnknownType
    <3> QED
      BY <1>6, <3>1, <3>2 DEF Touch
  <2> QED
    BY <1>0, <1>6, <2>2 DEF TypeOK, Touch
<1>7. ASSUME Read PROVE TypeOK'
  <2>1. [rpager EXCEPT !.step = "answer"] \in Rpagers
    BY <1>0 DEF TypeOK, Rpagers
  <2> QED
    BY <1>0, <1>7, <2>1 DEF TypeOK, Read
<1>8. ASSUME Answer PROVE TypeOK'
  BY <1>0, <1>8, AnswerType DEF TypeOK, Answer
<1>9. ASSUME MapForUser PROVE TypeOK'
  <2>1. rpager \in Rpagers
    BY <1>0 DEF TypeOK
  <2>2. apager' \in Apagers
    BY <1>9, <2>1 DEF MapForUser, Apagers, Rpagers
  <2>3. rpager' \in Rpagers
    BY <1>9, <2>1 DEF MapForUser, WalksOn, Rpagers, RpagerIdle, OrNone
  <2> QED
    BY <1>0, <1>9, <2>2, <2>3 DEF TypeOK, MapForUser
<1>10. ASSUME MapForMpager PROVE TypeOK'
  <2>1. rpager \in Rpagers /\ mpager \in Mpagers
    BY <1>0 DEF TypeOK
  <2>2. mpager' \in Mpagers
    BY <1>10, <2>1 DEF MapForMpager, Mpagers
  <2>3. rpager' \in Rpagers
    BY <1>10, <2>1 DEF MapForMpager, WalksOn, Rpagers, RpagerIdle, OrNone
  <2>4. rpager.frame \in OrNone(Frames)
    BY <2>1 DEF Rpagers
  <2> QED
    BY <1>0, <1>10, <2>2, <2>3, <2>4 DEF TypeOK, MapForMpager
<1>11. ASSUME ApagerSends PROVE TypeOK'
  <2>1. apager.frame \in OrNone(Frames)
    BY <1>0 DEF TypeOK, Apagers
  <2>2. ApagerIdle \in Apagers
    BY DEF ApagerIdle, Apagers, OrNone
  <2>3. user' \in [Users -> Threads] /\ mapped' \in [Users -> [Pages -> OrNone(Frames)]]
    BY <1>0, <1>11, <2>1, MapsType DEF ApagerSends
  <2> QED
    BY <1>0, <1>11, <2>2, <2>3 DEF TypeOK, ApagerSends
<1>12. CASE UNCHANGED vars
  BY <1>0, <1>12 DEF TypeOK, vars
<1> QED
  BY <1>1, <1>2, <1>3, <1>4, <1>5, <1>6, <1>7, <1>8, <1>9, <1>10, <1>11, <1>12 DEF Next

-----------------------------------------------------------------------------
(* The page table *)

\* Only Answer changes it, and frames are never given back.
LEMMA TableStep ==
    IInv /\ [Next]_vars =>
        \/ Enters /\ UNCHANGED <<frames, mapped, mpager, mpager_has, apager>>
        \/ UNCHANGED ptable /\ frames <= frames'
<1> SUFFICES ASSUME IInv, [Next]_vars
             PROVE  \/ Enters /\ UNCHANGED <<frames, mapped, mpager, mpager_has, apager>>
                    \/ UNCHANGED ptable /\ frames <= frames'
  OBVIOUS
<1>1. TypeOK /\ Linked /\ RpagerFrame /\ frames \in Int
  BY PagerAssumption DEF IInv, TypeOK
<1>2. CASE Answer
  <2>1. UNCHANGED <<frames, mapped, mpager, mpager_has, apager>>
    BY <1>2 DEF Answer
  <2>2. Enters \/ UNCHANGED ptable
    BY <1>1, <1>2, AnswerCases
  <2> QED
    BY <1>1, <2>1, <2>2
<1>3. CASE Ask \/ Touch
  <2>1. ASSUME NEW p, NEW u, NEW to, Unknown(p, u, to) PROVE frames <= frames'
    <3>1. frames' = frames \/ frames' = frames + 1
      BY <2>1 DEF Unknown
    <3> QED
      BY <1>1, <3>1
  <2>2. ASSUME NEW p, NEW u, NEW to, Known(p, u, to) PROVE frames <= frames'
    BY <1>1, <2>2 DEF Known
  <2> QED
    BY <1>3, <2>1, <2>2 DEF Ask, Touch
<1>4. ASSUME NEW u \in Users, NEW p \in Pages, Fault(u, p)
      PROVE  UNCHANGED <<ptable, frames>>
  BY <1>4 DEF Fault
<1>5. ASSUME NEW u \in Users, Abandon(u) \/ Take(u) PROVE UNCHANGED <<ptable, frames>>
  BY <1>5 DEF Abandon, Take
<1>6. CASE MpagerMaps \/ Read \/ MapForUser \/ MapForMpager \/ ApagerSends
  BY <1>1, <1>6 DEF MpagerMaps, Read, MapForUser, MapForMpager, ApagerSends
<1>7. CASE UNCHANGED vars
  BY <1>1, <1>7 DEF vars
<1> QED
  BY <1>1, <1>2, <1>3, <1>4, <1>5, <1>6, <1>7 DEF Next

\* An entry that is made keeps the others where they are.
LEMMA EntersFacts ==
    ASSUME IInv, Enters
    PROVE  /\ rpager.page \in Pages /\ rpager.frame \in 1 .. frames
           /\ \A p \in Pages, f \in Frames : EntryOf(ptable, p, f) => EntryOf(ptable', p, f)
           /\ EntryOf(ptable', rpager.page, rpager.frame)
           /\ \A h \in Buckets : \A i \in DOMAIN ptable'[h] :
                 \/ /\ h = rpager.page % MaxPtable
                    /\ ptable'[h][i].page = rpager.page /\ ptable'[h][i].frame = rpager.frame
                 \/ \E j \in DOMAIN ptable[h] : ptable'[h][i] = ptable[h][j]
<1> DEFINE k == rpager.page % MaxPtable
           a == Added(ptable[k], rpager.page, rpager.frame)
           e == [page |-> rpager.page, frame |-> rpager.frame]
<1>1. rpager.page \in Pages /\ rpager.frame \in 1 .. frames /\ rpager.frame \in Frames
  BY PagerAssumption DEF IInv, RpagerFrame, Enters, Frames, TypeOK
<1>2. k \in Buckets
  BY <1>1, Hashes
<1>3. ptable \in [Buckets -> Seq(Ptes)] /\ ptable' = [ptable EXCEPT ![k] = a]
  BY DEF IInv, TypeOK, Enters
<1>4. ptable'[k] = a /\ \A h \in Buckets : h # k => ptable'[h] = ptable[h]
  BY <1>2, <1>3
<1>5. /\ \A j \in DOMAIN a : a[j] = e \/ \E i \in DOMAIN ptable[k] : a[j] = ptable[k][i]
      /\ \A i \in DOMAIN ptable[k] : \E j \in DOMAIN a : a[j] = ptable[k][i]
      /\ \E j \in DOMAIN a : a[j] = e
  <2> DEFINE q == ptable[k]
  <2>1. q \in Seq(Ptes)
    BY <1>2, <1>3
  <2>2. a = Added(q, rpager.page, rpager.frame)
    OBVIOUS
  <2> HIDE DEF a, q
  <2>3. /\ \A j \in DOMAIN a : a[j] = e \/ \E i \in DOMAIN q : a[j] = q[i]
        /\ \A i \in DOMAIN q : \E j \in DOMAIN a : a[j] = q[i]
        /\ \E j \in DOMAIN a : a[j] = e
    BY <1>1, <2>1, <2>2, AddedFacts
  <2> QED
    BY <2>3 DEF q
<1>6. e.page = rpager.page /\ e.frame = rpager.frame
  OBVIOUS
<1> HIDE DEF a
<1>7. ASSUME NEW p \in Pages, NEW f \in Frames, EntryOf(ptable, p, f)
      PROVE  EntryOf(ptable', p, f)
  <2>1. p % MaxPtable \in Buckets
    BY Hashes
  <2>2. CASE p % MaxPtable = k
    BY <1>4, <1>5, <1>7, <2>2 DEF EntryOf
  <2>3. CASE p % MaxPtable # k
    BY <1>4, <1>7, <2>1, <2>3 DEF EntryOf
  <2> QED
    BY <2>2, <2>3
<1>8. EntryOf(ptable', rpager.page, rpager.frame)
  BY <1>4, <1>5 DEF EntryOf
<1>9. ASSUME NEW h \in Buckets, NEW i \in DOMAIN ptable'[h]
      PROVE  \/ /\ h = k
                /\ ptable'[h][i].page = rpager.page /\ ptable'[h][i].frame = rpager.frame
             \/ \E j \in DOMAIN ptable[h] : ptable'[h][i] = ptable[h][j]
  <2>1. CASE h = k
    <3>1. ptable'[h] = a
      BY <1>4, <2>1
    <3>2. a[i] = e \/ \E j \in DOMAIN ptable[k] : a[i] = ptable[k][j]
      BY <1>5, <3>1
    <3> HIDE DEF e
    <3> QED
      BY <1>6, <2>1, <3>1, <3>2
  <2>2. CASE h # k
    BY <1>4, <2>2
  <2> QED
    BY <2>1, <2>2
<1> QED
  BY <1>1, <1>7, <1>8, <1>9

LEMMA EntriesHomeStep == IInv /\ [Next]_vars => EntriesHome'
<1> SUFFICES ASSUME IInv, [Next]_vars,
                    NEW h \in Buckets, NEW i \in DOMAIN ptable'[h]
             PROVE  ptable'[h][i].page % MaxPtable = h /\ ptable'[h][i].frame <= frames'
  BY DEF EntriesHome
<1>1. EntriesHome
  BY DEF IInv
<1>2. CASE Enters /\ frames' = frames
  <2>1. rpager.frame <= frames
    BY <1>2, EntersFacts
  <2>2. \/ /\ h = rpager.page % MaxPtable
           /\ ptable'[h][i].page = rpager.page /\ ptable'[h][i].frame = rpager.frame
        \/ \E j \in DOMAIN ptable[h] : ptable'[h][i] = ptable[h][j]
    BY <1>2, EntersFacts
  <2>3. CASE /\ h = rpager.page % MaxPtable
             /\ ptable'[h][i].page = rpager.page /\ ptable'[h][i].frame = rpager.frame
    BY <1>2, <2>1, <2>3
  <2>4. CASE \E j \in DOMAIN ptable[h] : ptable'[h][i] = ptable[h][j]
    BY <1>1, <1>2, <2>4 DEF EntriesHome
  <2> QED
    BY <2>2, <2>3, <2>4
<1>3. CASE UNCHANGED ptable /\ frames <= frames'
  <2>1. ptable[h][i].page % MaxPtable = h /\ ptable[h][i].frame <= frames
    BY <1>1, <1>3 DEF EntriesHome
  <2>2. ptable[h][i] \in Ptes
    <3>1. ptable[h] \in Seq(Ptes)
      BY DEF IInv, TypeOK
    <3> QED
      BY <1>3, <3>1
  <2>3. ptable[h][i].frame \in Int
    BY <2>2, PagerAssumption DEF Ptes, Frames
  <2>4. frames \in Int /\ frames' \in Int
    BY TypeStep, PagerAssumption DEF IInv, TypeOK
  <2> QED
    BY <1>3, <2>1, <2>3, <2>4
<1> QED
  BY <1>2, <1>3, TableStep

LEMMA FramesApartStep == IInv /\ [Next]_vars => FramesApart'
<1> SUFFICES ASSUME IInv, [Next]_vars,
                    NEW h \in Buckets, NEW k \in Buckets,
                    NEW i \in DOMAIN ptable'[h], NEW j \in DOMAIN ptable'[k],
                    ptable'[h][i].frame = ptable'[k][j].frame
             PROVE  ptable'[h][i].page = ptable'[k][j].page
  BY DEF FramesApart
<1>1. FramesApart /\ RpagerFrame
  BY DEF IInv
<1>2. CASE Enters
  <2> DEFINE New(g, n) == /\ ptable'[g][n].page = rpager.page
                          /\ ptable'[g][n].frame = rpager.frame
             Old(g, n) == \E m \in DOMAIN ptable[g] : ptable'[g][n] = ptable[g][m]
  <2>1. (New(h, i) \/ Old(h, i)) /\ (New(k, j) \/ Old(k, j))
    BY <1>2, EntersFacts
  <2>2. \A g \in Buckets : \A n \in DOMAIN ptable[g] :
           ptable[g][n].frame = rpager.frame => ptable[g][n].page = rpager.page
    BY <1>1, <1>2 DEF RpagerFrame, Enters
  <2>3. CASE New(h, i) /\ New(k, j)
    BY <2>3
  <2>4. CASE New(h, i) /\ Old(k, j)
    BY <2>2, <2>4
  <2>5. CASE Old(h, i) /\ New(k, j)
    BY <2>2, <2>5
  <2>6. CASE Old(h, i) /\ Old(k, j)
    BY <1>1, <2>6 DEF FramesApart
  <2> QED
    BY <2>1, <2>3, <2>4, <2>5, <2>6
<1>3. CASE UNCHANGED ptable
  BY <1>1, <1>3 DEF FramesApart
<1> QED
  BY <1>2, <1>3, TableStep

-----------------------------------------------------------------------------
(* The frame in rpager's hands *)

LEMMA RpagerFrameStep == IInv /\ [Next]_vars => RpagerFrame'
<1> SUFFICES ASSUME IInv, [Next]_vars PROVE RpagerFrame'
  OBVIOUS
<1>0. TypeOK /\ Linked /\ RpagerFrame /\ OnItsWay /\ EntriesHome /\ FramesApart
      /\ frames \in Int
  BY PagerAssumption DEF IInv, TypeOK
<1>1. ASSUME rpager'.step # "idle" => /\ rpager.step # "idle" /\ rpager'.page = rpager.page
                                      /\ rpager'.frame = rpager.frame,
             UNCHANGED <<ptable, frames>>
      PROVE  RpagerFrame'
  BY <1>0, <1>1 DEF RpagerFrame
<1>2. CASE Answer
  <2>1. UNCHANGED frames
    BY <1>2 DEF Answer
  <2>2. CASE Enters
    <3>1. rpager'.page \in Pages /\ rpager'.frame \in 1 .. frames'
      BY <2>1, <2>2, EntersFacts DEF Enters
    <3>2. ASSUME NEW h \in Buckets, NEW i \in DOMAIN ptable'[h],
                 ptable'[h][i].frame = rpager.frame
          PROVE  ptable'[h][i].page = rpager.page
      <4>1. CASE ptable'[h][i].page = rpager.page
        BY <4>1
      <4>2. CASE \E j \in DOMAIN ptable[h] : ptable'[h][i] = ptable[h][j]
        BY <1>0, <2>2, <3>2, <4>2 DEF RpagerFrame, Enters
      <4> QED
        BY <2>2, <4>1, <4>2, EntersFacts
    <3> QED
      BY <2>2, <3>1, <3>2 DEF RpagerFrame, Enters
  <2>3. CASE ~Enters
    BY <1>0, <1>1, <1>2, <2>1, <2>3, AnswerCases
  <2> QED
    BY <2>2, <2>3
<1>3. ASSUME NEW p \in Pages, NEW u, NEW to, Known(p, u, to), UNCHANGED ptable
      PROVE  RpagerFrame'
  <2>1. PICK k \in DOMAIN Bucket(p) : PteOf(p) = Bucket(p)[k]
    BY <1>0, <1>3, PteOfFacts DEF Known
  <2>2. p % MaxPtable \in Buckets
    BY Hashes
  <2>3. PteOf(p).page = p /\ PteOf(p).frame \in Frames
    BY <1>0, <1>3, PteOfFacts DEF Known, Ptes
  <2>4. PteOf(p).frame <= frames
    BY <1>0, <2>1, <2>2 DEF EntriesHome, Bucket
  <2>5. rpager'.page = p /\ rpager'.frame = PteOf(p).frame /\ frames' = frames
    BY <1>3 DEF Known, RpagerIdle
  <2>6. ASSUME NEW h \in Buckets, NEW i \in DOMAIN ptable[h],
               ptable[h][i].frame = PteOf(p).frame
        PROVE  ptable[h][i].page = p
    BY <1>0, <2>1, <2>2, <2>3, <2>6 DEF FramesApart, Bucket
  <2>7. PteOf(p).frame \in 1 .. frames
    BY <1>0, <2>3, <2>4, PagerAssumption DEF Frames
  <2> QED
    BY <1>3, <2>5, <2>6, <2>7 DEF RpagerFrame
<1>4. ASSUME NEW p \in Pages, NEW u, NEW to, Unknown(p, u, to), UNCHANGED ptable,
             rpager.step = "idle"
      PROVE  RpagerFrame'
  <2>1. CASE rpager'.step = "idle"
    BY <2>1 DEF RpagerFrame
  <2>2. CASE rpager'.page = p /\ rpager'.frame = frames + 1 /\ frames' = frames + 1
    <3>1. ASSUME NEW h \in Buckets, NEW i \in DOMAIN ptable[h]
          PROVE  ptable[h][i].frame # frames + 1
      <4>1. ptable[h][i].frame <= frames
        BY <1>0 DEF EntriesHome
      <4> QED
        BY <1>0, <4>1
    <3>2. frames + 1 \in 1 .. frames + 1
      BY <1>0, PagerAssumption DEF TypeOK
    <3> QED
      BY <1>4, <2>2, <3>1, <3>2 DEF RpagerFrame
  <2>3. CASE UNCHANGED rpager
    BY <1>4, <2>1, <2>3
  <2>4. ASSUME NEW i,
               rpager' = IF AlreadyRequested(p) \/ frames = MaxFtable THEN RpagerIdle
                         ELSE [RpagerIdle EXCEPT !.step = "request", !.page = p,
                                                 !.frame = NewFrame, !.off = i],
               IF AlreadyRequested(p) THEN UNCHANGED <<frames, stop>>
               ELSE IF frames = MaxFtable
               THEN stop' = "assertion" /\ UNCHANGED frames
               ELSE frames' = frames + 1 /\ UNCHANGED stop
        PROVE  RpagerFrame'
    BY <2>1, <2>2, <2>4 DEF RpagerIdle, NewFrame
  <2> QED
    BY <1>4, <2>3, <2>4 DEF Unknown
<1>5. CASE Ask
  <2>1. mpager.page \in Pages
    BY <1>0, <1>5 DEF Ask, OnItsWay
  <2> QED
    BY <1>3, <1>4, <1>5, <2>1 DEF Ask
<1>6. CASE Touch
  <2>1. mpager.page \in Pages
    BY <1>0, <1>6 DEF Touch, OnItsWay
  <2> QED
    BY <1>3, <1>4, <1>6, <2>1 DEF Touch
<1>7. CASE Read
  <2>1. rpager'.page = rpager.page /\ rpager'.frame = rpager.frame
    BY <1>0, <1>7 DEF Read, TypeOK, Rpagers
  <2> QED
    BY <1>1, <1>7, <2>1 DEF Read
<1>8. CASE MapForUser \/ MapForMpager
  <2>1. rpager.step # "idle" /\ rpager' = WalksOn(rpager) /\ UNCHANGED <<ptable, frames>>
    BY <1>8 DEF MapForUser, MapForMpager
  <2>2. rpager'.step # "idle" => rpager'.page = rpager.page /\ rpager'.frame = rpager.frame
    BY <1>0, <2>1 DEF WalksOn, RpagerIdle, TypeOK, Rpagers
  <2> QED
    BY <1>1, <2>1, <2>2
<1>9. CASE UNCHANGED <<rpager, ptable, frames>>
  BY <1>1, <1>9
<1>10. ASSUME NEW u \in Users, NEW p \in Pages, Fault(u, p) PROVE RpagerFrame'
  BY <1>9, <1>10 DEF Fault
<1>11. CASE MpagerMaps \/ ApagerSends \/ UNCHANGED vars
  BY <1>9, <1>11 DEF MpagerMaps, ApagerSends, vars
<1>12. ASSUME NEW u \in Users, Abandon(u) \/ Take(u) PROVE RpagerFrame'
  BY <1>9, <1>12 DEF Abandon, Take
<1> QED
  BY <1>2, <1>5, <1>6, <1>7, <1>8, <1>10, <1>11, <1>12 DEF Next

-----------------------------------------------------------------------------
(* What pending faults lead to *)

LEMMA LinkedStep == IInv /\ [Next]_vars => Linked'
<1> SUFFICES ASSUME IInv, [Next]_vars PROVE Linked'
  OBVIOUS
<1>0. TypeOK /\ Linked /\ RpagerFrame /\ OnItsWay
  BY DEF IInv
<1>1. ASSUME rpager'.off # None => ppftable[rpager'.off] # None, UNCHANGED ppftable
      PROVE  Linked'
  BY <1>0, <1>1 DEF Linked
<1>2. CASE Answer
  BY <1>0, <1>1, <1>2, AnswerCases DEF Answer
<1>3. ASSUME NEW p, NEW u, NEW to, Known(p, u, to) PROVE Linked'
  BY <1>1, <1>3 DEF Known, RpagerIdle
<1>4. ASSUME NEW p \in Pages, NEW u \in OrNone(Users), NEW to \in {"apager", "mpager"},
             Unknown(p, u, to)
      PROVE  Linked'
  <2>1. CASE UNCHANGED <<rpager, ppftable>>
    BY <1>0, <2>1 DEF Linked
  <2>2. ASSUME NEW i \in SlotFor(p), ppftable' = Saved(i, p, u, to),
               rpager'.off \in {None, i}
        PROVE  Linked'
    <3> DEFINE linked == IF i = Primary(p) THEN ppftable
                         ELSE [ppftable EXCEPT ![Primary(p)].collision = i]
               e == [page |-> p, user |-> u, to |-> to, collision |-> None]
    <3>1. i \in Offsets /\ ppftable \in [Offsets -> OrNone(Pending)]
          /\ (i # Primary(p) => ppftable[Primary(p)] \in Pending)
      BY <1>0, SlotForFacts DEF TypeOK
    <3>2. e # None /\ e.collision = None
      <4>1. e \in Pending
        BY DEF Pending, OrNone
      <4> QED
        BY <4>1, NoneAssumption
    <3>3. ppftable' = [linked EXCEPT ![i] = e]
      BY <2>2 DEF Saved
    <3>4. ASSUME NEW j \in Offsets
          PROVE  /\ ppftable[j] # None => linked[j] # None
                 /\ linked[j] # None /\ linked[j].collision # None =>
                       linked[j].collision = i \/ ppftable[linked[j].collision] # None
      <4>1. CASE i = Primary(p)
        BY <1>0, <4>1 DEF Linked
      <4>2. CASE i # Primary(p) /\ j # Primary(p)
        <5>1. linked[j] = ppftable[j]
          BY <3>1, <4>2
        <5> HIDE DEF linked
        <5> QED
          BY <1>0, <5>1 DEF Linked
      <4>3. CASE i # Primary(p) /\ j = Primary(p)
        <5>1. linked[j] = [ppftable[j] EXCEPT !.collision = i]
          BY <3>1, <4>3
        <5>2. [ppftable[j] EXCEPT !.collision = i] \in Pending
          BY <3>1, <4>3 DEF Pending, OrNone
        <5>3. linked[j].collision = i
          BY <3>1, <4>3, <5>1 DEF Pending
        <5> HIDE DEF linked
        <5> QED
          BY <5>1, <5>2, <5>3, NoneAssumption
      <4> QED
        BY <4>1, <4>2, <4>3
    <3>5. linked \in [Offsets -> OrNone(Pending)]
      <4>1. CASE i = Primary(p)
        BY <3>1, <4>1
      <4>2. CASE i # Primary(p)
        <5>1. [ppftable[Primary(p)] EXCEPT !.collision = i] \in Pending
          BY <3>1, <4>2 DEF Pending, OrNone
        <5> QED
          BY <3>1, <4>2, <5>1 DEF OrNone
      <4> QED
        BY <4>1, <4>2
    <3> HIDE DEF linked, e
    <3>6. ppftable'[i] = e /\ \A j \in Offsets : j # i => ppftable'[j] = linked[j]
      BY <3>1, <3>3, <3>5
    <3>7. \A j \in Offsets : ppftable[j] # None => ppftable'[j] # None
      BY <3>2, <3>4, <3>6
    <3>8. ASSUME NEW j \in Offsets, ppftable'[j] # None, ppftable'[j].collision # None
          PROVE  ppftable'[ppftable'[j].collision] # None
      <4>1. j # i /\ ppftable'[j] = linked[j]
        BY <3>2, <3>6, <3>8
      <4>2. linked[j].collision \in Offsets
        BY <3>5, <3>8, <4>1 DEF OrNone, Pending
      <4>3. linked[j].collision = i \/ ppftable[linked[j].collision] # None
        BY <3>4, <3>8, <4>1
      <4> QED
        BY <3>2, <3>6, <3>7, <4>1, <4>2, <4>3
    <3>9. rpager'.off # None => ppftable'[rpager'.off] # None
      BY <2>2, <3>2, <3>6
    <3> QED
      BY <3>8, <3>9 DEF Linked
  <2>3. ASSUME NEW i,
               rpager' = IF AlreadyRequested(p) \/ frames = MaxFtable THEN RpagerIdle
                         ELSE [RpagerIdle EXCEPT !.step = "request", !.page = p,
                                                 !.frame = NewFrame, !.off = i]
        PROVE  rpager'.off \in {None, i}
    BY <2>3 DEF RpagerIdle
  <2> QED
    BY <1>4, <2>1, <2>2, <2>3 DEF Unknown
<1>5. CASE Ask
  <2>1. mpager.page \in Pages /\ mpager.user \in OrNone(Users)
    BY <1>0, <1>5 DEF Ask, OnItsWay, TypeOK, Mpagers
  <2> QED
    BY <1>3, <1>4, <1>5, <2>1 DEF Ask
<1>6. CASE Touch
  <2>1. mpager.page \in Pages /\ None \in OrNone(Users)
    BY <1>0, <1>6 DEF Touch, OnItsWay, OrNone
  <2> QED
    BY <1>3, <1>4, <1>6, <2>1 DEF Touch
<1>7. CASE Read
  <2>1. rpager'.off = rpager.off
    BY <1>0, <1>7 DEF Read, TypeOK, Rpagers
  <2> QED
    BY <1>0, <1>1, <1>7, <2>1 DEF Read, Linked
<1>8. CASE MapForUser \/ MapForMpager
  <2>1. rpager' = WalksOn(rpager) /\ UNCHANGED ppftable
    BY <1>8 DEF MapForUser, MapForMpager
  <2>2. rpager'.off = rpager.off \/ rpager'.off = None
    BY <1>0, <2>1 DEF WalksOn, RpagerIdle, TypeOK, Rpagers
  <2> QED
    BY <1>0, <1>1, <2>1, <2>2 DEF Linked
<1>9. CASE UNCHANGED <<rpager, ppftable>>
  BY <1>0, <1>9 DEF Linked
<1>10. ASSUME NEW u \in Users, NEW p \in Pages, Fault(u, p) PROVE Linked'
  BY <1>9, <1>10 DEF Fault
<1>11. CASE MpagerMaps \/ ApagerSends \/ UNCHANGED vars
  BY <1>9, <1>11 DEF MpagerMaps, ApagerSends, vars
<1>12. ASSUME NEW u \in Users, Abandon(u) \/ Take(u) PROVE Linked'
  BY <1>9, <1>12 DEF Abandon, Take
<1> QED
  BY <1>2, <1>5, <1>6, <1>7, <1>8, <1>10, <1>11, <1>12 DEF Next

-----------------------------------------------------------------------------
(* What is mapped or on its way *)

LEMMA EntriesKept ==
    IInv /\ [Next]_vars =>
        \A p \in Pages, f \in Frames : EntryOf(ptable, p, f) => EntryOf(ptable', p, f)
<1> SUFFICES ASSUME IInv, [Next]_vars
             PROVE  \A p \in Pages, f \in Frames :
                       EntryOf(ptable, p, f) => EntryOf(ptable', p, f)
  OBVIOUS
<1>1. CASE Enters
  BY <1>1, EntersFacts
<1>2. CASE ptable' = ptable
  BY <1>2
<1> QED
  BY <1>1, <1>2, TableStep

\* rpager maps what is in the table.
LEMMA RpagerMapsStep ==
    ASSUME IInv, [Next]_vars, rpager'.step = "map"
    PROVE  EntryOf(ptable', rpager'.page, rpager'.frame)
<1>0. TypeOK /\ Linked /\ RpagerFrame /\ OnItsWay
  BY DEF IInv
<1>1. CASE Answer
  <2>1. Enters
    BY <1>0, <1>1, AnswerCases
  <2> QED
    BY <2>1, EntersFacts DEF Enters
<1>2. ASSUME NEW p \in Pages, NEW u, NEW to, Known(p, u, to), UNCHANGED ptable
      PROVE  EntryOf(ptable', rpager'.page, rpager'.frame)
  <2>1. PteOf(p) \in Ptes /\ PteOf(p).page = p
    BY <1>0, <1>2, PteOfFacts DEF Known
  <2>2. PICK i \in DOMAIN Bucket(p) : PteOf(p) = Bucket(p)[i]
    BY <1>0, <1>2, PteOfFacts DEF Known
  <2>3. rpager'.page = p /\ rpager'.frame = PteOf(p).frame
    BY <1>2 DEF Known, RpagerIdle
  <2>4. PteOf(p) = [page |-> p, frame |-> PteOf(p).frame]
    BY <2>1 DEF Ptes
  <2>5. EntryOf(ptable, p, PteOf(p).frame)
    BY <2>2, <2>4 DEF EntryOf, Bucket
  <2> QED
    BY <1>2, <2>3, <2>5
<1>3. ASSUME NEW p, NEW u, NEW to, Unknown(p, u, to), rpager.step = "idle" PROVE FALSE
  <2>1. ASSUME NEW i,
               rpager' = IF AlreadyRequested(p) \/ frames = MaxFtable THEN RpagerIdle
                         ELSE [RpagerIdle EXCEPT !.step = "request", !.page = p,
                                                 !.frame = NewFrame, !.off = i]
        PROVE  rpager'.step # "map"
    BY <2>1 DEF RpagerIdle
  <2>2. rpager' # rpager
    BY <1>3
  <2> QED
    BY <1>3, <2>1, <2>2 DEF Unknown
<1>4. CASE Ask
  <2>1. mpager.page \in Pages
    BY <1>0, <1>4 DEF Ask, OnItsWay
  <2> QED
    BY <1>2, <1>3, <1>4, <2>1 DEF Ask
<1>5. CASE Touch
  <2>1. mpager.page \in Pages
    BY <1>0, <1>5 DEF Touch, OnItsWay
  <2> QED
    BY <1>2, <1>3, <1>5, <2>1 DEF Touch
<1>6. CASE Read
  <2>1. rpager'.step = "answer"
    BY <1>0, <1>6 DEF Read, TypeOK, Rpagers
  <2> QED
    BY <2>1
<1>7. CASE MapForUser \/ MapForMpager
  <2>1. rpager' = WalksOn(rpager)
    BY <1>7 DEF MapForUser, MapForMpager
  <2>2. rpager'.step # "map"
    BY <1>0, <2>1 DEF WalksOn, RpagerIdle, TypeOK, Rpagers
  <2> QED
    BY <2>2
<1>8. CASE UNCHANGED <<rpager, ptable>>
  BY <1>0, <1>8 DEF OnItsWay, Entered
<1>9. ASSUME NEW u \in Users, NEW p \in Pages, Fault(u, p)
      PROVE  EntryOf(ptable', rpager'.page, rpager'.frame)
  BY <1>8, <1>9 DEF Fault
<1>10. ASSUME NEW u \in Users, Abandon(u) \/ Take(u)
       PROVE  EntryOf(ptable', rpager'.page, rpager'.frame)
  BY <1>8, <1>10 DEF Abandon, Take
<1>11. CASE MpagerMaps \/ ApagerSends \/ UNCHANGED vars
  BY <1>8, <1>11 DEF MpagerMaps, ApagerSends, vars
<1> QED
  BY <1>1, <1>4, <1>5, <1>6, <1>7, <1>9, <1>10, <1>11 DEF Next

\* So is what apager passes on.
LEMMA ApagerSendsStep ==
    ASSUME IInv, [Next]_vars, apager'.step = "send"
    PROVE  apager'.page \in Pages /\ EntryOf(ptable', apager'.page, apager'.frame)
<1>0. TypeOK /\ RpagerFrame /\ OnItsWay
  BY DEF IInv
<1>1. CASE UNCHANGED apager
  <2>1. apager.page \in Pages /\ EntryOf(ptable, apager.page, apager.frame)
    BY <1>0, <1>1 DEF OnItsWay, Entered
  <2>2. apager.frame \in Frames
    BY <1>0, <2>1, EntryFrame
  <2> QED
    BY <1>1, <2>1, <2>2, EntriesKept
<1>2. CASE MapForUser
  <2>1. rpager.page \in Pages /\ EntryOf(ptable, rpager.page, rpager.frame)
    BY <1>0, <1>2 DEF OnItsWay, Entered, RpagerFrame, MapForUser
  <2>2. apager'.page = rpager.page /\ apager'.frame = rpager.frame /\ ptable' = ptable
    BY <1>2 DEF MapForUser
  <2> QED
    BY <2>1, <2>2
<1>3. CASE ApagerSends
  BY <1>3 DEF ApagerSends, ApagerIdle
<1>4. ASSUME NEW u \in Users, NEW p \in Pages, Fault(u, p) PROVE UNCHANGED apager
  BY <1>4 DEF Fault
<1>5. ASSUME NEW u \in Users, Abandon(u) \/ Take(u) PROVE UNCHANGED apager
  BY <1>5 DEF Abandon, Take
<1>6. CASE Ask \/ Touch \/ Read \/ Answer \/ MpagerMaps \/ MapForMpager \/ UNCHANGED vars
  BY <1>1, <1>6 DEF Ask, Touch, Read, Answer, MpagerMaps, MapForMpager, vars
<1> QED
  BY <1>1, <1>2, <1>3, <1>4, <1>5, <1>6 DEF Next

\* What mpager has in its own task came from rpager.
LEMMA MpagerHasStep ==
    ASSUME IInv, [Next]_vars, NEW p \in Pages, mpager_has'[p] # None
    PROVE  EntryOf(ptable', p, mpager_has'[p])
<1>0. TypeOK /\ RpagerFrame /\ OnItsWay
  BY DEF IInv
<1>1. CASE mpager_has'[p] = mpager_has[p]
  <2>1. EntryOf(ptable, p, mpager_has[p])
    BY <1>0, <1>1 DEF OnItsWay, Entered
  <2>2. mpager_has[p] \in Frames
    BY <1>0, <1>1 DEF TypeOK, OrNone
  <2> QED
    BY <1>1, <2>1, <2>2, EntriesKept
<1>2. CASE MapForMpager
  <2>1. CASE p = rpager.page
    <3>1. EntryOf(ptable, rpager.page, rpager.frame)
      BY <1>0, <1>2 DEF OnItsWay, Entered, MapForMpager
    <3>2. mpager_has'[p] = rpager.frame /\ ptable' = ptable
      BY <1>0, <1>2, <2>1 DEF MapForMpager, TypeOK
    <3> QED
      BY <2>1, <3>1, <3>2
  <2>2. CASE p # rpager.page
    BY <1>0, <1>1, <1>2, <2>2 DEF MapForMpager, TypeOK
  <2> QED
    BY <2>1, <2>2
<1>3. ASSUME NEW u \in Users, NEW q \in Pages, Fault(u, q) PROVE UNCHANGED mpager_has
  BY <1>3 DEF Fault
<1>4. ASSUME NEW u \in Users, Abandon(u) \/ Take(u) PROVE UNCHANGED mpager_has
  BY <1>4 DEF Abandon, Take
<1>5. CASE Ask \/ Touch \/ Read \/ Answer \/ MpagerMaps \/ MapForUser \/ ApagerSends
           \/ UNCHANGED vars
  BY <1>1, <1>5 DEF Ask, Touch, Read, Answer, MpagerMaps, MapForUser, ApagerSends, vars
<1> QED
  BY <1>1, <1>2, <1>3, <1>4, <1>5 DEF Next

\* A mapping that is in the table and is delivered stays in it.
LEMMA MapsStep ==
    ASSUME IInv, NEW u, NEW q, NEW f, Maps(u, q, f), UNCHANGED ptable,
           q \in Pages /\ (f # None => EntryOf(ptable, q, f)),
           NEW v \in Users, NEW p \in Pages, mapped'[v][p] # None
    PROVE  EntryOf(ptable', p, mapped'[v][p])
<1>1. mapped \in [Users -> [Pages -> OrNone(Frames)]]
  BY DEF IInv, TypeOK
<1>2. CASE v = u /\ p = q
  <2>1. mapped'[v][p] = f
    BY <1>1, <1>2 DEF Maps
  <2> QED
    BY <1>2, <2>1
<1>3. CASE ~(v = u /\ p = q)
  <2>1. mapped'[v][p] = mapped[v][p]
    BY <1>1, <1>3 DEF Maps
  <2>2. EntryOf(ptable, p, mapped[v][p])
    BY <2>1 DEF IInv, OnItsWay, Entered
  <2> QED
    BY <2>1, <2>2
<1> QED
  BY <1>2, <1>3

LEMMA MappedStep ==
    ASSUME IInv, [Next]_vars, NEW v \in Users, NEW p \in Pages, mapped'[v][p] # None
    PROVE  EntryOf(ptable', p, mapped'[v][p])
<1>0. TypeOK /\ OnItsWay
  BY DEF IInv
<1>1. CASE UNCHANGED mapped
  <2>1. EntryOf(ptable, p, mapped[v][p])
    BY <1>0, <1>1 DEF OnItsWay, Entered
  <2>2. mapped[v][p] \in Frames
    BY <1>0, <1>1 DEF TypeOK, OrNone
  <2> QED
    BY <1>1, <2>1, <2>2, EntriesKept
<1>2. CASE MpagerMaps
  <2>1. mpager.page \in Pages
        /\ (mpager_has[mpager.page] # None =>
               EntryOf(ptable, mpager.page, mpager_has[mpager.page]))
    BY <1>0, <1>2 DEF OnItsWay, Entered, MpagerMaps
  <2>2. Maps(mpager.user, mpager.page, mpager_has[mpager.page]) /\ UNCHANGED ptable
    BY <1>2 DEF MpagerMaps
  <2> QED
    BY <2>1, <2>2, MapsStep
<1>3. CASE ApagerSends
  <2>1. apager.page \in Pages /\ EntryOf(ptable, apager.page, apager.frame)
    BY <1>0, <1>3 DEF OnItsWay, Entered, ApagerSends
  <2>2. Maps(apager.user, apager.page, apager.frame) /\ UNCHANGED ptable
    BY <1>3 DEF ApagerSends
  <2> QED
    BY <2>1, <2>2, MapsStep
<1>4. ASSUME NEW u \in Users, NEW q \in Pages, Fault(u, q) PROVE UNCHANGED mapped
  BY <1>4 DEF Fault
<1>5. ASSUME NEW u \in Users, Abandon(u) \/ Take(u) PROVE UNCHANGED mapped
  BY <1>5 DEF Abandon, Take
<1>6. CASE Ask \/ Touch \/ Read \/ Answer \/ MapForUser \/ MapForMpager \/ UNCHANGED vars
  BY <1>1, <1>6 DEF Ask, Touch, Read, Answer, MapForUser, MapForMpager, vars
<1> QED
  BY <1>1, <1>2, <1>3, <1>4, <1>5, <1>6 DEF Next

\* Threads and mpager ask for pages.
LEMMA AskedStep ==
    ASSUME IInv, [Next]_vars
    PROVE  /\ mpager'.step # "idle" => mpager'.page \in Pages
           /\ \A v \in Users : user'[v].state # "run" => user'[v].page \in Pages
<1> DEFINE M == mpager'.step # "idle" => mpager'.page \in Pages
           U == \A v \in Users : user'[v].state # "run" => user'[v].page \in Pages
<1>0. /\ user \in [Users -> Threads] /\ mpager \in Mpagers
      /\ mpager.step # "idle" => mpager.page \in Pages
      /\ \A v \in Users : user[v].state # "run" => user[v].page \in Pages
  BY DEF IInv, TypeOK, OnItsWay
<1>1. UNCHANGED user => U
  BY <1>0
<1>2. UNCHANGED mpager => M
  BY <1>0
<1>3. mpager' = MpagerIdle => M
  BY DEF MpagerIdle
<1>4. ASSUME NEW u, NEW p, NEW f, Maps(u, p, f) PROVE U
  <2>1. ASSUME NEW v \in Users, user'[v].state # "run" PROVE user'[v].page \in Pages
    <3>1. CASE v = u
      BY <1>0, <1>4, <2>1, <3>1 DEF Maps
    <3>2. CASE v # u
      <4>1. user'[v] = user[v]
        BY <1>0, <1>4, <3>2 DEF Maps
      <4> QED
        BY <1>0, <2>1, <4>1
    <3> QED
      BY <3>1, <3>2
  <2> QED
    BY <2>1
<1>5. ASSUME NEW u \in Users, NEW p \in Pages, Fault(u, p) PROVE M /\ U
  <2>1. ASSUME NEW v \in Users, user'[v].state # "run" PROVE user'[v].page \in Pages
    <3>1. CASE v = u
      BY <1>0, <1>5, <3>1 DEF Fault
    <3>2. CASE v # u
      <4>1. user'[v] = user[v]
        BY <1>0, <1>5, <3>2 DEF Fault
      <4> QED
        BY <1>0, <2>1, <4>1
    <3> QED
      BY <3>1, <3>2
  <2> QED
    BY <1>2, <1>5, <2>1 DEF Fault
<1>6. ASSUME NEW u \in Users, Abandon(u) PROVE M /\ U
  <2>1. ASSUME NEW v \in Users, user'[v].state # "run" PROVE user'[v].page \in Pages
    <3>1. CASE v = u
      BY <1>0, <1>6, <2>1, <3>1 DEF Abandon
    <3>2. CASE v # u
      <4>1. user'[v] = user[v]
        BY <1>0, <1>6, <3>2 DEF Abandon
      <4> QED
        BY <1>0, <2>1, <4>1
    <3> QED
      BY <3>1, <3>2
  <2> QED
    BY <1>2, <1>6, <2>1 DEF Abandon
<1>7. ASSUME NEW u \in Users, Take(u) PROVE M /\ U
  <2>1. user[u].page \in Pages
    BY <1>0, <1>7 DEF Take
  <2>2. M
    BY <1>7, <2>1 DEF Take, MpagerIdle
  <2>3. ASSUME NEW v \in Users, user'[v].state # "run" PROVE user'[v].page \in Pages
    <3>1. CASE v = u
      <4>1. user'[v].page = user[v].page
        BY <1>0, <1>7, <3>1 DEF Take, Threads
      <4> QED
        BY <2>1, <3>1, <4>1
    <3>2. CASE v # u
      <4>1. user'[v] = user[v]
        BY <1>0, <1>7, <3>2 DEF Take
      <4> QED
        BY <1>0, <2>3, <4>1
    <3> QED
      BY <3>1, <3>2
  <2> QED
    BY <2>2, <2>3
<1>8. ASSUME MpagerMaps PROVE M /\ U
  <2>1. U
    BY <1>4, <1>8 DEF MpagerMaps
  <2> QED
    BY <1>3, <1>8, <2>1 DEF MpagerMaps
<1>9. ASSUME Ask PROVE M /\ U
  BY <1>1, <1>3, <1>9 DEF Ask
<1>10. ASSUME ApagerSends PROVE M /\ U
  <2>1. U
    BY <1>4, <1>10 DEF ApagerSends
  <2> QED
    BY <1>2, <1>10, <2>1 DEF ApagerSends
<1>11. ASSUME MapForMpager PROVE M /\ U
  <2>1. mpager.page \in Pages /\ mpager'.page = mpager.page
    BY <1>0, <1>11 DEF MapForMpager, Mpagers
  <2>2. U
    BY <1>1, <1>11 DEF MapForMpager
  <2>3. M
    BY <2>1
  <2> QED
    BY <2>2, <2>3
<1>12. ASSUME Touch \/ Read \/ Answer \/ MapForUser \/ UNCHANGED vars PROVE M /\ U
  <2>1. UNCHANGED <<user, mpager>>
    BY <1>12 DEF Touch, Read, Answer, MapForUser, vars
  <2>2. M
    BY <1>2, <2>1
  <2>3. U
    BY <1>1, <2>1
  <2> QED
    BY <2>2, <2>3
<1> HIDE DEF M, U
<1>13. M /\ U
  BY <1>5, <1>6, <1>7, <1>8, <1>9, <1>10, <1>11, <1>12 DEF Next
<1> QED
  BY <1>13 DEF M, U

LEMMA OnItsWayStep == IInv /\ [Next]_vars => OnItsWay'
<1> SUFFICES ASSUME IInv, [Next]_vars PROVE OnItsWay'
  OBVIOUS
<1>1. rpager'.step = "map" => EntryOf(ptable', rpager'.page, rpager'.frame)
  BY RpagerMapsStep
<1>2. apager'.step = "send" =>
        apager'.page \in Pages /\ EntryOf(ptable', apager'.page, apager'.frame)
  BY ApagerSendsStep
<1>3. \A p \in Pages : mpager_has'[p] # None => EntryOf(ptable', p, mpager_has'[p])
  BY MpagerHasStep
<1>4. \A v \in Users, p \in Pages : mapped'[v][p] # None => EntryOf(ptable', p, mapped'[v][p])
  BY MappedStep
<1>5. /\ mpager'.step # "idle" => mpager'.page \in Pages
      /\ \A v \in Users : user'[v].state # "run" => user'[v].page \in Pages
  BY AskedStep
<1> QED
  BY <1>1, <1>2, <1>3, <1>4, <1>5 DEF OnItsWay, Entered

-----------------------------------------------------------------------------
(* The theorems *)

LEMMA InvInit == Init => IInv
<1> SUFFICES ASSUME Init PROVE IInv
  OBVIOUS
<1>1. TypeOK
  BY TypeInit
<1>2. EntriesHome /\ FramesApart
  BY DEF Init, EntriesHome, FramesApart
<1>3. RpagerFrame /\ Linked
  BY DEF Init, RpagerIdle, RpagerFrame, Linked
<1>4. OnItsWay
  BY DEF Init, RpagerIdle, ApagerIdle, MpagerIdle, OnItsWay
<1> QED
  BY <1>1, <1>2, <1>3, <1>4 DEF IInv

\* The inductive invariant: a frame belongs to a page from when rpager takes it off the
\* list (RpagerFrame) until it is in the page table (FramesApart), and everything mapped
\* or on its way is in the table.
THEOREM Invariant == Spec => []IInv
<1>1. IInv /\ [Next]_vars => IInv'
  BY TypeStep, EntriesHomeStep, FramesApartStep, RpagerFrameStep, OnItsWayStep, LinkedStep
     DEF IInv
<1> QED
  BY InvInit, <1>1, PTL DEF Spec

\* The pagers' state has its types: no search or walk leaves a table (save_state,
\* ppf_map, alloc_frame_off_list) before the model stops.
THEOREM TypeCorrect == Spec => []TypeOK
<1>1. IInv => TypeOK
  BY DEF IInv
<1> QED
  BY Invariant, <1>1, PTL

\* A thread sees at a page a frame that was read for that page and is no other's, whatever
\* faults were pending in between (request_page, alloc_frame, ppf_map, add_pte).
THEOREM FramesStayWithPages == Spec => []FramesOfPage
<1>1. IInv => FramesOfPage
  <2> SUFFICES ASSUME IInv PROVE FramesOfPage
    OBVIOUS
  <2> DEFINE entries(p) == {Bucket(p)[i] : i \in DOMAIN Bucket(p)}
  <2>1. ASSUME NEW u \in Users, NEW p \in Pages, mapped[u][p] # None
        PROVE  [page |-> p, frame |-> mapped[u][p]] \in entries(p)
    <3>1. EntryOf(ptable, p, mapped[u][p])
      BY <2>1 DEF IInv, OnItsWay, Entered
    <3> QED
      BY <3>1 DEF EntryOf, Bucket
  <2>2. ASSUME NEW p \in Pages, NEW q \in Pages, NEW e \in entries(p), NEW d \in entries(q),
               e.frame = d.frame
        PROVE  e.page = d.page
    <3>1. p % MaxPtable \in Buckets /\ q % MaxPtable \in Buckets
      BY Hashes
    <3> QED
      BY <2>2, <3>1 DEF IInv, FramesApart, Bucket
  <2> QED
    BY <2>1, <2>2 DEF FramesOfPage
<1> QED
  BY Invariant, <1>1, PTL

-----------------------------------------------------------------------------
(* Whom the pagers work for *)

\* Whom a pager is about to have a page mapped for, and the page.
NoHand == [user |-> None, page |-> None]

MpagerHand == IF mpager.step = "idle" THEN NoHand
              ELSE [user |-> mpager.user, page |-> mpager.page]

ApagerHand == IF apager.step = "idle" THEN NoHand
              ELSE [user |-> apager.user, page |-> apager.page]

\* rpager learns it from the pending fault, when the page has been read.
RpagerHand ==
    IF rpager.step = "map" /\ rpager.to = "apager"
    THEN [user |-> rpager.user, page |-> rpager.page]
    ELSE IF rpager.step \in {"request", "answer"} /\ ppftable[rpager.off].to = "apager"
    THEN [user |-> ppftable[rpager.off].user, page |-> rpager.page]
    ELSE NoHand

\* The thread waits for the page, unless it gave a fault up.
Waits(h, us, ab) ==
    (h.user # None /\ h.user \notin ab) =>
        us[h.user] = [state |-> "wait", page |-> h.page]

\* A thread is in one pager's hands.
Alone(h, k, ab) == h.user = k.user => h.user \in ab \cup {None}

Hands(m, r, a, us, ab) ==
    /\ {m.user, r.user, a.user} \subseteq OrNone(Users)
    /\ Waits(m, us, ab) /\ Waits(r, us, ab) /\ Waits(a, us, ab)
    /\ Alone(m, r, ab) /\ Alone(m, a, ab) /\ Alone(r, a, ab)

InHand == Hands(MpagerHand, RpagerHand, ApagerHand, user, abandoned)

\* rpager finds the fault it saved in the one entry it walks along: it requests a page
\* and takes the answer before it takes another fault.
OneEntry ==
    /\ rpager.step # "walk"
    /\ rpager.step = "map" => rpager.off = None
    /\ rpager.step \in {"request", "answer"} =>
          /\ rpager.off # None
          /\ ppftable[rpager.off].page = rpager.page
          /\ ppftable[rpager.off].collision = None

\* What is bound for apager is for a thread.
ForThreads ==
    /\ mpager.step # "idle" => mpager.user # None
    /\ apager.step # "idle" => apager.user # None
    /\ rpager.step = "map" /\ rpager.to = "apager" => rpager.user # None
    /\ \A i \in Offsets : ppftable[i] # None /\ ppftable[i].to = "apager" =>
           ppftable[i].user # None

HInv == OneEntry /\ ForThreads /\ InHand

\* Threads that no pager works for may do as they please; so may those that gave a fault
\* up.
LEMMA OtherThreads ==
    ASSUME NEW m, NEW r, NEW a, NEW us, NEW ab, Hands(m, r, a, us, ab),
           NEW us2, NEW ab2, ab \subseteq ab2, NEW u,
           \A v \in Users : v # u => us2[v] = us[v],
           u \in {m.user, r.user, a.user} => u \in ab2
    PROVE  Hands(m, r, a, us2, ab2)
<1>1. ASSUME NEW h \in {m, r, a} PROVE Waits(h, us2, ab2)
  <2>1. h.user \in OrNone(Users) /\ Waits(h, us, ab) /\ (h.user = u => u \in ab2)
    BY DEF Hands
  <2> QED
    BY <2>1 DEF Waits, OrNone
<1>2. Alone(m, r, ab2) /\ Alone(m, a, ab2) /\ Alone(r, a, ab2)
  BY DEF Hands, Alone
<1> QED
  BY <1>1, <1>2 DEF Hands

\* One hand takes over from another, or lets go.
LEMMA PassedOn ==
    ASSUME NEW m, NEW r, NEW a, NEW us, NEW ab, Hands(m, r, a, us, ab)
    PROVE  /\ Hands(NoHand, r, a, us, ab)
           /\ Hands(m, NoHand, a, us, ab)
           /\ Hands(m, r, NoHand, us, ab)
           /\ Hands(NoHand, m, a, us, ab)
           /\ Hands(m, NoHand, r, us, ab)
<1>1. NoHand.user = None /\ None \in OrNone(Users)
  BY DEF NoHand, OrNone
<1> HIDE DEF NoHand
<1> QED
  BY <1>1 DEF Hands, Waits, Alone

LEMMA HandsInit == Init => HInv
  BY DEF Init, HInv, OneEntry, ForThreads, InHand, Hands, Waits, Alone, MpagerHand,
         RpagerHand, ApagerHand, MpagerIdle, RpagerIdle, ApagerIdle, NoHand, OrNone

\* A pager that is idle has nobody in hand.
LEMMA IdleHands ==
    /\ mpager.step = "idle" => MpagerHand = NoHand
    /\ rpager.step = "idle" => RpagerHand = NoHand
    /\ apager.step = "idle" => ApagerHand = NoHand
  BY DEF MpagerHand, RpagerHand, ApagerHand

\* A thread that does not wait is in nobody's hands, or gave a fault up.
LEMMA NotInHand ==
    ASSUME InHand, NEW u \in Users, user[u].state # "wait"
    PROVE  u \in {MpagerHand.user, RpagerHand.user, ApagerHand.user} => u \in abandoned
<1>1. u # None
  BY PagerAssumption
<1>2. ASSUME NEW h, Waits(h, user, abandoned), h.user = u PROVE u \in abandoned
  BY <1>1, <1>2 DEF Waits
<1> QED
  BY <1>2 DEF InHand, Hands

LEMMA FaultHands ==
    ASSUME IInv, HInv, NEW u \in Users, NEW p \in Pages, Fault(u, p) PROVE HInv'
<1>1. OneEntry' /\ ForThreads'
  BY DEF HInv, OneEntry, ForThreads, Fault
<1>2. /\ UNCHANGED <<MpagerHand, RpagerHand, ApagerHand, abandoned>>
      /\ \A v \in Users : v # u => user'[v] = user[v]
  BY DEF Fault, MpagerHand, RpagerHand, ApagerHand, IInv, TypeOK
<1>3. u \in {MpagerHand.user, RpagerHand.user, ApagerHand.user} => u \in abandoned
  BY NotInHand DEF HInv, Fault
<1>4. InHand'
  <2>1. Hands(MpagerHand, RpagerHand, ApagerHand, user, abandoned)
    BY DEF HInv, InHand
  <2> HIDE DEF MpagerHand, RpagerHand, ApagerHand
  <2>2. Hands(MpagerHand, RpagerHand, ApagerHand, user', abandoned)
    BY <1>2, <1>3, <2>1, OtherThreads
  <2> QED
    BY <1>2, <2>2 DEF InHand
<1> QED
  BY <1>1, <1>4 DEF HInv

LEMMA AbandonHands ==
    ASSUME IInv, HInv, NEW u \in Users, Abandon(u) PROVE HInv'
<1>1. OneEntry' /\ ForThreads'
  BY DEF HInv, OneEntry, ForThreads, Abandon
<1>2. /\ UNCHANGED <<MpagerHand, RpagerHand, ApagerHand>>
      /\ abandoned' = abandoned \cup {u}
      /\ \A v \in Users : v # u => user'[v] = user[v]
  BY DEF Abandon, MpagerHand, RpagerHand, ApagerHand, IInv, TypeOK
<1>3. InHand'
  <2>1. Hands(MpagerHand, RpagerHand, ApagerHand, user, abandoned)
    BY DEF HInv, InHand
  <2>2. Hands(MpagerHand, RpagerHand, ApagerHand, user', abandoned')
    BY <1>2, <2>1, OtherThreads
  <2> QED
    BY <1>2, <2>2 DEF InHand
<1> QED
  BY <1>1, <1>3 DEF HInv

LEMMA TakeHands ==
    ASSUME IInv, HInv, NEW u \in Users, Take(u) PROVE HInv'
<1>1. UNCHANGED <<rpager, apager, ppftable, abandoned>> /\ mpager.step = "idle"
  BY DEF Take
<1>2. u # None /\ user[u] \in Threads /\ user[u].state = "sent"
  BY PagerAssumption DEF Take, IInv, TypeOK
<1>3. mpager' = MpagerIdle \/ (mpager'.user = u /\ mpager'.page = user[u].page)
  BY DEF Take
<1>4. OneEntry' /\ ForThreads'
  BY <1>1, <1>2, <1>3 DEF HInv, OneEntry, ForThreads, MpagerIdle
<1>5. /\ UNCHANGED <<RpagerHand, ApagerHand>>
      /\ \A v \in Users : v # u => user'[v] = user[v]
      /\ user'[u] = [state |-> "wait", page |-> user[u].page]
  BY <1>1, <1>2 DEF Take, RpagerHand, ApagerHand, IInv, TypeOK, Threads
<1>6. Hands(NoHand, RpagerHand, ApagerHand, user', abandoned)
  <2>1. Hands(MpagerHand, RpagerHand, ApagerHand, user, abandoned) /\ MpagerHand = NoHand
    BY <1>1, IdleHands DEF HInv, InHand
  <2>2. u \in {MpagerHand.user, RpagerHand.user, ApagerHand.user} => u \in abandoned
    BY <1>2, NotInHand DEF HInv
  <2>3. Hands(MpagerHand, RpagerHand, ApagerHand, user', abandoned)
    BY <1>5, <2>1, <2>2, OtherThreads
  <2> QED
    BY <2>1, <2>3
<1>7. MpagerHand' = NoHand \/ MpagerHand' = [user |-> u, page |-> user[u].page]
  BY <1>3 DEF MpagerHand, MpagerIdle
<1>8. Hands(MpagerHand', RpagerHand, ApagerHand, user', abandoned)
  <2>1. CASE MpagerHand' = NoHand
    BY <1>6, <2>1
  <2>2. CASE MpagerHand' = [user |-> u, page |-> user[u].page]
    <3> DEFINE h == [user |-> u, page |-> user[u].page]
    <3>1. h.user \in OrNone(Users) /\ Waits(h, user', abandoned)
      BY <1>5 DEF Waits, OrNone
    <3>2. u \in {RpagerHand.user, ApagerHand.user} => u \in abandoned
      BY <1>2, NotInHand DEF HInv
    <3>3. Alone(h, RpagerHand, abandoned) /\ Alone(h, ApagerHand, abandoned)
      BY <3>2 DEF Alone
    <3> HIDE DEF h
    <3>4. Hands(h, RpagerHand, ApagerHand, user', abandoned)
      BY <1>6, <3>1, <3>3 DEF Hands
    <3> QED
      BY <2>2, <3>4 DEF h
  <2> QED
    BY <1>7, <2>1, <2>2
<1> QED
  BY <1>1, <1>4, <1>5, <1>8 DEF HInv, InHand

\* A thread that is served was in one pager's hands, which are free now.
LEMMA MpagerMapsHands ==
    ASSUME IInv, HInv, MpagerMaps PROVE HInv'
<1>1. UNCHANGED <<rpager, apager, ppftable, abandoned>> /\ mpager' = MpagerIdle
  BY DEF MpagerMaps
<1>2. OneEntry' /\ ForThreads'
  BY <1>1 DEF HInv, OneEntry, ForThreads, MpagerIdle
<1>3. /\ UNCHANGED <<RpagerHand, ApagerHand>> /\ MpagerHand' = NoHand
      /\ MpagerHand.user = mpager.user /\ mpager.user # None
      /\ \A v \in Users : v # mpager.user => user'[v] = user[v]
  BY <1>1 DEF MpagerMaps, Maps, RpagerHand, ApagerHand, MpagerHand, MpagerIdle, IInv,
              TypeOK, HInv, ForThreads
<1>4. Hands(MpagerHand, RpagerHand, ApagerHand, user, abandoned)
  BY DEF HInv, InHand
<1>5. mpager.user \in {NoHand.user, RpagerHand.user, ApagerHand.user} =>
          mpager.user \in abandoned
  BY <1>3, <1>4 DEF Hands, Alone, NoHand
<1>6. Hands(NoHand, RpagerHand, ApagerHand, user', abandoned)
  BY <1>3, <1>4, <1>5, PassedOn, OtherThreads
<1> QED
  BY <1>1, <1>2, <1>3, <1>6 DEF HInv, InHand

LEMMA ApagerSendsHands ==
    ASSUME IInv, HInv, ApagerSends PROVE HInv'
<1>1. UNCHANGED <<rpager, mpager, ppftable, abandoned>> /\ apager' = ApagerIdle
  BY DEF ApagerSends
<1>2. OneEntry' /\ ForThreads'
  BY <1>1 DEF HInv, OneEntry, ForThreads, ApagerIdle
<1>3. /\ UNCHANGED <<RpagerHand, MpagerHand>> /\ ApagerHand' = NoHand
      /\ ApagerHand.user = apager.user /\ apager.user # None
      /\ \A v \in Users : v # apager.user => user'[v] = user[v]
  BY <1>1 DEF ApagerSends, Maps, RpagerHand, ApagerHand, MpagerHand, ApagerIdle, IInv,
              TypeOK, HInv, ForThreads
<1>4. Hands(MpagerHand, RpagerHand, ApagerHand, user, abandoned)
  BY DEF HInv, InHand
<1>5. apager.user \in {NoHand.user, RpagerHand.user, MpagerHand.user} =>
          apager.user \in abandoned
  BY <1>3, <1>4 DEF Hands, Alone, NoHand
<1>6. Hands(MpagerHand, RpagerHand, NoHand, user', abandoned)
  BY <1>3, <1>4, <1>5, PassedOn, OtherThreads
<1> QED
  BY <1>1, <1>2, <1>3, <1>6 DEF HInv, InHand

\* A fault that reaches rpager, for the thread u or for mpager itself, is in rpager's
\* hands, or put by.
LEMMA FaultReaches ==
    ASSUME IInv, HInv, NEW p \in Pages, NEW u \in OrNone(Users),
           NEW to \in {"apager", "mpager"}, to = "apager" => u # None,
           rpager.step = "idle", Known(p, u, to) \/ Unknown(p, u, to)
    PROVE  /\ OneEntry'
           /\ RpagerHand' \in {NoHand} \cup
                  {h \in {[user |-> u, page |-> p]} : to = "apager"}
           /\ rpager'.step = "map" /\ rpager'.to = "apager" => rpager'.user # None
           /\ \A i \in Offsets : ppftable'[i] # None /\ ppftable'[i].to = "apager" =>
                  ppftable'[i].user # None
<1>0. TypeOK /\ ForThreads
  BY DEF IInv, HInv
<1>1. CASE Known(p, u, to)
  BY <1>0, <1>1 DEF Known, RpagerIdle, OneEntry, RpagerHand, ForThreads
<1>2. CASE stop' = "overrun" /\ UNCHANGED <<rpager, ppftable, frames>>
  BY <1>0, <1>2 DEF HInv, OneEntry, RpagerHand, ForThreads
<1>3. ASSUME NEW i \in SlotFor(p),
             ppftable' = Saved(i, p, u, to),
             rpager' = IF AlreadyRequested(p) \/ frames = MaxFtable THEN RpagerIdle
                       ELSE [RpagerIdle EXCEPT !.step = "request", !.page = p,
                                               !.frame = NewFrame, !.off = i]
      PROVE  /\ OneEntry'
             /\ RpagerHand' \in {NoHand} \cup
                    {h \in {[user |-> u, page |-> p]} : to = "apager"}
             /\ rpager'.step = "map" /\ rpager'.to = "apager" => rpager'.user # None
             /\ \A j \in Offsets : ppftable'[j] # None /\ ppftable'[j].to = "apager" =>
                    ppftable'[j].user # None
  <2>1. i \in Offsets /\ i # None /\ ppftable[i] = None
        /\ (i # Primary(p) => ppftable[Primary(p)] \in Pending)
        /\ Primary(p) \in Offsets
    BY <1>0, <1>3, SlotForFacts, Hashes, PagerAssumption DEF Offsets
  <2>2. ppftable'[i] = [page |-> p, user |-> u, to |-> to, collision |-> None]
    BY <1>0, <1>3, <2>1 DEF Saved, TypeOK
  <2>3. ASSUME NEW j \in Offsets, ppftable'[j] # None, ppftable'[j].to = "apager"
        PROVE  ppftable'[j].user # None
    <3>1. CASE j = i
      BY <2>2, <2>3, <3>1
    <3>2. CASE j # i /\ i # Primary(p) /\ j = Primary(p)
      <4>1. ppftable'[j] = [ppftable[j] EXCEPT !.collision = i]
        BY <1>0, <1>3, <2>1, <3>2 DEF Saved, TypeOK
      <4>2. ppftable[j] \in Pending
        BY <2>1, <3>2
      <4>3. ppftable'[j].to = ppftable[j].to /\ ppftable'[j].user = ppftable[j].user
        BY <4>1, <4>2 DEF Pending
      <4>4. ppftable[j] # None
        BY <4>2, NoneAssumption
      <4> QED
        BY <1>0, <2>3, <4>3, <4>4 DEF ForThreads
    <3>3. CASE j # i /\ (i = Primary(p) \/ j # Primary(p))
      <4>1. ppftable'[j] = ppftable[j]
        BY <1>0, <1>3, <2>1, <3>3 DEF Saved, TypeOK
      <4> QED
        BY <1>0, <2>3, <4>1 DEF ForThreads
    <3> QED
      BY <3>1, <3>2, <3>3
  <2>4. CASE AlreadyRequested(p) \/ frames = MaxFtable
    BY <1>3, <2>3, <2>4 DEF OneEntry, RpagerHand, RpagerIdle
  <2>5. CASE ~(AlreadyRequested(p) \/ frames = MaxFtable)
    <3>1. rpager'.step = "request" /\ rpager'.page = p /\ rpager'.off = i
      BY <1>3, <2>5 DEF RpagerIdle
    <3>2. OneEntry'
      BY <2>1, <2>2, <3>1 DEF OneEntry
    <3>3. RpagerHand' = IF to = "apager" THEN [user |-> u, page |-> p] ELSE NoHand
      BY <2>2, <3>1 DEF RpagerHand
    <3> QED
      BY <2>3, <3>1, <3>2, <3>3
  <2> QED
    BY <2>4, <2>5
<1> QED
  BY <1>1, <1>2, <1>3 DEF Unknown

LEMMA AskHands ==
    ASSUME IInv, HInv, Ask PROVE HInv'
<1>1. /\ UNCHANGED <<apager, user, abandoned>> /\ mpager' = MpagerIdle
      /\ rpager.step = "idle" /\ mpager.step = "ask"
  BY DEF Ask
<1>2. mpager.page \in Pages /\ mpager.user \in OrNone(Users) /\ mpager.user # None
  BY <1>1 DEF IInv, OnItsWay, TypeOK, Mpagers, HInv, ForThreads
<1>3. /\ OneEntry'
      /\ RpagerHand' \in {NoHand, [user |-> mpager.user, page |-> mpager.page]}
      /\ rpager'.step = "map" /\ rpager'.to = "apager" => rpager'.user # None
      /\ \A i \in Offsets : ppftable'[i] # None /\ ppftable'[i].to = "apager" =>
             ppftable'[i].user # None
  BY <1>1, <1>2, FaultReaches DEF Ask
<1>4. ForThreads'
  BY <1>1, <1>3 DEF ForThreads, MpagerIdle, HInv
<1>5. MpagerHand' = NoHand /\ ApagerHand' = ApagerHand /\ RpagerHand = NoHand
      /\ MpagerHand = [user |-> mpager.user, page |-> mpager.page]
  BY <1>1 DEF MpagerHand, ApagerHand, RpagerHand, MpagerIdle
<1>6. Hands(MpagerHand, RpagerHand, ApagerHand, user, abandoned)
  BY DEF HInv, InHand
<1>7. Hands(NoHand, NoHand, ApagerHand, user, abandoned)
      /\ Hands(NoHand, MpagerHand, ApagerHand, user, abandoned)
  BY <1>5, <1>6, PassedOn
<1>8. Hands(NoHand, RpagerHand', ApagerHand, user, abandoned)
  BY <1>3, <1>5, <1>7
<1> QED
  BY <1>1, <1>3, <1>4, <1>5, <1>8 DEF HInv, InHand

LEMMA TouchHands ==
    ASSUME IInv, HInv, Touch PROVE HInv'
<1>1. /\ UNCHANGED <<apager, user, abandoned, mpager>>
      /\ rpager.step = "idle" /\ mpager.step = "touch"
  BY DEF Touch
<1>2. mpager.page \in Pages
  BY <1>1 DEF IInv, OnItsWay
<1>3. /\ OneEntry' /\ RpagerHand' = NoHand
      /\ rpager'.step = "map" /\ rpager'.to = "apager" => rpager'.user # None
      /\ \A i \in Offsets : ppftable'[i] # None /\ ppftable'[i].to = "apager" =>
             ppftable'[i].user # None
  <2>1. None \in OrNone(Users)
    BY DEF OrNone
  <2>2. /\ OneEntry'
        /\ RpagerHand' \in {NoHand} \cup
               {h \in {[user |-> None, page |-> mpager.page]} : "mpager" = "apager"}
        /\ rpager'.step = "map" /\ rpager'.to = "apager" => rpager'.user # None
        /\ \A i \in Offsets : ppftable'[i] # None /\ ppftable'[i].to = "apager" =>
               ppftable'[i].user # None
    BY <1>1, <1>2, <2>1, FaultReaches DEF Touch
  <2> QED
    BY <2>2
<1>4. ForThreads'
  BY <1>1, <1>3 DEF ForThreads, HInv
<1>5. UNCHANGED <<MpagerHand, ApagerHand>> /\ RpagerHand = NoHand
  BY <1>1 DEF MpagerHand, ApagerHand, RpagerHand
<1> QED
  BY <1>1, <1>3, <1>4, <1>5 DEF HInv, InHand

LEMMA ReadHands ==
    ASSUME IInv, HInv, Read PROVE HInv'
<1>1. /\ UNCHANGED <<mpager, apager, user, abandoned, ppftable>>
      /\ rpager.step = "request" /\ rpager' = [rpager EXCEPT !.step = "answer"]
      /\ rpager \in Rpagers
  BY DEF Read, IInv, TypeOK
<1>2. rpager'.step = "answer" /\ rpager'.page = rpager.page /\ rpager'.off = rpager.off
  BY <1>1 DEF Rpagers
<1>3. OneEntry' /\ ForThreads'
  BY <1>1, <1>2 DEF HInv, OneEntry, ForThreads
<1>4. UNCHANGED <<MpagerHand, RpagerHand, ApagerHand>>
  BY <1>1, <1>2 DEF MpagerHand, RpagerHand, ApagerHand
<1> QED
  BY <1>1, <1>3, <1>4 DEF HInv, InHand

\* The fault that rpager saved is the one it answers.
LEMMA AnswerHands ==
    ASSUME IInv, HInv, Answer PROVE HInv'
<1> DEFINE pf == ppftable[rpager.off]
<1>1. UNCHANGED <<mpager, apager, user, abandoned, ppftable>>
  BY DEF Answer
<1>2. /\ rpager.step = "answer" /\ rpager \in Rpagers /\ rpager.off # None
      /\ pf.page = rpager.page /\ pf.collision = None
  BY DEF Answer, HInv, OneEntry, IInv, TypeOK
<1>3. rpager.off \in Offsets /\ pf # None
  BY <1>2 DEF Rpagers, OrNone, IInv, Linked
<1>4. rpager' = rpager \/ rpager' = [rpager EXCEPT !.step = "map", !.to = pf.to,
                                               !.user = pf.user, !.off = None]
  BY <1>2 DEF Answer
<1>5. pf.to = "apager" => pf.user # None
  BY <1>3 DEF HInv, ForThreads
<1>6. UNCHANGED <<MpagerHand, ApagerHand>>
  BY <1>1 DEF MpagerHand, ApagerHand
<1>7. CASE rpager' = rpager
  <2>1. OneEntry' /\ ForThreads' /\ UNCHANGED RpagerHand
    BY <1>1, <1>7 DEF HInv, OneEntry, ForThreads, RpagerHand
  <2> QED
    BY <1>1, <1>6, <2>1 DEF HInv, InHand
<1>8. CASE rpager' = [rpager EXCEPT !.step = "map", !.to = pf.to, !.user = pf.user,
                                    !.off = None]
  <2>1. /\ rpager'.step = "map" /\ rpager'.to = pf.to /\ rpager'.user = pf.user
        /\ rpager'.off = None /\ rpager'.page = rpager.page
    BY <1>2, <1>8 DEF Rpagers
  <2>2. OneEntry' /\ ForThreads'
    BY <1>1, <1>5, <2>1 DEF HInv, OneEntry, ForThreads
  <2>3. UNCHANGED RpagerHand
    BY <1>2, <2>1 DEF RpagerHand
  <2> QED
    BY <1>1, <1>6, <2>2, <2>3 DEF HInv, InHand
<1> QED
  BY <1>4, <1>7, <1>8

LEMMA MapHands ==
    ASSUME IInv, HInv, MapForUser \/ MapForMpager PROVE HInv'
<1>1. rpager.step = "map" /\ rpager' = RpagerIdle /\ UNCHANGED <<user, abandoned, ppftable>>
  BY DEF MapForUser, MapForMpager, WalksOn, HInv, OneEntry
<1>2. RpagerHand' = NoHand /\ OneEntry'
  BY <1>1 DEF RpagerIdle, RpagerHand, OneEntry
<1>3. Hands(MpagerHand, RpagerHand, ApagerHand, user, abandoned)
  BY DEF HInv, InHand
<1>4. CASE MapForUser
  <2>1. UNCHANGED mpager /\ apager.step = "idle" /\ rpager.to = "apager"
        /\ apager'.step = "send" /\ apager'.user = rpager.user /\ apager'.page = rpager.page
    BY <1>4 DEF MapForUser
  <2>2. ForThreads'
    BY <1>1, <2>1 DEF HInv, ForThreads, RpagerIdle
  <2>3. UNCHANGED MpagerHand /\ ApagerHand = NoHand /\ ApagerHand' = RpagerHand
    BY <1>1, <2>1 DEF MpagerHand, ApagerHand, RpagerHand
  <2>4. Hands(MpagerHand, NoHand, RpagerHand, user, abandoned)
    BY <1>3, <2>3, PassedOn
  <2> QED
    BY <1>1, <1>2, <2>2, <2>3, <2>4 DEF HInv, InHand
<1>5. CASE MapForMpager
  <2>1. /\ UNCHANGED apager /\ mpager.step = "touch" /\ mpager'.step = "map"
        /\ mpager'.user = mpager.user /\ mpager'.page = mpager.page
    BY <1>5 DEF MapForMpager, IInv, TypeOK, Mpagers
  <2>2. ForThreads'
    BY <1>1, <2>1 DEF HInv, ForThreads, RpagerIdle
  <2>3. UNCHANGED <<MpagerHand, ApagerHand>>
    BY <2>1 DEF MpagerHand, ApagerHand
  <2>4. Hands(MpagerHand, NoHand, ApagerHand, user, abandoned)
    BY <1>3, PassedOn
  <2> QED
    BY <1>1, <1>2, <2>2, <2>3, <2>4 DEF HInv, InHand
<1> QED
  BY <1>4, <1>5

LEMMA HandsStep == IInv /\ HInv /\ [Next]_vars => HInv'
<1> SUFFICES ASSUME IInv, HInv, [Next]_vars PROVE HInv'
  OBVIOUS
<1>1. CASE UNCHANGED vars
  BY <1>1 DEF vars, HInv, OneEntry, ForThreads, InHand, MpagerHand, RpagerHand, ApagerHand
<1> QED
  BY <1>1, FaultHands, AbandonHands, TakeHands, MpagerMapsHands, ApagerSendsHands, AskHands,
     TouchHands, ReadHands, AnswerHands, MapHands DEF Next

\* Whom the pagers work for: a thread that is in a pager's hands waits for the page in
\* them, and no two pagers work for one thread (the calls from mpager to rpager to apager
\* are synchronous, and rpager's to the disk is too).
THEOREM HandsInvariant == Spec => []HInv
<1>1. IInv /\ HInv /\ [Next]_vars => HInv'
  BY HandsStep
<1> QED
  BY HandsInit, <1>1, Invariant, PTL DEF Spec

\* A mapping on its way is for a page that the thread waits for, unless it gave a fault up
\* (save_state, ppf_map, map_page, apager's loop), with any number of threads and pages.
THEOREM AnswersAreAsked == Spec => []AnswersAsked
<1>1. HInv => AnswersAsked
  <2> SUFFICES ASSUME HInv PROVE AnswersAsked
    OBVIOUS
  <2>1. ASSUME apager.step = "send", apager.user \notin abandoned
        PROVE  user[apager.user] = [state |-> "wait", page |-> apager.page]
    <3>1. ApagerHand = [user |-> apager.user, page |-> apager.page] /\ apager.user # None
      BY <2>1 DEF ApagerHand, HInv, ForThreads
    <3> QED
      BY <2>1, <3>1 DEF HInv, InHand, Hands, Waits
  <2>2. ASSUME rpager.step = "map", rpager.to = "apager", rpager.user \notin abandoned
        PROVE  user[rpager.user] = [state |-> "wait", page |-> rpager.page]
    <3>1. RpagerHand = [user |-> rpager.user, page |-> rpager.page] /\ rpager.user # None
      BY <2>2 DEF RpagerHand, HInv, ForThreads
    <3> QED
      BY <2>2, <3>1 DEF HInv, InHand, Hands, Waits
  <2> QED
    BY <2>1, <2>2 DEF AnswersAsked
<1> QED
  BY HandsInvariant, <1>1, PTL

=============================================================================
