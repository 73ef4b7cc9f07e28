-------------------------- MODULE SemaphoresProofs --------------------------
(***************************************************************************)
(* Proofs about Semaphores.  Until a block was taken off a queue with      *)
(* another one behind it, a queue is a chain of its own blocks that ends;  *)
(* the value then accounts for every token.                                *)
(***************************************************************************)
EXTENDS Semaphores, TLAPS, FiniteSetTheorems

\* The locations of the queue of s.
Locations(s) == queued[s] \cup {s}

\* The queue of s is a chain: every block knows the location that points to
\* it, one location points to none, and no fewer blocks are closed under ptr.
PointsBack(s) == \A b \in queued[s] : /\ pprev[b] \in Locations(s) /\ ptr[pprev[b]] = b
                                     /\ owner[b] \in Threads
Follows(s)    == \A l \in Locations(s) : ptr[l] # None => ptr[l] \in queued[s] /\ pprev[ptr[l]] = l
Ends(s)       == \E l \in Locations(s) : ptr[l] = None
Closed(s, S)  == \A l \in S \cup {s} : ptr[l] \in S \cup {None}
Reached(s)    == \A S \in SUBSET queued[s] : Closed(s, S) => S = queued[s]

Chain(s) == PointsBack(s) /\ Follows(s) /\ Ends(s) /\ Reached(s)
Chains   == \A s \in Slots : Chain(s)

\* The blocks in use belong to one queue each.
Partition == /\ used = UNION {queued[s] : s \in Slots}
             /\ \A s, k \in Slots : s # k => queued[s] \cap queued[k] = {}

\* Only semaphores, and the one that is being deleted, have blocks in their queues.
IdleQueues == \A s \in Slots : address[s] = None /\ deleting # s => queued[s] = {}

\* A thread is in the queue of what it waits for.
Queued == \A t \in Threads, s \in Slots : waits[t] = s => \E b \in queued[s] : owner[b] = t

\* Threads are in a queue only when there is no token.
NoToken == \A s \in Slots \ robbed :
    queued[s] # {} /\ InUse(s) => given[s] <= passed[s] + dropped[s]

Values == \A s \in Slots \ robbed :
    InUse(s) => value[s] = given[s] - passed[s] - dropped[s] - Cardinality(queued[s])

Passes == \A s \in Slots \ robbed : InUse(s) => passed[s] <= given[s]

HaltsLocked == halted => heap_lock

Queues == Chains /\ Partition
Tokens == NoToken /\ Values /\ Passes
Sound  == Queues /\ IdleQueues /\ Queued /\ Tokens /\ HaltsLocked

\* The block of semaphores.
Block ==
    /\ count = Cardinality({s \in Slots : InUse(s)})
    /\ semp <=> (count > 0 \/ deleting # None)
    /\ \A s, k \in Slots : InUse(s) /\ address[s] = address[k] => s = k
    /\ deleting # None => ~InUse(deleting)

IInv == TypeOK /\ Block /\ (~misplaced => Sound)

\* One operation.
Step ==
    \/ \E s \in Slots, a \in Addresses, v \in 0 .. MaxValue : Create(s, a, v)
    \/ CreateNoMemory
    \/ \E s \in Slots : Delete(s)
    \/ \E s \in Slots : DeleteFails(s)
    \/ \E s \in Slots : DeleteEnds(s)
    \/ \E s \in Slots, t \in Threads : WaitPasses(t, s)
    \/ \E s \in Slots, t \in Threads : WaitBlocks(t, s)
    \/ \E s \in Slots, t \in Threads : WaitNoMemory(t, s)
    \/ \E s \in Slots : SignalNobody(s)
    \/ \E s \in Slots : SignalWakes(s)
    \/ \E s \in Slots : SignalFails(s)
    \/ \E s \in Slots : Halt(s)
    \/ \E t \in Threads : Die(t)
    \/ \E t \in Threads : Handler(t)
    \/ \E t \in Threads : Reborn(t)
    \/ \E t \in Threads : BlockElsewhere(t)
    \/ \E t \in Threads : Answered(t)

LEMMA NextIsStep == Next => Step
  BY DEF Next, Step

-----------------------------------------------------------------------------
(* The type of the state *)

LEMMA SlotCount ==
    /\ \A S \in SUBSET Slots : /\ IsFiniteSet(S)
                               /\ Cardinality(S) \in 0 .. Cardinality(Slots)
    /\ Cardinality(Slots) \in Nat
<1> SUFFICES ASSUME NEW S \in SUBSET Slots
             PROVE  /\ IsFiniteSet(S)
                    /\ Cardinality(S) \in 0 .. Cardinality(Slots)
                    /\ Cardinality(Slots) \in Nat
  OBVIOUS
<1>1. IsFiniteSet(S) /\ Cardinality(S) <= Cardinality(Slots)
  BY FS_Subset, SemAssumption
<1>2. Cardinality(S) \in Nat /\ Cardinality(Slots) \in Nat
  BY <1>1, FS_CardinalityType, SemAssumption
<1> QED
  BY <1>1, <1>2

\* What the operations on wait queues do to the types.
WaitqType ==
    /\ ptr \in [Slots \cup Blocks -> Blocks \cup {None}]
    /\ pprev \in [Blocks -> Slots \cup Blocks \cup {None}]
    /\ owner \in [Blocks -> Threads \cup {None}]
    /\ used \subseteq Blocks
    /\ heap_lock \in BOOLEAN

LEMMA WaitqTypes ==
    ASSUME TypeOK, NEW s \in Slots
    PROVE  /\ NoMemory => WaitqType'
           /\ TakeOff(s) => /\ WaitqType' /\ queued' \in [Slots -> SUBSET Blocks]
                            /\ misplaced' \in BOOLEAN /\ owner[ptr[s]] \in Threads \cup {None}
           /\ \A t \in Threads, b \in Blocks : WaitqAdd(s, t, b) => WaitqType'
<1>1. NoMemory => WaitqType'
  BY DEF TypeOK, NoMemory, WaitqType
<1>2. ASSUME TakeOff(s)
      PROVE  /\ WaitqType' /\ queued' \in [Slots -> SUBSET Blocks]
             /\ misplaced' \in BOOLEAN /\ owner[ptr[s]] \in Threads \cup {None}
  <2>1. ptr[s] \in Blocks
    BY <1>2 DEF TakeOff, WaitqRemove, TypeOK
  <2>2. WaitqType'
    BY <1>2 DEF TypeOK, TakeOff, WaitqRemove, WaitqType
  <2>3. queued' \in [Slots -> SUBSET Blocks]
    BY <1>2 DEF TypeOK, TakeOff
  <2>4. misplaced' \in BOOLEAN
    BY <1>2, Zenon DEF TypeOK, TakeOff
  <2> QED
    BY <2>1, <2>2, <2>3, <2>4 DEF TypeOK
<1>3. ASSUME NEW t \in Threads, NEW b \in Blocks, WaitqAdd(s, t, b)
      PROVE  WaitqType'
  <2>1. PICK end \in QueueEnd(s) :
            /\ ptr' = [ptr EXCEPT ![b] = None, ![end] = b]
            /\ pprev' = [pprev EXCEPT ![b] = end]
            /\ owner' = [owner EXCEPT ![b] = t]
            /\ used' = used \cup {b}
            /\ UNCHANGED heap_lock
    BY <1>3 DEF WaitqAdd
  <2>2. end \in Slots \cup Blocks
    BY DEF QueueEnd
  <2> QED
    BY <2>1, <2>2 DEF TypeOK, WaitqType
<1> QED
  BY <1>1, <1>2, <1>3

LEMMA TypeInit == Init => TypeOK
<1> SUFFICES ASSUME Init PROVE TypeOK
  OBVIOUS
<1>1. count \in 0 .. Cardinality(Slots)
  BY SlotCount DEF Init
<1>2. /\ value \in [Slots -> Int]
      /\ given \in [Slots -> Nat] /\ passed \in [Slots -> Nat] /\ dropped \in [Slots -> Nat]
  BY DEF Init
<1>3. /\ semp \in BOOLEAN /\ heap_lock \in BOOLEAN /\ halted \in BOOLEAN
      /\ misplaced \in BOOLEAN
  BY DEF Init
<1> QED
  BY <1>1, <1>2, <1>3, Zenon DEF Init, TypeOK

\* All but the count, which Block bounds.
LEMMA TypeStep ==
    ASSUME TypeOK, Step, count' \in 0 .. Cardinality(Slots)
    PROVE  TypeOK'
<1> USE DEF blockVars, waitqVars, threadVars, history
<1>1. ASSUME NEW s \in Slots, NEW a \in Addresses, NEW v \in 0 .. MaxValue, Create(s, a, v)
      PROVE  TypeOK'
  BY <1>1, SemAssumption DEF TypeOK, Create
<1>2. CASE CreateNoMemory
  BY <1>2 DEF TypeOK, CreateNoMemory, NoMemory
<1>3. ASSUME NEW s \in Slots, Delete(s) PROVE TypeOK'
  BY <1>3 DEF TypeOK, Delete
<1>4. ASSUME NEW s \in Slots, DeleteFails(s) PROVE TypeOK'
  <2>1. WaitqType' /\ queued' \in [Slots -> SUBSET Blocks] /\ misplaced' \in BOOLEAN
    BY <1>4, WaitqTypes DEF DeleteFails
  <2>2. waits' \in [Threads -> Slots \cup {None, Elsewhere}]
    BY <1>4 DEF DeleteFails, TypeOK
  <2> QED
    BY <1>4, <2>1, <2>2 DEF TypeOK, DeleteFails, WaitqType
<1>5. ASSUME NEW s \in Slots, DeleteEnds(s) PROVE TypeOK'
  BY <1>5 DEF TypeOK, DeleteEnds, BlockNeeded
<1>6. ASSUME NEW s \in Slots, NEW t \in Threads, WaitPasses(t, s) PROVE TypeOK'
  BY <1>6 DEF TypeOK, WaitPasses
<1>7. ASSUME NEW s \in Slots, NEW t \in Threads, WaitBlocks(t, s) PROVE TypeOK'
  <2>1. PICK b \in Blocks \ used : WaitqAdd(s, t, b) /\ queued' = [queued EXCEPT ![s] = @ \cup {b}]
    BY <1>7 DEF WaitBlocks
  <2>2. WaitqType'
    BY <2>1, WaitqTypes
  <2>3. value' \in [Slots -> Int]
    BY <1>7 DEF WaitBlocks, TypeOK
  <2>4. queued' \in [Slots -> SUBSET Blocks]
    BY <2>1 DEF TypeOK
  <2>5. waits' \in [Threads -> Slots \cup {None, Elsewhere}]
    BY <1>7 DEF WaitBlocks, TypeOK
  <2> QED
    BY <1>7, <2>2, <2>3, <2>4, <2>5 DEF TypeOK, WaitBlocks, WaitqType
<1>8. ASSUME NEW s \in Slots, NEW t \in Threads, WaitNoMemory(t, s) PROVE TypeOK'
  <2>1. WaitqType'
    BY <1>8, WaitqTypes DEF WaitNoMemory
  <2>2. value' \in [Slots -> Int]
    BY <1>8 DEF WaitNoMemory, TypeOK, Restored
  <2> QED
    BY <1>8, <2>1, <2>2 DEF TypeOK, WaitNoMemory, WaitqType
<1>9. ASSUME NEW s \in Slots, SignalNobody(s) PROVE TypeOK'
  BY <1>9 DEF TypeOK, SignalNobody
<1>10. ASSUME NEW s \in Slots, SignalWakes(s) PROVE TypeOK'
  <2>1. WaitqType' /\ queued' \in [Slots -> SUBSET Blocks] /\ misplaced' \in BOOLEAN
    BY <1>10, WaitqTypes DEF SignalWakes
  <2>2. waits' \in [Threads -> Slots \cup {None, Elsewhere}]
    BY <1>10 DEF SignalWakes, TypeOK
  <2>3. value' \in [Slots -> Int] /\ given' \in [Slots -> Nat]
    BY <1>10 DEF SignalWakes, TypeOK
  <2>4. passed' \in [Slots -> Nat] /\ dropped' \in [Slots -> Nat]
    BY <1>10 DEF SignalWakes, TypeOK
  <2>5. robbed' \subseteq Slots
    BY <1>10 DEF SignalWakes, TypeOK
  <2> QED
    BY <1>10, <2>1, <2>2, <2>3, <2>4, <2>5 DEF TypeOK, SignalWakes, WaitqType
<1>11. ASSUME NEW s \in Slots, SignalFails(s) PROVE TypeOK'
  <2>1. WaitqType' /\ queued' \in [Slots -> SUBSET Blocks] /\ misplaced' \in BOOLEAN
    BY <1>11, WaitqTypes DEF SignalFails
  <2>2. dropped' \in [Slots -> Nat]
    BY <1>11 DEF SignalFails, TypeOK
  <2> QED
    BY <1>11, <2>1, <2>2 DEF TypeOK, SignalFails, WaitqType
<1>12. ASSUME NEW s \in Slots, Halt(s) PROVE TypeOK'
  BY <1>12 DEF TypeOK, Halt
<1>13. ASSUME NEW t \in Threads, Die(t) PROVE TypeOK'
  BY <1>13 DEF TypeOK, Die
<1>14. ASSUME NEW t \in Threads, Handler(t) \/ Answered(t) PROVE TypeOK'
  BY <1>14 DEF TypeOK, Handler, Answered, Restarted
<1>15. ASSUME NEW t \in Threads, Reborn(t) PROVE TypeOK'
  BY <1>15 DEF TypeOK, Reborn, Restarted
<1>16. ASSUME NEW t \in Threads, BlockElsewhere(t) PROVE TypeOK'
  BY <1>16 DEF TypeOK, BlockElsewhere
<1> QED
  BY <1>1, <1>2, <1>3, <1>4, <1>5, <1>6, <1>7, <1>8, <1>9, <1>10, <1>11, <1>12, <1>13,
     <1>14, <1>15, <1>16
     DEF Step

-----------------------------------------------------------------------------
(* The block of semaphores *)

LEMMA BlockInit == Init => Block
<1> SUFFICES ASSUME Init PROVE Block
  OBVIOUS
<1>1. {s \in Slots : InUse(s)} = {}
  BY DEF Init, InUse
<1>2. Cardinality({s \in Slots : InUse(s)}) = 0
  BY <1>1, FS_EmptySet
<1> QED
  BY <1>2, SemAssumption DEF Init, Block, InUse

LEMMA BlockCreate ==
    ASSUME TypeOK, Block, NEW s \in Slots, NEW a \in Addresses, NEW v \in 0 .. MaxValue,
           Create(s, a, v)
    PROVE  Block' /\ count' \in 0 .. Cardinality(Slots)
<1> DEFINE names == {k \in Slots : InUse(k)}
<1>1. names' = names \cup {s} /\ s \notin names
  BY SemAssumption DEF TypeOK, Create, InUse
<1>2. Cardinality(names') = Cardinality(names) + 1
  BY <1>1, SlotCount, FS_AddElement
<1>3. count' = Cardinality(names')
  BY <1>2 DEF Create, Block
<1>4. count' \in 0 .. Cardinality(Slots)
  BY <1>3, SlotCount
<1>5. semp' /\ count' > 0 /\ deleting' = None
  BY DEF Create, Ready, TypeOK
<1>6. \A k, l \in Slots : InUse(k)' /\ address'[k] = address'[l] => k = l
  BY SemAssumption DEF Create, TypeOK, Block, InUse
<1> QED
  BY <1>3, <1>4, <1>5, <1>6 DEF Block

LEMMA BlockDelete ==
    ASSUME TypeOK, Block, NEW s \in Slots, Delete(s)
    PROVE  Block' /\ count' \in 0 .. Cardinality(Slots)
<1> DEFINE names == {k \in Slots : InUse(k)}
<1>1. names' = names \ {s} /\ s \in names
  BY SemAssumption DEF TypeOK, Delete, InUse
<1>2. Cardinality(names') = Cardinality(names) - 1
  BY <1>1, SlotCount, FS_RemoveElement
<1>3. count' = Cardinality(names')
  BY <1>2 DEF Delete, Discounted, Block
<1>4. count' \in 0 .. Cardinality(Slots)
  BY <1>3, SlotCount
<1>5. count = Cardinality(names) /\ count \in Nat
  BY DEF Block, TypeOK
<1>6. count > 0
  BY <1>2, <1>3, <1>4, <1>5, SlotCount
<1>7. semp' /\ deleting' = s /\ s # None
  BY <1>6, SemAssumption DEF Block, Delete
<1>8. \A k, l \in Slots : InUse(k)' /\ address'[k] = address'[l] => k = l
  BY SemAssumption DEF Delete, TypeOK, Block, InUse
<1> QED
  BY <1>3, <1>4, <1>7, <1>8, SemAssumption DEF Block, Delete, InUse, TypeOK

LEMMA BlockDeleteEnds ==
    ASSUME TypeOK, Block, NEW s \in Slots, DeleteEnds(s)
    PROVE  Block' /\ count' \in 0 .. Cardinality(Slots)
<1>1. count' = count /\ address' = address /\ deleting' = None /\ (semp' <=> count # 0)
  BY DEF DeleteEnds, BlockNeeded
<1>2. count \in 0 .. Cardinality(Slots) /\ Cardinality(Slots) \in Nat
  BY SlotCount DEF TypeOK
<1>3. {k \in Slots : InUse(k)}' = {k \in Slots : InUse(k)}
  BY <1>1 DEF InUse
<1>4. count # 0 <=> count > 0
  BY <1>2
<1> QED
  BY <1>1, <1>2, <1>3, <1>4 DEF Block, InUse

\* The other operations leave the block alone.
LEMMA BlockUntouched ==
    ASSUME TypeOK, Block, UNCHANGED <<semp, count, address, deleting>>
    PROVE  Block' /\ count' \in 0 .. Cardinality(Slots)
  BY DEF TypeOK, Block, InUse

LEMMA BlockStep ==
    ASSUME TypeOK, Block, Step
    PROVE  Block' /\ count' \in 0 .. Cardinality(Slots)
<1>1. CASE UNCHANGED <<semp, count, address, deleting>>
  BY <1>1, BlockUntouched
<1>2. CASE \E s \in Slots, a \in Addresses, v \in 0 .. MaxValue : Create(s, a, v)
  BY <1>2, BlockCreate
<1>3. CASE \E s \in Slots : Delete(s)
  BY <1>3, BlockDelete
<1>4. CASE \E s \in Slots : DeleteEnds(s)
  BY <1>4, BlockDeleteEnds
<1> QED
  BY <1>1, <1>2, <1>3, <1>4
     DEF Step, CreateNoMemory, DeleteFails, WaitPasses, WaitBlocks, WaitNoMemory,
         SignalNobody, SignalWakes, SignalFails, Halt, Die, Handler, Reborn, BlockElsewhere,
         Answered, Restarted, blockVars

-----------------------------------------------------------------------------
(* Queues *)

LEMMA QueueEnds ==
    ASSUME NEW s \in Slots, NEW l
    PROVE  l \in QueueEnd(s) <=> /\ l \in Slots \cup Blocks /\ ptr[l] = None
                                 /\ \A S \in SUBSET Blocks : Closed(s, S) => l \in S \cup {s}
<1>1. \A S \in SUBSET Blocks :
         Closed(s, S) <=> {ptr[k] : k \in S \cup {s}} \subseteq S \cup {None}
  BY DEF Closed
<1> QED
  BY <1>1 DEF QueueEnd

\* A queue that does not point outside is closed.
LEMMA QueueClosed ==
    ASSUME TypeOK, NEW s \in Slots, Chain(s)
    PROVE  queued[s] \in SUBSET Blocks /\ Closed(s, queued[s])
  BY DEF TypeOK, Chain, Follows, Closed, Locations

\* The walk along a queue ends, and at the place that points to none.
LEMMA EndExists ==
    ASSUME TypeOK, NEW s \in Slots, Chain(s)
    PROVE  QueueEnd(s) # {}
<1>1. PICK l \in Locations(s) : ptr[l] = None
  BY DEF Chain, Ends
<1>2. l \in Slots \cup Blocks
  BY QueueClosed DEF Locations
<1>3. ASSUME NEW S \in SUBSET Blocks, Closed(s, S)
      PROVE  l \in S \cup {s}
  <2>1. Closed(s, S \cap queued[s])
    BY <1>3 DEF Closed, Chain, Follows, Locations
  <2>2. S \cap queued[s] = queued[s]
    BY <2>1 DEF Chain, Reached
  <2> QED
    BY <2>2 DEF Locations
<1> QED
  BY <1>1, <1>2, <1>3, QueueEnds

LEMMA EndPlace ==
    ASSUME TypeOK, NEW s \in Slots, Chain(s), NEW l \in QueueEnd(s)
    PROVE  l \in Locations(s) /\ ptr[l] = None /\ l \in Slots \cup Blocks
  BY QueueEnds, QueueClosed DEF Locations

\* What happens elsewhere leaves a queue alone.
LEMMA ChainKept ==
    ASSUME NEW s \in Slots, Chain(s), queued'[s] = queued[s],
           \A l \in Locations(s) : ptr'[l] = ptr[l],
           \A b \in queued[s] : pprev'[b] = pprev[b] /\ owner'[b] = owner[b]
    PROVE  Chain(s)'
<1>1. Locations(s)' = Locations(s)
  BY DEF Locations
<1>2. \A S \in SUBSET queued[s] : Closed(s, S)' <=> Closed(s, S)
  BY DEF Closed, Locations
<1>3. Reached(s)'
  BY <1>2 DEF Chain, Reached
<1>4. PointsBack(s)'
  BY <1>1 DEF Chain, PointsBack
<1>5. Follows(s)'
  BY <1>1 DEF Chain, Follows
<1>6. Ends(s)'
  BY <1>1 DEF Chain, Ends
<1> QED
  BY <1>3, <1>4, <1>5, <1>6 DEF Chain

\* The places of two queues are apart.
LEMMA Apart ==
    ASSUME TypeOK, Partition, NEW s \in Slots, NEW k \in Slots, s # k
    PROVE  Locations(s) \cap Locations(k) = {}
  BY SemAssumption DEF TypeOK, Partition, Locations

LEMMA AddSound ==
    ASSUME TypeOK, Queues, NEW s \in Slots, NEW t \in Threads, NEW b \in Blocks \ used,
           WaitqAdd(s, t, b), queued' = [queued EXCEPT ![s] = @ \cup {b}]
    PROVE  /\ Queues' /\ ~heap_lock /\ heap_lock' = heap_lock
           /\ b \in queued'[s] /\ owner'[b] = t /\ b \notin queued[s]
           /\ queued'[s] = queued[s] \cup {b}
           /\ \A k \in Slots \ {s} : queued'[k] = queued[k]
           /\ \A d \in used : owner'[d] = owner[d]
<1> DEFINE old == queued[s]
<1>1. PICK end \in QueueEnd(s) :
         /\ ~heap_lock
         /\ ptr' = [ptr EXCEPT ![b] = None, ![end] = b]
         /\ pprev' = [pprev EXCEPT ![b] = end]
         /\ owner' = [owner EXCEPT ![b] = t]
         /\ used' = used \cup {b}
         /\ UNCHANGED heap_lock
  BY DEF WaitqAdd
<1>2. Chain(s) /\ Partition
  BY DEF Queues, Chains
<1>3. end \in Locations(s) /\ ptr[end] = None /\ end \in Slots \cup Blocks
  BY <1>2, EndPlace
<1>4. /\ b \notin Slots /\ b # None /\ old \subseteq Blocks /\ s \notin Blocks
      /\ \A k \in Slots : queued[k] \subseteq used /\ b \notin Locations(k)
  BY <1>2, SemAssumption DEF TypeOK, Partition, Locations
<1>5. b # end
  BY <1>3, <1>4
<1>6. /\ ptr'[end] = b /\ ptr'[b] = None
      /\ \A l \in Slots \cup Blocks : l # end /\ l # b => ptr'[l] = ptr[l]
  BY <1>1, <1>3, <1>5 DEF TypeOK
<1>7. /\ pprev'[b] = end /\ owner'[b] = t
      /\ \A d \in Blocks : d # b => pprev'[d] = pprev[d] /\ owner'[d] = owner[d]
  BY <1>1 DEF TypeOK
<1>8. /\ queued'[s] = old \cup {b} /\ \A k \in Slots \ {s} : queued'[k] = queued[k]
      /\ Locations(s)' = Locations(s) \cup {b}
  BY DEF TypeOK, Locations
<1>9. \A l \in Locations(s) : l # end => ptr'[l] = ptr[l]
  BY <1>4, <1>6 DEF Locations
<1>10. PointsBack(s)'
  <2> SUFFICES ASSUME NEW d \in old \cup {b}
               PROVE  /\ pprev'[d] \in Locations(s)' /\ ptr'[pprev'[d]] = d
                      /\ owner'[d] \in Threads
    BY <1>8 DEF PointsBack
  <2>1. CASE d = b
    BY <2>1, <1>3, <1>6, <1>7, <1>8
  <2>2. CASE d # b
    <3>1. /\ d \in old /\ pprev'[d] = pprev[d] /\ owner'[d] = owner[d]
      BY <2>2, <1>4, <1>7
    <3>2. pprev[d] \in Locations(s) /\ ptr[pprev[d]] = d /\ owner[d] \in Threads
      BY <3>1, <1>2 DEF Chain, PointsBack
    <3>3. d # None
      BY <1>4, SemAssumption
    <3>4. pprev[d] # end
      BY <3>2, <3>3, <1>3
    <3> QED
      BY <3>1, <3>2, <3>4, <1>8, <1>9
  <2> QED
    BY <2>1, <2>2
<1>11. Follows(s)'
  <2> SUFFICES ASSUME NEW l \in Locations(s) \cup {b}, ptr'[l] # None
               PROVE  ptr'[l] \in queued'[s] /\ pprev'[ptr'[l]] = l
    BY <1>8 DEF Follows
  <2>1. CASE l = end
    BY <2>1, <1>6, <1>7, <1>8
  <2>2. CASE l # end
    <3>1. l \in Locations(s) /\ ptr'[l] = ptr[l]
      BY <2>2, <1>6, <1>9
    <3>2. ptr[l] \in old /\ pprev[ptr[l]] = l
      BY <3>1, <1>2 DEF Chain, Follows
    <3>3. ptr[l] # b /\ ptr[l] \in Blocks
      BY <3>2, <1>4 DEF Locations
    <3> QED
      BY <3>1, <3>2, <3>3, <1>7, <1>8
  <2> QED
    BY <2>1, <2>2
<1>12. Ends(s)'
  BY <1>6, <1>8 DEF Ends
<1>13. Reached(s)'
  <2> SUFFICES ASSUME NEW S \in SUBSET (old \cup {b}),
                      \A l \in S \cup {s} : ptr'[l] \in S \cup {None}
               PROVE  S = old \cup {b}
    BY <1>8 DEF Reached, Closed
  <2> DEFINE R == S \ {b}
  <2>1. R \in SUBSET old
    OBVIOUS
  <2>2. ASSUME NEW l \in R \cup {s}
        PROVE  ptr[l] \in R \cup {None}
    <3>1. CASE l = end
      BY <3>1, <1>3
    <3>2. CASE l # end
      <4>1. l \in Locations(s) /\ l \in S \cup {s}
        BY <2>1 DEF Locations
      <4>2. ptr'[l] = ptr[l] /\ ptr'[l] \in S \cup {None}
        BY <4>1, <3>2, <1>9
      <4>3. ptr[l] \in old \cup {None}
        BY <4>1, <1>2 DEF Chain, Follows
      <4>4. ptr[l] # b
        BY <4>3, <1>4 DEF Locations
      <4> QED
        BY <4>2, <4>4
    <3> QED
      BY <3>1, <3>2
  <2>3. Closed(s, R)
    BY <2>2 DEF Closed
  <2>4. R = old
    BY <2>1, <2>3, <1>2 DEF Chain, Reached
  <2>5. end \in S \cup {s}
    BY <2>4, <1>3 DEF Locations
  <2>6. b \in S
    BY <2>5, <1>4, <1>6
  <2> QED
    BY <2>4, <2>6
<1>14. ASSUME NEW k \in Slots \ {s} PROVE Chain(k)'
  <2>1. Chain(k) /\ Locations(k) \cap Locations(s) = {} /\ b \notin Locations(k)
    BY <1>2, <1>4, Apart DEF Queues, Chains
  <2>2. Locations(k) \subseteq Slots \cup Blocks /\ queued[k] \subseteq Blocks
    BY DEF Locations, TypeOK
  <2>3. \A l \in Locations(k) : ptr'[l] = ptr[l]
    BY <2>1, <2>2, <1>3, <1>6
  <2>4. \A d \in queued[k] : pprev'[d] = pprev[d] /\ owner'[d] = owner[d]
    BY <2>1, <2>2, <1>7 DEF Locations
  <2> QED
    BY <2>1, <2>3, <2>4, <1>8, ChainKept
<1>15. Chains'
  <2>1. Chain(s)'
    BY <1>10, <1>11, <1>12, <1>13 DEF Chain
  <2> QED
    BY <2>1, <1>14 DEF Chains
<1>16. Partition'
  <2>1. used' = UNION {queued'[k] : k \in Slots}
    <3>1. used' = used \cup {b} /\ used = UNION {queued[k] : k \in Slots}
      BY <1>1, <1>2 DEF Partition
    <3>2. \A k \in Slots : queued'[k] = IF k = s THEN queued[k] \cup {b} ELSE queued[k]
      BY <1>8
    <3>3. UNION {queued'[k] : k \in Slots} = (UNION {queued[k] : k \in Slots}) \cup {b}
      BY <3>2
    <3> QED
      BY <3>1, <3>3
  <2>2. ASSUME NEW k \in Slots, NEW l \in Slots, k # l
        PROVE  queued'[k] \cap queued'[l] = {}
    <3>1. queued[k] \cap queued[l] = {} /\ b \notin queued[k] /\ b \notin queued[l]
      BY <2>2, <1>2, <1>4 DEF Partition, Locations
    <3> QED
      BY <2>2, <3>1, <1>8
  <2> QED
    BY <2>1, <2>2 DEF Partition
<1>17. b \notin queued[s] /\ \A d \in used : owner'[d] = owner[d]
  BY <1>4, <1>7 DEF Locations, TypeOK
<1> QED
  BY <1>1, <1>7, <1>8, <1>15, <1>16, <1>17 DEF Queues

\* The only block of a queue is taken off.
LEMMA RemoveSound ==
    ASSUME TypeOK, Queues, NEW s \in Slots, TakeOff(s), ~misplaced'
    PROVE  /\ Queues' /\ heap_lock' = heap_lock
           /\ ptr[s] \in Blocks /\ owner[ptr[s]] \in Threads
           /\ queued[s] = {ptr[s]} /\ queued'[s] = {}
           /\ \A k \in Slots \ {s} : queued'[k] = queued[k]
           /\ owner' = owner
<1>1. PICK b : b = ptr[s]
  OBVIOUS
<1>2. /\ b \in used /\ ptr[b] = None /\ queued' = [queued EXCEPT ![s] = @ \ {b}]
      /\ ptr' = [ptr EXCEPT ![pprev[b]] = None] /\ used' = used \ {b}
      /\ UNCHANGED <<pprev, owner, heap_lock>>
  BY <1>1, Zenon DEF TakeOff, WaitqRemove
<1>3. Chain(s) /\ Partition
  BY DEF Queues, Chains
<1>4. b \in Blocks /\ b # None /\ b \notin Slots /\ s \notin Blocks
  BY <1>2, SemAssumption DEF TypeOK
<1>5. b \in queued[s] /\ pprev[b] = s
  BY <1>1, <1>3, <1>4 DEF Chain, Follows, Locations
<1>6. queued[s] = {b}
  <2>1. Closed(s, {b})
    BY <1>1, <1>2 DEF Closed
  <2> QED
    BY <2>1, <1>3, <1>5 DEF Chain, Reached
<1>7. queued'[s] = {} /\ \A k \in Slots \ {s} : queued'[k] = queued[k]
  BY <1>2, <1>6 DEF TypeOK
<1>8. ptr'[s] = None /\ \A l \in Slots \cup Blocks : l # s => ptr'[l] = ptr[l]
  BY <1>2, <1>5 DEF TypeOK
<1>9. Chain(s)'
  <2>1. Locations(s)' = {s}
    BY <1>7 DEF Locations
  <2>2. PointsBack(s)' /\ Reached(s)'
    BY <1>7 DEF PointsBack, Reached
  <2>3. Follows(s)' /\ Ends(s)'
    BY <2>1, <1>8 DEF Follows, Ends
  <2> QED
    BY <2>2, <2>3 DEF Chain
<1>10. ASSUME NEW k \in Slots \ {s} PROVE Chain(k)'
  <2>1. Chain(k) /\ s \notin Locations(k) /\ Locations(k) \subseteq Slots \cup Blocks
    BY <1>4 DEF Queues, Chains, Locations, TypeOK
  <2>2. \A l \in Locations(k) : ptr'[l] = ptr[l]
    BY <2>1, <1>8
  <2> QED
    BY <2>1, <2>2, <1>2, <1>7, ChainKept
<1>11. Partition'
  <2>1. used = UNION {queued[k] : k \in Slots} /\ \A k \in Slots \ {s} : b \notin queued[k]
    BY <1>3, <1>5 DEF Partition
  <2>2. \A k \in Slots : queued'[k] = queued[k] \ {b}
    BY <2>1, <1>6, <1>7
  <2>3. UNION {queued'[k] : k \in Slots} = (UNION {queued[k] : k \in Slots}) \ {b}
    BY <2>2
  <2>4. \A k, l \in Slots : k # l => queued'[k] \cap queued'[l] = {}
    BY <2>2, <1>3 DEF Partition
  <2> QED
    BY <2>1, <2>3, <2>4, <1>2 DEF Partition
<1>12. owner[b] \in Threads
  BY <1>3, <1>5 DEF Chain, PointsBack
<1> QED
  BY <1>1, <1>2, <1>4, <1>6, <1>7, <1>9, <1>10, <1>11, <1>12 DEF Queues, Chains

LEMMA QueueSizes ==
    ASSUME TypeOK, NEW s \in Slots
    PROVE  /\ IsFiniteSet(queued[s]) /\ Cardinality(queued[s]) \in Nat
           /\ queued[s] = {} => Cardinality(queued[s]) = 0
           /\ \A b : b \notin queued[s] => Cardinality(queued[s] \cup {b}) = Cardinality(queued[s]) + 1
           /\ \A b : queued[s] = {b} => Cardinality(queued[s]) = 1
<1>1. IsFiniteSet(queued[s])
  BY FS_Subset, SemAssumption DEF TypeOK
<1>2. Cardinality(queued[s]) \in Nat
  BY <1>1, FS_CardinalityType
<1>3. queued[s] = {} => Cardinality(queued[s]) = 0
  BY FS_EmptySet
<1>4. \A b : b \notin queued[s] => Cardinality(queued[s] \cup {b}) = Cardinality(queued[s]) + 1
  BY <1>1, FS_AddElement
<1>5. \A b : queued[s] = {b} => Cardinality(queued[s]) = 1
  BY FS_Singleton
<1> QED
  BY <1>1, <1>2, <1>3, <1>4, <1>5

-----------------------------------------------------------------------------
(* Every operation keeps the queues and the values in order *)

\* Operations that leave the queues alone.
LEMMA QueuesKept ==
    ASSUME Queues, UNCHANGED <<ptr, pprev, owner, used, queued>>
    PROVE  Queues'
<1>1. ASSUME NEW s \in Slots PROVE Chain(s)'
  <2>1. Chain(s)
    BY DEF Queues, Chains
  <2> QED
    BY <2>1, ChainKept
<1>2. Partition'
  BY DEF Queues, Partition
<1> QED
  BY <1>1, <1>2 DEF Queues, Chains

LEMMA TokensKept ==
    ASSUME Tokens, UNCHANGED <<address, value, queued, given, passed, dropped, robbed>>
    PROVE  Tokens'
  BY DEF Tokens, NoToken, Values, Passes, InUse

LEMMA SoundInit == Init => Sound
<1> SUFFICES ASSUME Init PROVE Sound
  OBVIOUS
<1>1. ASSUME NEW s \in Slots PROVE Chain(s)
  <2>1. queued[s] = {} /\ Locations(s) = {s} /\ ptr[s] = None
    BY DEF Init, Locations
  <2> QED
    BY <2>1 DEF Chain, PointsBack, Follows, Ends, Reached
<1>2. Partition
  BY DEF Init, Partition
<1>3. IdleQueues /\ Queued
  BY SemAssumption DEF Init, IdleQueues, Queued
<1>4. \A s \in Slots : ~InUse(s)
  BY DEF Init, InUse
<1>5. Tokens
  BY <1>4 DEF Tokens, NoToken, Values, Passes
<1>6. HaltsLocked
  BY DEF Init, HaltsLocked
<1> QED
  BY <1>1, <1>2, <1>3, <1>5, <1>6 DEF Sound, Queues, Chains

LEMMA SoundCreate ==
    ASSUME TypeOK, Sound, NEW s \in Slots, NEW a \in Addresses, NEW v \in 0 .. MaxValue,
           Create(s, a, v)
    PROVE  Sound'
<1> USE DEF waitqVars, threadVars
<1>1. Queues'
  BY QueuesKept DEF Create, Sound
<1>2. queued[s] = {} /\ Cardinality(queued[s]) = 0
  <2>1. queued[s] = {}
    BY SemAssumption DEF Create, Ready, Sound, IdleQueues
  <2> QED
    BY <2>1, QueueSizes
<1>3. Queued' /\ IdleQueues'
  BY DEF Sound, Create, Queued, IdleQueues, TypeOK
<1>4. ASSUME NEW k \in Slots \ robbed', k # s, InUse(k)'
      PROVE  /\ k \notin robbed /\ InUse(k)
             /\ value'[k] = value[k] /\ given'[k] = given[k]
             /\ passed'[k] = passed[k] /\ dropped'[k] = dropped[k]
  BY <1>4 DEF Create, TypeOK, InUse
<1>5. value'[s] = v /\ given'[s] = v /\ passed'[s] = 0 /\ dropped'[s] = 0 /\ queued' = queued
  BY DEF Create, TypeOK
<1>6. NoToken'
  <2> SUFFICES ASSUME NEW k \in Slots \ robbed', queued'[k] # {}, InUse(k)'
               PROVE  given'[k] <= passed'[k] + dropped'[k]
    BY DEF NoToken
  <2>1. k # s
    BY <1>2, <1>5
  <2> QED
    BY <2>1, <1>4, <1>5 DEF Sound, Tokens, NoToken
<1>7. Values'
  <2> SUFFICES ASSUME NEW k \in Slots \ robbed', InUse(k)'
               PROVE  value'[k] = given'[k] - passed'[k] - dropped'[k] - Cardinality(queued'[k])
    BY DEF Values
  <2>1. CASE k = s
    BY <2>1, <1>2, <1>5
  <2>2. CASE k # s
    BY <2>2, <1>4, <1>5 DEF Sound, Tokens, Values
  <2> QED
    BY <2>1, <2>2
<1>8. Passes'
  <2> SUFFICES ASSUME NEW k \in Slots \ robbed', InUse(k)'
               PROVE  passed'[k] <= given'[k]
    BY DEF Passes
  <2>1. CASE k = s
    BY <2>1, <1>5
  <2>2. CASE k # s
    BY <2>2, <1>4 DEF Sound, Tokens, Passes
  <2> QED
    BY <2>1, <2>2
<1>9. HaltsLocked'
  BY DEF Sound, HaltsLocked, Create
<1> QED
  BY <1>1, <1>3, <1>6, <1>7, <1>8, <1>9 DEF Sound, Tokens

LEMMA SoundCreateNoMemory ==
    ASSUME Sound, CreateNoMemory
    PROVE  Sound'
<1> USE DEF CreateNoMemory, NoMemory, blockVars, threadVars, history
<1>1. Queues' /\ Tokens'
  BY QueuesKept, TokensKept DEF Sound
<1>2. IdleQueues' /\ Queued' /\ HaltsLocked'
  BY DEF Sound, IdleQueues, Queued, HaltsLocked
<1> QED
  BY <1>1, <1>2 DEF Sound

LEMMA SoundDelete ==
    ASSUME TypeOK, Sound, NEW s \in Slots, Delete(s)
    PROVE  Sound'
<1> USE DEF waitqVars, threadVars, history
<1>1. Queues'
  BY QueuesKept DEF Delete, Sound
<1>2. \A k \in Slots : /\ InUse(k)' => InUse(k)
                       /\ ~InUse(k)' /\ deleting' # k => ~InUse(k)
  BY DEF Delete, InUse, TypeOK
<1>3. deleting = None /\ \A k \in Slots : deleting # k
  BY SemAssumption DEF Delete, Ready
<1>4. IdleQueues'
  BY <1>2, <1>3 DEF Sound, Delete, IdleQueues, InUse
<1>5. Queued' /\ HaltsLocked'
  BY DEF Sound, Delete, Queued, HaltsLocked
<1>6. NoToken' /\ Values' /\ Passes'
  BY <1>2 DEF Sound, Delete, Tokens, NoToken, Values, Passes
<1> QED
  BY <1>1, <1>4, <1>5, <1>6 DEF Sound, Tokens

\* A block leaves its queue, and its thread what it waited for.
LEMMA TakenOff ==
    ASSUME TypeOK, Sound, NEW s \in Slots, TakeOff(s), ~misplaced',
           \A t \in Threads : waits'[t] = IF t = owner[ptr[s]] THEN None ELSE waits[t],
           UNCHANGED <<address, deleting, halted>>
    PROVE  /\ Queues' /\ IdleQueues' /\ Queued' /\ HaltsLocked'
           /\ owner[ptr[s]] \in Threads
           /\ queued[s] # {} /\ Cardinality(queued[s]) = 1
           /\ queued'[s] = {} /\ Cardinality(queued'[s]) = 0
           /\ \A k \in Slots \ {s} : queued'[k] = queued[k]
<1>1. /\ Queues' /\ heap_lock' = heap_lock /\ owner[ptr[s]] \in Threads
      /\ queued[s] = {ptr[s]} /\ queued'[s] = {} /\ owner' = owner
      /\ \A k \in Slots \ {s} : queued'[k] = queued[k]
  BY RemoveSound DEF Sound
<1>2. IdleQueues'
  BY <1>1 DEF Sound, IdleQueues
<1>3. Queued'
  <2> SUFFICES ASSUME NEW t \in Threads, NEW k \in Slots, waits'[t] = k
               PROVE  \E b \in queued'[k] : owner'[b] = t
    BY DEF Queued
  <2>1. t # owner[ptr[s]] /\ waits[t] = k
    BY SemAssumption
  <2>2. PICK b \in queued[k] : owner[b] = t
    BY <2>1 DEF Sound, Queued
  <2>3. k # s
    BY <2>1, <2>2, <1>1
  <2> QED
    BY <2>2, <2>3, <1>1
<1>4. HaltsLocked'
  BY <1>1 DEF Sound, HaltsLocked
<1>5. Cardinality(queued[s]) = 1 /\ Cardinality({}) = 0
  BY <1>1, QueueSizes, FS_EmptySet
<1> QED
  BY <1>1, <1>2, <1>3, <1>4, <1>5

LEMMA SoundDeleteFails ==
    ASSUME TypeOK, Block, Sound, NEW s \in Slots, DeleteFails(s), ~misplaced'
    PROVE  Sound'
<1> USE DEF blockVars
<1>1. \A t \in Threads : waits'[t] = IF t = owner[ptr[s]] THEN None ELSE waits[t]
  BY DEF DeleteFails, TypeOK
<1>2. /\ Queues' /\ IdleQueues' /\ Queued' /\ HaltsLocked'
      /\ \A k \in Slots \ {s} : queued'[k] = queued[k]
  BY <1>1, TakenOff DEF DeleteFails
<1>3. ~InUse(s) /\ \A k \in Slots : InUse(k)' <=> InUse(k)
  BY SemAssumption DEF Block, DeleteFails, InUse
<1>4. NoToken' /\ Values' /\ Passes'
  BY <1>2, <1>3 DEF Sound, DeleteFails, Tokens, NoToken, Values, Passes
<1> QED
  BY <1>2, <1>4 DEF Sound, Tokens

LEMMA SoundDeleteEnds ==
    ASSUME TypeOK, Sound, NEW s \in Slots, DeleteEnds(s)
    PROVE  Sound'
<1> USE DEF waitqVars, threadVars, history
<1>1. Queues' /\ Tokens'
  BY QueuesKept, TokensKept DEF DeleteEnds, Sound
<1>2. queued[s] = {}
  <2>1. Closed(s, {})
    BY DEF DeleteEnds, Closed
  <2>2. Reached(s)
    BY DEF Sound, Queues, Chains, Chain
  <2> QED
    BY <2>1, <2>2 DEF Reached
<1>3. IdleQueues'
  BY <1>2 DEF Sound, DeleteEnds, IdleQueues
<1>4. Queued' /\ HaltsLocked'
  BY DEF Sound, DeleteEnds, Queued, HaltsLocked
<1> QED
  BY <1>1, <1>3, <1>4 DEF Sound

LEMMA SoundWaitPasses ==
    ASSUME TypeOK, Sound, NEW s \in Slots, NEW t \in Threads, WaitPasses(t, s)
    PROVE  Sound'
<1> USE DEF blockVars, waitqVars, threadVars
<1>1. Queues' /\ IdleQueues' /\ Queued' /\ HaltsLocked'
  BY QueuesKept DEF WaitPasses, Sound, IdleQueues, Queued, HaltsLocked
<1>2. /\ value[s] > 0 /\ InUse(s) /\ value[s] \in Int
      /\ given[s] \in Nat /\ passed[s] \in Nat /\ dropped[s] \in Nat
      /\ Cardinality(queued[s]) \in Nat
      /\ s \notin robbed =>
            value[s] = given[s] - passed[s] - dropped[s] - Cardinality(queued[s])
  BY QueueSizes DEF WaitPasses, CanCall, MustWait, InUse, Sound, Tokens, Values, TypeOK
<1>3. /\ value'[s] = value[s] - 1 /\ passed'[s] = passed[s] + 1
      /\ \A k \in Slots : k # s => value'[k] = value[k] /\ passed'[k] = passed[k]
      /\ queued' = queued /\ given' = given /\ dropped' = dropped /\ address' = address
      /\ robbed' = robbed
  BY DEF WaitPasses, TypeOK
<1>4. Values'
  BY <1>2, <1>3 DEF Sound, Tokens, Values, InUse
<1>5. Passes'
  BY <1>2, <1>3 DEF Sound, Tokens, Passes, InUse
<1>6. NoToken'
  BY <1>2, <1>3 DEF Sound, Tokens, NoToken, InUse
<1> QED
  BY <1>1, <1>4, <1>5, <1>6 DEF Sound, Tokens

LEMMA SoundWaitBlocks ==
    ASSUME TypeOK, Sound, NEW s \in Slots, NEW t \in Threads, WaitBlocks(t, s)
    PROVE  Sound'
<1> USE DEF blockVars
<1>1. PICK b \in Blocks \ used :
         WaitqAdd(s, t, b) /\ queued' = [queued EXCEPT ![s] = @ \cup {b}]
  BY DEF WaitBlocks
<1>2. /\ Queues' /\ ~heap_lock /\ heap_lock' = heap_lock
      /\ b \in queued'[s] /\ owner'[b] = t /\ b \notin queued[s]
      /\ queued'[s] = queued[s] \cup {b}
      /\ \A k \in Slots \ {s} : queued'[k] = queued[k]
      /\ \A d \in used : owner'[d] = owner[d]
  BY <1>1, AddSound DEF Sound
<1>3. /\ InUse(s) /\ address' = address /\ deleting' = deleting /\ halted' = halted
      /\ waits'[t] = s /\ \A u \in Threads : u # t => waits'[u] = waits[u]
  BY DEF WaitBlocks, CanCall, TypeOK, InUse
<1>4. Queued'
  <2> SUFFICES ASSUME NEW u \in Threads, NEW k \in Slots, waits'[u] = k
               PROVE  \E d \in queued'[k] : owner'[d] = u
    BY DEF Queued
  <2>1. CASE u = t
    BY <2>1, <1>2, <1>3
  <2>2. CASE u # t
    <3>1. PICK d \in queued[k] : owner[d] = u
      BY <2>2, <1>3 DEF Sound, Queued
    <3>2. d \in used
      BY <3>1 DEF Sound, Queues, Partition
    <3> QED
      BY <3>1, <3>2, <1>2
  <2> QED
    BY <2>1, <2>2
<1>5. IdleQueues'
  BY <1>2, <1>3 DEF Sound, IdleQueues, InUse
<1>6. HaltsLocked'
  BY <1>2, <1>3 DEF Sound, HaltsLocked
<1>7. Cardinality(queued'[s]) = Cardinality(queued[s]) + 1 /\ Cardinality(queued[s]) \in Nat
  BY <1>2, QueueSizes
<1>8. /\ value[s] <= 0 /\ value[s] \in Int
      /\ given[s] \in Nat /\ passed[s] \in Nat /\ dropped[s] \in Nat
  BY DEF WaitBlocks, MustWait, TypeOK
<1>9. /\ value'[s] = value[s] - 1
      /\ \A k \in Slots : k # s => value'[k] = value[k]
      /\ given' = given /\ passed' = passed /\ dropped' = dropped /\ robbed' = robbed
  BY DEF WaitBlocks, TypeOK
<1>10. s \notin robbed =>
          value[s] = given[s] - passed[s] - dropped[s] - Cardinality(queued[s])
  BY <1>3 DEF Sound, Tokens, Values
<1>11. s \notin robbed => given[s] <= passed[s] + dropped[s]
  <2>1. CASE queued[s] = {}
    <3>1. Cardinality(queued[s]) = 0
      BY <2>1, QueueSizes
    <3> QED
      BY <3>1, <1>8, <1>10
  <2>2. CASE queued[s] # {}
    BY <2>2, <1>3 DEF Sound, Tokens, NoToken
  <2> QED
    BY <2>1, <2>2
<1>12. Values'
  <2> SUFFICES ASSUME NEW k \in Slots \ robbed, InUse(k)
               PROVE  value'[k] = given[k] - passed[k] - dropped[k] - Cardinality(queued'[k])
    BY <1>3, <1>9 DEF Values, InUse
  <2>1. CASE k = s
    BY <2>1, <1>7, <1>8, <1>9, <1>10
  <2>2. CASE k # s
    BY <2>2, <1>2, <1>9 DEF Sound, Tokens, Values
  <2> QED
    BY <2>1, <2>2
<1>13. Passes'
  BY <1>3, <1>9 DEF Sound, Tokens, Passes, InUse
<1>14. NoToken'
  BY <1>2, <1>3, <1>9, <1>11 DEF Sound, Tokens, NoToken, InUse
<1> QED
  BY <1>2, <1>4, <1>5, <1>6, <1>12, <1>13, <1>14 DEF Sound, Tokens

LEMMA SoundWaitNoMemory ==
    ASSUME TypeOK, Sound, NEW s \in Slots, NEW t \in Threads, WaitNoMemory(t, s)
    PROVE  Sound'
<1> USE DEF WaitNoMemory, NoMemory, blockVars, threadVars, history
<1>1. value' = value
  BY DEF Restored, TypeOK
<1>2. Queues' /\ Tokens'
  BY <1>1, QueuesKept, TokensKept DEF Sound
<1>3. IdleQueues' /\ Queued' /\ HaltsLocked'
  BY DEF Sound, IdleQueues, Queued, HaltsLocked
<1> QED
  BY <1>2, <1>3 DEF Sound

LEMMA SoundSignalNobody ==
    ASSUME TypeOK, Sound, NEW s \in Slots, SignalNobody(s)
    PROVE  Sound'
<1> USE DEF blockVars, waitqVars, threadVars
<1>1. Queues' /\ IdleQueues' /\ Queued' /\ HaltsLocked'
  BY QueuesKept DEF SignalNobody, Sound, IdleQueues, Queued, HaltsLocked
<1>2. queued[s] = {}
  <2>1. Closed(s, {})
    BY DEF SignalNobody, Closed
  <2>2. Reached(s)
    BY DEF Sound, Queues, Chains, Chain
  <2> QED
    BY <2>1, <2>2 DEF Reached
<1>3. /\ value'[s] = value[s] + 1 /\ given'[s] = given[s] + 1
      /\ \A k \in Slots : k # s => value'[k] = value[k] /\ given'[k] = given[k]
      /\ queued' = queued /\ passed' = passed /\ dropped' = dropped /\ address' = address
      /\ robbed' = robbed
  BY DEF SignalNobody, TypeOK
<1>4. \A k \in Slots : /\ value[k] \in Int /\ given[k] \in Nat /\ passed[k] \in Nat
                       /\ dropped[k] \in Nat /\ Cardinality(queued[k]) \in Nat
  BY QueueSizes DEF TypeOK
<1>5. Values'
  BY <1>3, <1>4 DEF Sound, Tokens, Values, InUse
<1>6. Passes'
  BY <1>3, <1>4 DEF Sound, Tokens, Passes, InUse
<1>7. NoToken'
  BY <1>2, <1>3 DEF Sound, Tokens, NoToken, InUse
<1> QED
  BY <1>1, <1>5, <1>6, <1>7 DEF Sound, Tokens

\* The token goes to whoever waits for the semaphore, or is lost; another
\* semaphore's waiter may take it for one of its own.
LEMMA SoundSignalWakes ==
    ASSUME TypeOK, Sound, NEW s \in Slots, SignalWakes(s), ~misplaced'
    PROVE  Sound'
<1> USE DEF blockVars
<1>1. PICK w : w = waits[owner[ptr[s]]]
  OBVIOUS
<1>2. \A t \in Threads : waits'[t] = IF t = owner[ptr[s]] THEN None ELSE waits[t]
  BY DEF SignalWakes, TypeOK
<1>3. /\ Queues' /\ IdleQueues' /\ Queued' /\ HaltsLocked'
      /\ Cardinality(queued[s]) = 1 /\ queued[s] # {}
      /\ queued'[s] = {} /\ Cardinality(queued'[s]) = 0
      /\ \A k \in Slots \ {s} : queued'[k] = queued[k]
  BY <1>2, TakenOff DEF SignalWakes
<1>4. /\ value'[s] = value[s] + 1 /\ given'[s] = given[s] + 1
      /\ \A k \in Slots : k # s => value'[k] = value[k] /\ given'[k] = given[k]
      /\ address' = address
  BY DEF SignalWakes, TypeOK
<1>5. /\ passed' = [k \in Slots |-> passed[k] + (IF k = w THEN 1 ELSE 0)]
      /\ dropped' = [dropped EXCEPT ![s] = @ + (IF w = s THEN 0 ELSE 1)]
      /\ robbed' = robbed \cup ({w} \cap (Slots \ {s}))
  BY <1>1 DEF SignalWakes
<1>6. \A k \in Slots : /\ value[k] \in Int /\ given[k] \in Nat /\ passed[k] \in Nat
                       /\ dropped[k] \in Nat
  BY DEF TypeOK
<1>7. \A k \in Slots \ robbed' : k \notin robbed /\ (k # s => k # w)
  BY <1>5
<1>8. \A k \in Slots \ robbed' : k # s => passed'[k] = passed[k] /\ dropped'[k] = dropped[k]
  BY <1>5, <1>6, <1>7 DEF TypeOK
<1>9. IF w = s THEN passed'[s] = passed[s] + 1 /\ dropped'[s] = dropped[s]
               ELSE passed'[s] = passed[s] /\ dropped'[s] = dropped[s] + 1
  BY <1>5, <1>6 DEF TypeOK
<1>10. Values'
  <2> SUFFICES ASSUME NEW k \in Slots \ robbed', InUse(k)
               PROVE  value'[k] = given'[k] - passed'[k] - dropped'[k] - Cardinality(queued'[k])
    BY <1>4 DEF Values, InUse
  <2>1. value[k] = given[k] - passed[k] - dropped[k] - Cardinality(queued[k])
    BY <1>7 DEF Sound, Tokens, Values
  <2>2. CASE k = s
    BY <2>1, <2>2, <1>3, <1>4, <1>6, <1>9
  <2>3. CASE k # s
    BY <2>1, <2>3, <1>3, <1>4, <1>8
  <2> QED
    BY <2>2, <2>3
<1>11. ASSUME s \notin robbed, InUse(s)
       PROVE  given[s] <= passed[s] + dropped[s] /\ passed[s] <= given[s]
  BY <1>3, <1>11 DEF Sound, Tokens, NoToken, Passes
<1>12. Passes'
  <2> SUFFICES ASSUME NEW k \in Slots \ robbed', InUse(k)
               PROVE  passed'[k] <= given'[k]
    BY <1>4 DEF Passes, InUse
  <2>1. passed[k] <= given[k]
    BY <1>7 DEF Sound, Tokens, Passes
  <2>2. CASE k = s
    BY <2>1, <2>2, <1>4, <1>6, <1>9
  <2>3. CASE k # s
    BY <2>1, <2>3, <1>4, <1>8
  <2> QED
    BY <2>2, <2>3
<1>13. NoToken'
  <2> SUFFICES ASSUME NEW k \in Slots \ robbed', queued'[k] # {}, InUse(k)
               PROVE  given'[k] <= passed'[k] + dropped'[k]
    BY <1>4 DEF NoToken, InUse
  <2>1. k # s
    BY <1>3
  <2>2. queued[k] # {} /\ k \notin robbed
    BY <2>1, <1>3, <1>7
  <2>3. given[k] <= passed[k] + dropped[k]
    BY <2>2 DEF Sound, Tokens, NoToken
  <2> QED
    BY <2>1, <2>3, <1>4, <1>8
<1> QED
  BY <1>3, <1>10, <1>12, <1>13 DEF Sound, Tokens

LEMMA SoundSignalFails ==
    ASSUME TypeOK, Sound, NEW s \in Slots, SignalFails(s), ~misplaced'
    PROVE  Sound'
<1> USE DEF blockVars, threadVars
<1>1. \A t \in Threads : waits'[t] = IF t = owner[ptr[s]] THEN None ELSE waits[t]
  BY DEF SignalFails, UpcallArrives
<1>2. /\ Queues' /\ IdleQueues' /\ Queued' /\ HaltsLocked'
      /\ Cardinality(queued[s]) = 1 /\ queued[s] # {}
      /\ queued'[s] = {} /\ Cardinality(queued'[s]) = 0
      /\ \A k \in Slots \ {s} : queued'[k] = queued[k]
  BY <1>1, TakenOff DEF SignalFails
<1>3. /\ dropped'[s] = dropped[s] + 1
      /\ \A k \in Slots : k # s => dropped'[k] = dropped[k]
      /\ value' = value /\ given' = given /\ passed' = passed /\ address' = address
      /\ robbed' = robbed
  BY DEF SignalFails, TypeOK
<1>4. \A k \in Slots : /\ value[k] \in Int /\ given[k] \in Nat /\ passed[k] \in Nat
                       /\ dropped[k] \in Nat
  BY DEF TypeOK
<1>5. Values'
  <2> SUFFICES ASSUME NEW k \in Slots \ robbed, InUse(k)
               PROVE  value[k] = given[k] - passed[k] - dropped'[k] - Cardinality(queued'[k])
    BY <1>3 DEF Values, InUse
  <2>1. value[k] = given[k] - passed[k] - dropped[k] - Cardinality(queued[k])
    BY DEF Sound, Tokens, Values
  <2>2. CASE k = s
    BY <2>1, <2>2, <1>2, <1>3, <1>4
  <2>3. CASE k # s
    BY <2>1, <2>3, <1>2, <1>3
  <2> QED
    BY <2>2, <2>3
<1>6. Passes'
  BY <1>3 DEF Sound, Tokens, Passes, InUse
<1>7. NoToken'
  BY <1>2, <1>3 DEF Sound, Tokens, NoToken, InUse
<1> QED
  BY <1>2, <1>5, <1>6, <1>7 DEF Sound, Tokens

\* No operation runs into a block that is not allocated, or along a circle.
LEMMA SoundHalt ==
    ASSUME TypeOK, Sound, NEW s \in Slots, Halt(s)
    PROVE  Sound'
<1> USE DEF blockVars, waitqVars, threadVars, history
<1>1. heap_lock
  <2>1. Chain(s)
    BY DEF Sound, Queues, Chains
  <2>2. QueueEnd(s) # {}
    BY <2>1, EndExists
  <2>3. RemoveHalts(s) => heap_lock
    <3>1. ptr[s] \in Blocks => ptr[s] # None /\ ptr[s] \in queued[s]
      BY <2>1, SemAssumption DEF Chain, Follows, Locations
    <3>2. ptr[s] \in Blocks => ptr[s] \in used
      BY <3>1 DEF Sound, Queues, Partition
    <3> QED
      BY <3>2 DEF RemoveHalts
  <2> QED
    BY <2>2, <2>3 DEF Halt
<1>2. Queues' /\ Tokens'
  BY QueuesKept, TokensKept DEF Halt, Sound
<1>3. IdleQueues' /\ Queued'
  BY DEF Halt, Sound, IdleQueues, Queued
<1>4. HaltsLocked'
  BY <1>1 DEF Halt, HaltsLocked
<1> QED
  BY <1>2, <1>3, <1>4 DEF Sound

\* Whatever becomes of a thread, its queue entries stay.
LEMMA SoundThread ==
    ASSUME TypeOK, Sound, NEW t \in Threads,
           Die(t) \/ Handler(t) \/ Reborn(t) \/ BlockElsewhere(t) \/ Answered(t)
    PROVE  Sound'
<1> USE DEF Die, Handler, Reborn, BlockElsewhere, Answered, Restarted, blockVars, waitqVars, history
<1>1. Queues' /\ Tokens'
  BY QueuesKept, TokensKept DEF Sound
<1>2. IdleQueues' /\ HaltsLocked'
  BY DEF Sound, IdleQueues, HaltsLocked
<1>3. \A u \in Threads : waits'[u] \in {waits[u], None, Elsewhere}
  BY DEF TypeOK
<1>4. Queued'
  <2> SUFFICES ASSUME NEW u \in Threads, NEW k \in Slots, waits'[u] = k
               PROVE  \E b \in queued'[k] : owner'[b] = u
    BY DEF Queued
  <2>1. waits[u] = k
    BY <1>3, SemAssumption
  <2> QED
    BY <2>1 DEF Sound, Queued
<1> QED
  BY <1>1, <1>2, <1>4 DEF Sound

-----------------------------------------------------------------------------
(* The theorems *)

LEMMA MisplacedStays == ASSUME Step, ~misplaced' PROVE ~misplaced
  BY DEF Step, Create, CreateNoMemory, Delete, DeleteFails, DeleteEnds, WaitPasses, WaitBlocks,
         WaitNoMemory, SignalNobody, SignalWakes, SignalFails, TakeOff, Halt, Die, Handler, Reborn,
         BlockElsewhere, Answered, Restarted, history

LEMMA SoundStep ==
    ASSUME TypeOK, Block, Sound, Step, ~misplaced'
    PROVE  Sound'
  BY SoundCreate, SoundCreateNoMemory, SoundDelete, SoundDeleteFails, SoundDeleteEnds,
     SoundWaitPasses, SoundWaitBlocks, SoundWaitNoMemory, SoundSignalNobody, SoundSignalWakes,
     SoundSignalFails, SoundHalt, SoundThread
     DEF Step

LEMMA InvariantStep == IInv /\ [Next]_vars => IInv'
<1> SUFFICES ASSUME IInv, [Next]_vars PROVE IInv'
  OBVIOUS
<1>1. CASE Step
  <2>1. Block' /\ TypeOK'
    BY <1>1, BlockStep, TypeStep DEF IInv
  <2>2. ~misplaced' => Sound'
    BY <1>1, SoundStep, MisplacedStays DEF IInv
  <2> QED
    BY <2>1, <2>2 DEF IInv
<1>2. CASE UNCHANGED vars
  <2> USE DEF vars, blockVars, waitqVars, threadVars, history
  <2>1. TypeOK' /\ Block' /\ misplaced' = misplaced
    BY <1>2 DEF IInv, TypeOK, Block, InUse
  <2>2. ASSUME Sound PROVE Sound'
    <3>1. Queues' /\ Tokens'
      BY <1>2, <2>2, QueuesKept, TokensKept DEF Sound
    <3>2. IdleQueues' /\ Queued' /\ HaltsLocked'
      BY <1>2, <2>2 DEF Sound, IdleQueues, Queued, HaltsLocked
    <3> QED
      BY <3>1, <3>2 DEF Sound
  <2> QED
    BY <2>1, <2>2 DEF IInv
<1> QED
  BY <1>1, <1>2, NextIsStep

\* The strengthening is an invariant.
THEOREM Invariant == Spec => []IInv
<1>1. Init => IInv
  BY TypeInit, BlockInit, SoundInit DEF IInv
<1> QED
  BY <1>1, InvariantStep, PTL DEF Spec

\* semaphore.c, waitq.c: every reachable state of the semaphores of an object is well typed.
THEOREM TypeCorrect == Spec => []TypeOK
<1>1. IInv => TypeOK
  BY DEF IInv
<1> QED
  BY <1>1, Invariant, PTL

\* sem_create, sem_delete: the block of semaphores is there exactly as long as one of them.
THEOREM BlockIsAccounted == Spec => []BlockAccounted
<1>1. IInv => BlockAccounted
  BY DEF IInv, Block, BlockAccounted
<1> QED
  BY <1>1, Invariant, PTL

\* sem_wait, sem_signal: mutual exclusion, for any number of threads and tokens, and whatever
\* becomes of the threads, until a removal left a block behind or a semaphore was robbed.
THEOREM MutualExclusion == Spec => []NeverTooMany
<1>1. IInv => NeverTooMany
  BY DEF IInv, Sound, Tokens, Passes, NeverTooMany
<1> QED
  BY <1>1, Invariant, PTL

\* sem_signal: nobody waits while there is a token, except in a semaphore that was robbed,
\* until a removal left a block behind.
THEOREM NoTokenIdles == Spec => []NoIdleToken
<1>1. IInv => NoIdleToken
  BY DEF IInv, Sound, Tokens, Queued, NoToken, NoIdleToken
<1> QED
  BY <1>1, Invariant, PTL

\* semaphore.c: the value accounts for all tokens, whatever operation failed halfway and
\* whichever thread was deleted, with the same exceptions.
THEOREM ValuesAccount == Spec => []ValueAccounts
<1>1. IInv => ValueAccounts
  BY DEF IInv, Sound, Tokens, Values, ValueAccounts
<1> QED
  BY <1>1, Invariant, PTL

\* waitq.c: queues of any length are linked as waitq_remove supposes, hold everybody who waits,
\* and no operation hangs unless an allocation failed, until a removal left a block behind.
THEOREM QueuesAreSound == Spec => []QueueSound
<1>1. IInv => QueueSound
  <2> SUFFICES ASSUME IInv, ~misplaced PROVE QueueSound
    BY DEF QueueSound
  <2>1. Sound /\ Chains /\ Partition
    BY DEF IInv, Sound, Queues
  <2>2. \A s \in Slots, b \in Blocks : b \in queued[s] =>
          pprev[b] \in queued[s] \cup {s} /\ ptr[pprev[b]] = b
    BY <2>1 DEF Chains, Chain, PointsBack, Locations
  <2>3. (halted => heap_lock) /\ Queued
    BY <2>1 DEF Sound, HaltsLocked
  <2> QED
    BY <2>1, <2>2, <2>3 DEF Partition, Queued, QueueSound
<1> QED
  BY <1>1, Invariant, PTL
=============================================================================
