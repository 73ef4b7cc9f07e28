--------------------------- MODULE ApdSlotsProofs ---------------------------
(***************************************************************************)
(* Proofs about ApdSlots.  Shifts move clists between slots one to one, so *)
(* that a clist stays in one slot and, once deleted, in none; they start   *)
(* above the locked slots; and the count passes the array only after a     *)
(* merge.                                                                  *)
(***************************************************************************)
EXTENDS ApdSlots, TLAPS

IInv == TypeOK /\ DeletedStaysOut /\ CountWithinArray

Step == \/ \E c \in Clists \ inserted, pos \in Pos : Insert(pos, c)
        \/ \E c \in Clists \ inserted : Merge(c)
        \/ \E pos \in Pos : Delete(pos)
        \/ \E pos \in Pos : Lock(pos)
        \/ LockAll
        \/ Overrun

LEMMA NextIsStep == Next => Step
  BY DEF Next, Step

-----------------------------------------------------------------------------
(* The type of the state *)

LEMMA TypeInit == Init => TypeOK
<1> SUFFICES ASSUME Init PROVE TypeOK
  OBVIOUS
<1>1. n_apd \in Nat
  BY ApdAssumption DEF Init
<1>2. inserted \subseteq Clists
  BY DEF Init
<1> QED
  BY <1>1, <1>2 DEF Init, TypeOK

LEMMA TypeInsert ==
    ASSUME TypeOK, NEW c \in Clists, NEW pos \in Pos, Insert(pos, c)
    PROVE  TypeOK'
<1>1. clist' \in [Pos -> Clists \cup {SysClist, NullCap}]
  BY ApdAssumption DEF TypeOK, Insert, ShiftedUp, Pos
<1> QED
  BY <1>1, ApdAssumption DEF TypeOK, Insert, Pos

LEMMA TypeDelete ==
    ASSUME TypeOK, NEW pos \in Pos, Delete(pos)
    PROVE  TypeOK'
<1>1. clist' \in [Pos -> Clists \cup {SysClist, NullCap}]
  BY ApdAssumption DEF TypeOK, Delete, DeleteStays, ShiftedDown, Pos
<1> QED
  BY <1>1, ApdAssumption DEF TypeOK, Delete, Pos

\* What a merge does to the slots.
LEMMA MergeSlots ==
    ASSUME TypeOK, NEW c \in Clists, Merge(c)
    PROVE  \E i \in Pos \ {0} :
              /\ i >= n_locked
              /\ clist[i] = NullCap
              /\ clist' = [clist EXCEPT ![0] = SysClist, ![i] = c]
<1> DEFINE filled == [clist EXCEPT ![0] = SysClist]
           free   == {i \in n_locked .. APD_MAX_ENTRY - 1 : filled[i] = NullCap}
<1>1. PICK i \in free : clist' = [filled EXCEPT ![i] = c]
  BY DEF Merge
<1>2. i \in Pos /\ i >= n_locked
  BY <1>1, ApdAssumption DEF TypeOK, Pos
<1>3. 0 \in Pos /\ filled[0] = SysClist
  BY ApdAssumption DEF TypeOK, Pos
<1>4. i # 0
  BY <1>1, <1>3, ApdAssumption
<1>5. clist[i] = NullCap
  BY <1>1, <1>2, <1>4, ApdAssumption DEF TypeOK
<1>6. clist' = [clist EXCEPT ![0] = SysClist, ![i] = c]
  BY <1>1
<1> QED
  BY <1>2, <1>4, <1>5, <1>6

LEMMA TypeMerge ==
    ASSUME TypeOK, NEW c \in Clists, Merge(c)
    PROVE  TypeOK'
<1>1. clist' \in [Pos -> Clists \cup {SysClist, NullCap}]
  BY MergeSlots DEF TypeOK
<1>2. /\ n_apd' = IF n_apd = 0 THEN 2 ELSE n_apd + 1
      /\ inserted' = (inserted \ {clist[0]}) \cup {c}
      /\ merged' = TRUE
      /\ UNCHANGED <<n_locked, overrun>>
  BY DEF Merge
<1> QED
  BY <1>1, <1>2 DEF TypeOK

LEMMA TypeNext == TypeOK /\ [Next]_vars => TypeOK'
<1> SUFFICES ASSUME TypeOK, Step \/ UNCHANGED vars
             PROVE  TypeOK'
  BY NextIsStep
<1>1. CASE \E c \in Clists \ inserted, pos \in Pos : Insert(pos, c)
  BY <1>1, TypeInsert
<1>2. CASE \E c \in Clists \ inserted : Merge(c)
  BY <1>2, TypeMerge
<1>3. CASE \E pos \in Pos : Delete(pos)
  BY <1>3, TypeDelete
<1>4. CASE \E pos \in Pos : Lock(pos)
  BY <1>4, ApdAssumption DEF TypeOK, Lock, LockUpTo, Pos
<1>5. CASE LockAll
  BY <1>5, ApdAssumption DEF TypeOK, LockAll
<1>6. CASE Overrun
  BY <1>6 DEF TypeOK, Overrun
<1>7. CASE UNCHANGED vars
  BY <1>7 DEF TypeOK, vars
<1> QED
  BY <1>1, <1>2, <1>3, <1>4, <1>5, <1>6, <1>7 DEF Step

-----------------------------------------------------------------------------
(* A deleted clist stays out *)

LEMMA StaysOutInit == Init => DeletedStaysOut
<1> SUFFICES ASSUME Init PROVE DeletedStaysOut
  OBVIOUS
<1> SUFFICES ASSUME NEW i \in Pos, NEW j \in Pos, clist[i] \in Clists
             PROVE  clist[i] \in inserted /\ (clist[i] = clist[j] => i = j)
  BY DEF DeletedStaysOut
<1>1. clist[i] \in inserted
  BY DEF Init
<1>2. i # 0 /\ i < n_apd
  BY ApdAssumption DEF Init, Pos
<1>3. ASSUME clist[i] = clist[j], i # j PROVE FALSE
  <2>1. j # 0 /\ j < n_apd
    BY <1>3, ApdAssumption DEF Init, Pos
  <2>2. i < j \/ j < i
    BY <1>3 DEF Pos
  <2> QED
    BY <1>2, <1>3, <2>1, <2>2 DEF Init
<1> QED
  BY <1>1, <1>3

\* Where slot i gets its contents from when the slots from pos on move up.
LEMMA StaysOutInsert ==
    ASSUME IInv, NEW c \in Clists \ inserted, NEW pos \in Pos, Insert(pos, c)
    PROVE  DeletedStaysOut'
<1> DEFINE from(i) == IF pos < i /\ i <= n_apd THEN i - 1 ELSE i
<1>1. \A i \in Pos : /\ i = pos => clist'[i] = c
                     /\ i # pos => from(i) \in Pos /\ clist'[i] = clist[from(i)]
  BY ApdAssumption DEF IInv, TypeOK, Insert, ShiftedUp, Pos
<1>2. \A i, j \in Pos : i # pos /\ j # pos /\ from(i) = from(j) => i = j
  BY DEF IInv, TypeOK, Insert, InsertStays, Pos
<1>3. inserted' = inserted \cup {c}
  BY DEF Insert
<1> SUFFICES ASSUME NEW i \in Pos, NEW j \in Pos, clist'[i] \in Clists
             PROVE  clist'[i] \in inserted' /\ (clist'[i] = clist'[j] => i = j)
  BY DEF DeletedStaysOut
<1>4. CASE i = pos
  BY <1>1, <1>3, <1>4 DEF IInv, DeletedStaysOut
<1>5. CASE i # pos
  BY <1>1, <1>2, <1>3, <1>5 DEF IInv, DeletedStaysOut
<1> QED
  BY <1>4, <1>5

LEMMA StaysOutDelete ==
    ASSUME IInv, NEW pos \in Pos, Delete(pos)
    PROVE  DeletedStaysOut'
<1> DEFINE from(i) == IF i >= pos /\ i + 1 < n_apd THEN i + 1 ELSE i
<1>1. \A i \in Pos :
         /\ i + 1 = n_apd => clist'[i] = NullCap
         /\ i + 1 # n_apd => /\ from(i) \in Pos \ {pos}
                             /\ clist'[i] = clist[from(i)]
  BY ApdAssumption DEF IInv, TypeOK, Delete, DeleteStays, ShiftedDown, Pos
<1>2. \A i, j \in Pos :
         i + 1 # n_apd /\ j + 1 # n_apd /\ from(i) = from(j) => i = j
  BY DEF IInv, TypeOK, Delete, DeleteStays, Pos
<1>3. inserted' = inserted \ {clist[pos]}
  BY DEF Delete
<1> SUFFICES ASSUME NEW i \in Pos, NEW j \in Pos, clist'[i] \in Clists
             PROVE  clist'[i] \in inserted' /\ (clist'[i] = clist'[j] => i = j)
  BY DEF DeletedStaysOut
<1>4. i + 1 # n_apd
  BY <1>1, ApdAssumption
<1>5. clist'[i] \in inserted'
  BY <1>1, <1>3, <1>4 DEF IInv, DeletedStaysOut
<1>6. ASSUME clist'[i] = clist'[j] PROVE i = j
  <2>1. j + 1 # n_apd
    BY <1>1, <1>6, ApdAssumption
  <2> QED
    BY <1>1, <1>2, <1>4, <1>6, <2>1 DEF IInv, DeletedStaysOut
<1> QED
  BY <1>5, <1>6

LEMMA StaysOutMerge ==
    ASSUME IInv, NEW c \in Clists \ inserted, Merge(c)
    PROVE  DeletedStaysOut'
<1>1. PICK m \in Pos \ {0} : clist' = [clist EXCEPT ![0] = SysClist, ![m] = c]
  BY MergeSlots DEF IInv
<1>2. inserted' = (inserted \ {clist[0]}) \cup {c}
  BY DEF Merge
<1>3. 0 \in Pos
  BY ApdAssumption DEF Pos
<1>4. \A i \in Pos : clist'[i] = IF i = m THEN c
                                 ELSE IF i = 0 THEN SysClist ELSE clist[i]
  BY <1>1 DEF IInv, TypeOK
<1> SUFFICES ASSUME NEW i \in Pos, NEW j \in Pos, clist'[i] \in Clists
             PROVE  clist'[i] \in inserted' /\ (clist'[i] = clist'[j] => i = j)
  BY DEF DeletedStaysOut
<1>5. i # 0
  BY <1>4, ApdAssumption
<1>6. CASE i = m
  BY <1>2, <1>4, <1>6, ApdAssumption DEF IInv, DeletedStaysOut
<1>7. CASE i # m
  BY <1>2, <1>3, <1>4, <1>5, <1>7, ApdAssumption DEF IInv, DeletedStaysOut
<1> QED
  BY <1>6, <1>7

-----------------------------------------------------------------------------
(* The invariant *)

LEMMA InvInit == Init => IInv
  BY TypeInit, StaysOutInit DEF Init, IInv, CountWithinArray

LEMMA InvNext == IInv /\ [Next]_vars => IInv'
<1> SUFFICES ASSUME IInv, Step \/ UNCHANGED vars, TypeOK'
             PROVE  DeletedStaysOut' /\ CountWithinArray'
  BY NextIsStep, TypeNext DEF IInv
<1>1. CASE \E c \in Clists \ inserted, pos \in Pos : Insert(pos, c)
  <2>1. PICK c \in Clists \ inserted, pos \in Pos : Insert(pos, c)
    BY <1>1
  <2>2. CountWithinArray'
    <3>1. pos + 1 <= APD_MAX_ENTRY
      BY ApdAssumption DEF Pos
    <3>2. UNCHANGED <<merged, overrun>> /\ n_apd' \in {n_apd, pos + 1}
      BY <2>1 DEF Insert
    <3> QED
      BY <3>1, <3>2 DEF IInv, CountWithinArray
  <2> QED
    BY <2>1, <2>2, StaysOutInsert
<1>2. CASE \E c \in Clists \ inserted : Merge(c)
  BY <1>2, StaysOutMerge DEF CountWithinArray, Merge
<1>3. CASE \E pos \in Pos : Delete(pos)
  <2>1. PICK pos \in Pos : Delete(pos)
    BY <1>3
  <2>2. CountWithinArray'
    BY <2>1, ApdAssumption DEF IInv, TypeOK, CountWithinArray, Delete
  <2> QED
    BY <2>1, <2>2, StaysOutDelete
<1>4. CASE \E pos \in Pos : Lock(pos)
  BY <1>4 DEF IInv, DeletedStaysOut, CountWithinArray, Lock
<1>5. CASE LockAll
  BY <1>5 DEF IInv, DeletedStaysOut, CountWithinArray, LockAll
<1>6. CASE Overrun
  <2>1. merged \/ n_apd <= APD_MAX_ENTRY
    BY DEF IInv, CountWithinArray
  <2>2. merged
    BY <1>6, <2>1, ApdAssumption
    DEF IInv, TypeOK, Overrun, HasRoom, InsertStays, DeleteStays, Pos
  <2> QED
    BY <1>6, <2>2 DEF IInv, DeletedStaysOut, CountWithinArray, Overrun
<1>7. CASE UNCHANGED vars
  BY <1>7 DEF IInv, DeletedStaysOut, CountWithinArray, vars
<1> QED
  BY <1>1, <1>2, <1>3, <1>4, <1>5, <1>6, <1>7 DEF Step

LEMMA Invariance == Spec => []IInv
  BY InvInit, InvNext, PTL DEF Spec

-----------------------------------------------------------------------------
(* Results *)

\* apd.c: the slots, the count and the locks stay well typed, whatever is inserted, deleted,
\* locked and merged.
THEOREM TypeCorrect == Spec => []TypeOK
<1>1. IInv => TypeOK
  BY DEF IInv
<1> QED
  BY Invariance, <1>1, PTL

\* Deletions really revoke: whatever insertions, deletions and merges do to the
\* count, a clist popped by ApdDelete is in no slot until it is inserted again.
THEOREM DeletionIsFinal == Spec => []DeletedStaysOut
<1>1. IInv => DeletedStaysOut
  BY DEF IInv
<1> QED
  BY Invariance, <1>1, PTL

\* Until a PdxCall merges, apd_slot_insert and apd_slot_delete stay within the
\* array, however slots were inserted beyond the count.
THEOREM CountStaysInArray == Spec => []CountWithinArray
<1>1. IInv => CountWithinArray
  BY DEF IInv
<1> QED
  BY Invariance, <1>1, PTL

\* Locked slots are affected by no ApdInsert, ApdDelete, ApdLock or PdxCall.
THEOREM LocksHold == Spec => LockedSlotsKept
<1> DEFINE Kept ==
        ~overrun' =>
          /\ n_locked' >= n_locked
          /\ \A i \in Pos :
                i < n_locked => \/ clist'[i] = clist[i]
                                \/ i = 0 /\ merged' /\ clist'[i] = SysClist
<1>1. ASSUME TypeOK, Step \/ UNCHANGED vars PROVE Kept
  <2>1. CASE \E c \in Clists \ inserted, pos \in Pos : Insert(pos, c)
    <3>1. PICK c \in Clists \ inserted, pos \in Pos : Insert(pos, c)
      BY <2>1
    <3>2. /\ n_locked' = n_locked
          /\ \A i \in Pos : i < pos => clist'[i] = clist[i]
      BY <3>1 DEF TypeOK, Insert, ShiftedUp, Pos
    <3> QED
      BY <1>1, <3>1, <3>2 DEF TypeOK, Insert, Unlocked, Pos
  <2>2. CASE \E c \in Clists \ inserted : Merge(c)
    <3>1. PICK c \in Clists : Merge(c)
      BY <2>2
    <3>2. PICK m \in Pos \ {0} :
             /\ m >= n_locked
             /\ clist' = [clist EXCEPT ![0] = SysClist, ![m] = c]
      BY <1>1, <3>1, MergeSlots
    <3>3. n_locked' = n_locked /\ merged'
      BY <3>1 DEF Merge
    <3>4. \A i \in Pos : i < n_locked => i # m
      BY <1>1, <3>2 DEF TypeOK, Pos
    <3> QED
      BY <1>1, <3>2, <3>3, <3>4 DEF TypeOK
  <2>3. CASE \E pos \in Pos : Delete(pos)
    <3>1. PICK pos \in Pos : Delete(pos)
      BY <2>3
    <3>2. /\ n_locked' = n_locked
          /\ \A i \in Pos : i < pos => clist'[i] = clist[i]
      BY <1>1, <3>1 DEF TypeOK, Delete, ShiftedDown, Pos
    <3> QED
      BY <1>1, <3>1, <3>2 DEF TypeOK, Delete, Unlocked, Pos
  <2>4. CASE \E pos \in Pos : Lock(pos)
    BY <1>1, <2>4 DEF TypeOK, Lock, LockUpTo, Pos
  <2>5. CASE LockAll
    BY <1>1, <2>5, ApdAssumption DEF TypeOK, LockAll
  <2>6. CASE Overrun
    BY <2>6 DEF Overrun
  <2>7. CASE UNCHANGED vars
    BY <1>1, <2>7 DEF TypeOK, vars
  <2> QED
    BY <1>1, <2>1, <2>2, <2>3, <2>4, <2>5, <2>6, <2>7 DEF Step
<1>2. IInv /\ [Next]_vars => [Kept]_vars
  BY <1>1, NextIsStep DEF IInv
<1> QED
  BY Invariance, <1>2, PTL DEF Spec, LockedSlotsKept
\* apd_slot_delete closes the gap and no other operation lowers the count: the slots below keep their
\* clists, those above follow in order, and what lies beyond the count is not moved.
THEOREM DeletionPops == Spec => DeletePops
<1> DEFINE Popped(pos) ==
              /\ clist[pos] \notin inserted'
              /\ n_apd' = n_apd - 1
              /\ \A i \in Pos :
                    clist'[i] = IF i < pos \/ i > n_apd' THEN clist[i]
                                ELSE IF i < n_apd' THEN clist[i + 1]
                                ELSE NullCap
           Pops == n_apd' < n_apd => \E pos \in 0 .. n_apd - 1 : Popped(pos)
<1>1. ASSUME TypeOK, Step \/ UNCHANGED vars PROVE Pops
  <2>1. CASE \E c \in Clists \ inserted, pos \in Pos : Insert(pos, c)
    <3>1. PICK pos \in Pos : n_apd' = IF pos + 1 <= n_apd THEN n_apd ELSE pos + 1
      BY <2>1 DEF Insert
    <3> QED
      BY <1>1, <3>1 DEF TypeOK, Pos
  <2>2. CASE \E c \in Clists \ inserted : Merge(c)
    <3>1. n_apd' = IF n_apd = 0 THEN 2 ELSE n_apd + 1
      BY <2>2 DEF Merge
    <3> QED
      BY <1>1, <3>1 DEF TypeOK
  <2>3. CASE \E pos \in Pos : Delete(pos)
    <3>1. PICK pos \in Pos : Delete(pos)
      BY <2>3
    <3>2. pos \in 0 .. n_apd - 1 /\ n_apd' = n_apd - 1
      BY <1>1, <3>1 DEF TypeOK, Delete, Pos
    <3>3. clist[pos] \notin inserted'
      BY <3>1 DEF Delete
    <3>4. \A i \in Pos : clist'[i] = IF i < pos \/ i > n_apd' THEN clist[i]
                                     ELSE IF i < n_apd' THEN clist[i + 1]
                                     ELSE NullCap
      BY <1>1, <3>1, <3>2 DEF TypeOK, Delete, ShiftedDown, Pos
    <3>5. Popped(pos)
      BY <3>2, <3>3, <3>4
    <3> QED
      BY <3>2, <3>5
  <2>4. CASE UNCHANGED n_apd
    BY <1>1, <2>4 DEF TypeOK
  <2> QED
    BY <1>1, <2>1, <2>2, <2>3, <2>4 DEF Step, Lock, LockAll, Overrun, vars
<1>2. IInv /\ [Next]_vars => [Pops]_vars
  BY <1>1, NextIsStep DEF IInv
<1> QED
  BY Invariance, <1>2, PTL DEF Spec, DeletePops
=============================================================================
