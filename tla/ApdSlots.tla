------------------------------ MODULE ApdSlots ------------------------------
(***************************************************************************)
(* The clist slots of an active protection domain (apddesc_t), as          *)
(* apd_slot_insert, apd_slot_delete, apd_slot_lock and apd_pdx_merge       *)
(* (apd.c) change them under the APD lock.  The validation searches the    *)
(* slots below n_apd.                                                      *)
(*                                                                         *)
(* One APD is followed through its life; a PdxCall that merges goes on     *)
(* with the APD it makes, the caller's being left as it was.  A call that  *)
(* is refused changes nothing and is no step here.                         *)
(*                                                                         *)
(* The APD of a thread starts from a well-formed descriptor: n_locked and  *)
(* n_apd within the array, each counted slot holding a clist.              *)
(***************************************************************************)
EXTENDS Integers, FiniteSets

CONSTANTS Clists,          \* clists of users and of PDX objects
          SysClist,        \* a clist that apd_fill makes
          NullCap,         \* NULL_CAP: the slot is empty
          APD_MAX_ENTRY

ASSUME ApdAssumption ==
    /\ SysClist \notin Clists
    /\ NullCap \notin Clists \cup {SysClist}
    /\ APD_MAX_ENTRY \in Nat \ {0}

Pos == 0 .. APD_MAX_ENTRY - 1

VARIABLES
    clist,      \* apddesc_t.clist
    n_locked,   \* slots below it are locked
    n_apd,      \* slots below it are searched
    inserted,   \* history: clists put in and not deleted since
    merged,     \* history: the APD was made by apd_pdx_merge
    overrun     \* a slot past the array was used: memory is overwritten

vars == <<clist, n_locked, n_apd, inserted, merged, overrun>>

TypeOK ==
    /\ clist \in [Pos -> Clists \cup {SysClist, NullCap}]
    /\ n_locked \in 0 .. APD_MAX_ENTRY
    /\ n_apd \in Nat
    /\ inserted \subseteq Clists
    /\ merged \in BOOLEAN
    /\ overrun \in BOOLEAN

\* apd_from_template: the descriptor's slots, except that apd_fill puts the
\* system clist into slot 0.
Init ==
    /\ n_apd \in 1 .. APD_MAX_ENTRY
    /\ n_locked \in 0 .. APD_MAX_ENTRY
    /\ clist \in [Pos -> Clists \cup {SysClist, NullCap}]
    /\ \A i \in Pos : /\ clist[i] = SysClist <=> i = 0
                      /\ clist[i] = NullCap <=> i >= n_apd
    /\ \A i, j \in Pos \ {0} : i < j /\ j < n_apd => clist[i] # clist[j]
    /\ inserted = {clist[i] : i \in Pos} \cap Clists
    /\ merged = FALSE
    /\ overrun = FALSE

-----------------------------------------------------------------------------
\* Variant: full is noticed one slot too late.
HasRoomLate == n_apd # APD_MAX_ENTRY + 1

\* Not ST_OVFL.
HasRoom == n_apd # APD_MAX_ENTRY

\* Variant: a locked slot is no obstacle.
UnlockedAny(pos) == pos >= 0

\* Not ST_LOCK.
Unlocked(pos) == pos >= n_locked

\* The slots from pos on move up by one, and c takes its place.
ShiftedUp(pos, c) ==
    [i \in Pos |-> IF i = pos THEN c
                   ELSE IF pos < i /\ i <= n_apd THEN clist[i - 1]
                   ELSE clist[i]]

\* Variant: one slot too many moves down.
ShiftedDownFar(pos) ==
    [i \in Pos |-> IF i + 1 >= pos /\ i + 1 < n_apd THEN clist[i + 1]
                   ELSE IF i + 1 = n_apd THEN NullCap
                   ELSE clist[i]]

\* Variant: the last slot keeps its contents.
ShiftedDownKeeping(pos) ==
    [i \in Pos |-> IF i >= pos /\ i + 1 < n_apd THEN clist[i + 1] ELSE clist[i]]

\* The slots above pos move down by one, and the last one counted is emptied.
ShiftedDown(pos) ==
    [i \in Pos |-> IF i >= pos /\ i + 1 < n_apd THEN clist[i + 1]
                   ELSE IF i + 1 = n_apd THEN NullCap
                   ELSE clist[i]]

\* A shift stays in the array; with more slots counted than there are, it would
\* overwrite the rest of the apd_t.
InsertStays(pos) == pos >= n_apd \/ n_apd < APD_MAX_ENTRY
DeleteStays      == n_apd <= APD_MAX_ENTRY

\* apd_slot_insert.  The count grows only to cover the slot: what moves up from
\* the last counted slot is no longer counted.
Insert(pos, c) ==
    /\ HasRoom
    /\ Unlocked(pos)
    /\ InsertStays(pos)
    /\ clist' = ShiftedUp(pos, c)
    /\ n_apd' = IF pos + 1 <= n_apd THEN n_apd ELSE pos + 1
    /\ inserted' = inserted \cup {c}
    /\ UNCHANGED <<n_locked, merged, overrun>>

\* apd_slot_delete.
Delete(pos) ==
    /\ pos < n_apd
    /\ Unlocked(pos)
    /\ DeleteStays
    /\ clist' = ShiftedDown(pos)
    /\ n_apd' = n_apd - 1
    /\ inserted' = inserted \ {clist[pos]}
    /\ UNCHANGED <<n_locked, merged, overrun>>

\* The same calls, when their shift does not stay in the array.
Overrun ==
    /\ \/ \E pos \in Pos : HasRoom /\ Unlocked(pos) /\ ~InsertStays(pos)
       \/ \E pos \in 0 .. n_apd - 1 : Unlocked(pos) /\ ~DeleteStays
    /\ overrun' = TRUE
    /\ UNCHANGED <<clist, n_locked, n_apd, inserted, merged>>

\* Variant: one slot too many.
LockUpToFar(pos) == pos + 2

\* n_locked once slot pos is locked.
LockUpTo(pos) == pos + 1

\* apd_slot_lock, for one slot or, with position -1, for all.
Lock(pos) ==
    /\ pos >= n_locked
    /\ n_locked' = LockUpTo(pos)
    /\ UNCHANGED <<clist, n_apd, inserted, merged, overrun>>

LockAll ==
    /\ n_locked' = APD_MAX_ENTRY
    /\ UNCHANGED <<clist, n_apd, inserted, merged, overrun>>

\* apd_pdx_merge: a copy of the APD with a new system clist in slot 0 (slot 0 is
\* replaced even if it is locked) and c in the first unlocked slot that is empty.
Merge(c) ==
    LET filled == [clist EXCEPT ![0] = SysClist]
        free   == {i \in n_locked .. APD_MAX_ENTRY - 1 : filled[i] = NullCap}
    IN  \E i \in free :
           /\ \A j \in free : i <= j
           /\ clist' = [filled EXCEPT ![i] = c]
           /\ n_apd' = IF n_apd = 0 THEN 2 ELSE n_apd + 1
           /\ inserted' = (inserted \ {clist[0]}) \cup {c}
           /\ merged' = TRUE
           /\ UNCHANGED <<n_locked, overrun>>

\* Bound: a clist is put into the APD once, until it is deleted.
Next ==
    /\ ~overrun
    /\ \/ \E c \in Clists \ inserted : \/ \E pos \in Pos : Insert(pos, c)
                                       \/ Merge(c)
       \/ \E pos \in Pos : Delete(pos) \/ Lock(pos)
       \/ LockAll
       \/ Overrun

Spec == Init /\ [][Next]_vars

-----------------------------------------------------------------------------
(* Properties *)

\* "Any future ApdInsert, ApdDelete or PdxCall operations cannot affect locked
\* slots": locked slots keep their clists and stay locked, through every shift,
\* except that a merging PdxCall replaces slot 0.
LockedSlotsKept ==
    [][~overrun' =>
          /\ n_locked' >= n_locked
          /\ \A i \in Pos :
                i < n_locked => \/ clist'[i] = clist[i]
                                \/ i = 0 /\ merged' /\ clist'[i] = SysClist]_vars

\* A clist once deleted is in no slot, counted or not, so that no later change of
\* the count brings it back; and no shift leaves a clist behind in two slots, of
\* which a deletion would remove one.
DeletedStaysOut ==
    \A i, j \in Pos : clist[i] \in Clists => /\ clist[i] \in inserted
                                             /\ clist[i] = clist[j] => i = j

\* ApdDelete pops one slot: those below keep their clists, those above follow in
\* their order, whatever lies beyond the count stays where it is, and the clist
\* that is gone is the one that was to be deleted.
DeletePops ==
    [][n_apd' < n_apd =>
          \E pos \in 0 .. n_apd - 1 :
             /\ clist[pos] \notin inserted'
             /\ n_apd' = n_apd - 1
             /\ \A i \in Pos :
                   clist'[i] = IF i < pos \/ i > n_apd' THEN clist[i]
                               ELSE IF i < n_apd' THEN clist[i + 1]
                               ELSE NullCap]_vars

\* Without a merging PdxCall the validation never searches, and a shift never
\* touches, memory past the array; apd_slot_insert asks whether the count is
\* equal to the limit, not whether it has reached it.
CountWithinArray == ~merged => n_apd <= APD_MAX_ENTRY /\ ~overrun
=============================================================================
