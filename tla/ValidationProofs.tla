-------------------------- MODULE ValidationProofs --------------------------
(***************************************************************************)
(* What module Validation checks on a small instance, proved for any sets  *)
(* of bases, cells, passwords and rights, any size and timeout of the      *)
(* cache, and any value of the bounds.                                     *)
(***************************************************************************)
EXTENDS Validation, TLAPS

(***************************************************************************)
(* The inductive invariant.                                                *)
(***************************************************************************)

\* The cells of the object table hold the object they are entered for, and a
\* pointer kept by a thread or by the cache, stale as it may be, leads to a cell
\* that holds or held an object.
UsedCells ==
    /\ \A b \in Bases : objtable[b] # None => heap[objtable[b]].base = b
    /\ \A t \in Threads : thread[t].pc # "idle" =>
          /\ thread[t].base \in Bases
          /\ thread[t].obj \in Cells
          /\ heap[thread[t].obj].base \in Bases
    /\ \A s \in Slots : cache[s] # Empty => heap[cache[s].obj].base \in Bases

\* A full validation was not answered by the cache, and unless it was raced it
\* still holds the object of the object table.
Looking ==
    \A t \in Threads : thread[t].pc \in {"scan", "fill"} =>
        /\ ~thread[t].cached
        /\ ~thread[t].raced =>
              objtable[heap[thread[t].obj].base] = thread[t].obj

\* Between scan and fill the APD lock is held, and what the scan read is
\* recorded.
Filling ==
    \A t \in Threads : thread[t].pc = "fill" =>
        /\ apd_lock = t
        /\ thread[t].from \in Bases
        /\ <<thread[t].from, thread[t].rights>> \in scanned
        /\ ~thread[t].raced => heap[thread[t].obj].base = thread[t].from

\* No timestamp is in the future.
Past ==
    /\ \A s \in Slots : cache[s].stamp <= now
    /\ \A t \in Threads : thread[t].at <= now

\* Unless it was raced, what the cache says was established by a validation: some full
\* validation of an object at the base gave exactly that mode no earlier than the entry's
\* timestamp.
Validated ==
    \A s \in Slots :
        cache[s] # Empty /\ ~cache[s].raced =>
            filled[<<cache[s].base, cache[s].rights>>] >= cache[s].stamp

\* An entry is no younger than the deletion of its object.
Outlived ==
    \A s \in Slots : cache[s] # Empty /\ gone[s] # Never => cache[s].stamp <= gone[s]

IInv == /\ TypeOK
        /\ UsedCells
        /\ Looking
        /\ Filling
        /\ Past
        /\ Validated
        /\ Outlived
        /\ HitJustified
        /\ FlushForgets

-----------------------------------------------------------------------------
(* Facts about the operators *)

\* Whatever object_passwd does to the slots of an object gives slots again.
LEMMA PasswdSetInfos ==
    ASSUME NEW info \in Infos, NEW p \in Passwords, NEW m \in Modes
    PROVE  PasswdSet(info, p, m) \subseteq Infos
<1>1. ASSUME NEW i \in PasswdPos
      PROVE  [info EXCEPT !.slot[i].rights = m] \in Infos
  BY <1>1 DEF Infos
<1>2. ASSUME NEW i \in PasswdPos
      PROVE  [slot   |-> [info.slot EXCEPT ![i] = [passwd |-> p, rights |-> m]],
              n_caps |-> Grown(info.n_caps, i)] \in Infos
  BY <1>2, PasswdAssumption DEF Infos, PasswdPos, Grown
<1>3. /\ First(MatchingSlots(info, p)) \subseteq PasswdPos
      /\ First(FreeSlots(info)) \subseteq PasswdPos
  BY DEF First, MatchingSlots, FreeSlots
<1> QED
  BY <1>1, <1>2, <1>3 DEF PasswdSet

\* The slots of a new object.
LEMMA AddedInfos ==
    ASSUME NEW info \in Infos, NEW p \in Passwords
    PROVE  AddedInfo(info, p) \in Infos
  BY PasswdAssumption DEF AddedInfo, Infos, PasswdPos, OWNER, Modes

\* The empty slot is no entry.
LEMMA EmptyIsNoEntry == Empty \notin Entries
  BY ValidationAssumption DEF Empty, Entries

\* What decides a request is a mode.
LEMMA DecidingMode ==
    ASSUME NEW o, o.info \in Infos, NEW access, NEW mode \in DecidingModes(o, access)
    PROVE  mode \in Modes
<1>1. PICK i, k : /\ k \in DecidingSlots(o.info, clist[i].passwd, access)
                  /\ mode = o.info.slot[k].rights
  BY DEF DecidingModes, First
<1> QED
  BY <1>1 DEF DecidingSlots, Infos

-----------------------------------------------------------------------------
(* Type correctness of one step *)

LEMMA TypeInit == Init => TypeOK
<1> SUFFICES ASSUME Init PROVE TypeOK
  OBVIOUS
<1> USE ValidationAssumption, PasswdAssumption DEF Init
<1>1. /\ now \in 0 .. MaxTime
      /\ calls \in 0 .. MaxCalls
      /\ last \in Slots
  BY DEF Slots
<1>2. /\ objtable \in [Bases -> Cells \cup {None}]
      /\ clist \in Seq(Caps)
      /\ apd_lock \in Threads \cup {None}
  OBVIOUS
<1>7. halted \in BOOLEAN
  OBVIOUS
<1>8. scanned \subseteq Bases \X Modes
  OBVIOUS
<1>3. heap \in [Cells -> [base : Bases \cup {None}, info : Infos]]
  BY DEF NoObject, ZeroInfo, Infos, Modes, PasswdPos
<1>4. cache \in [Slots -> Entries \cup {Empty}]
  OBVIOUS
<1>5. Idle \in Validations
  BY DEF Idle, Validations, Modes
<1>6. /\ filled \in [Bases \X Modes -> {Never} \cup 0 .. MaxTime]
      /\ gone \in [Slots -> {Never} \cup 0 .. MaxTime]
  OBVIOUS
<1> QED
  BY <1>1, <1>2, <1>3, <1>4, <1>5, <1>6 DEF TypeOK

\* The entry a hit is answered from is one.
LEMMA HitEntry ==
    ASSUME TypeOK, NEW t, NEW call, call.base \in Bases,
           NEW s \in Slots, CacheHit(t, call, s)
    PROVE  /\ cache[s] \in Entries
           /\ cache[s] # Empty
           /\ cache[s].base = call.base
           /\ ~Expired(cache[s])
           /\ call.access \subseteq cache[s].rights
<1>1. CheckEntry(cache[s], call.base, call.access)
  BY DEF CacheHit, First, HitSlots
<1>2. cache[s].base # None
  BY <1>1, ValidationAssumption DEF CheckEntry
<1>3. cache[s] # Empty
  BY <1>2 DEF Empty
<1> QED
  BY <1>1, <1>3 DEF CheckEntry, TypeOK

\* A search of the cache only ever empties entries.
LEMMA ProbeOnlyEmpties ==
    ASSUME TypeOK, NEW b, NEW bound
    PROVE  /\ CacheProbed(b, bound) \in [Slots -> Entries \cup {Empty}]
           /\ \A s \in Slots : CacheProbed(b, bound)[s] \in {cache[s], Empty}
  BY DEF CacheProbed, TypeOK

LEMMA CallType ==
    ASSUME TypeOK, NEW t \in Threads, NEW op \in Ops(t), NEW b \in Bases,
           NEW access \in Asks(op)
    PROVE  LET call == Call(op, b, access)
           IN  /\ call \in Validations
               /\ call.base = b
               /\ call.access = access
               /\ call.at = now
               /\ call.pc = "idle"
               /\ call.raced = FALSE
               /\ call.cached = FALSE
<1>1. op \in {"fault", "lookup", "delete", "passwd"}
  BY DEF Ops
<1>2. access \in Modes
  BY <1>1, ValidationAssumption DEF Asks, OWNER, Modes
<1> QED
  BY <1>1, <1>2 DEF Call, Idle, Validations, Modes, TypeOK

\* A step that only changes what a thread does next.
LEMMA TypeThread ==
    ASSUME TypeOK, thread' \in [Threads -> Validations],
           UNCHANGED <<now, calls, objVars, clist, cacheVars, apd_lock,
                       halted, history>>
    PROVE  TypeOK'
  BY DEF TypeOK, objVars, cacheVars, history

LEMMA TypeBegin ==
    ASSUME TypeOK, NEW t \in Threads, NEW op \in Ops(t), NEW b \in Bases,
           NEW access \in Asks(op), Begin(t, op, b, access)
    PROVE  TypeOK'
<1> DEFINE call == Call(op, b, access)
<1>0. /\ call \in Validations
      /\ call.base = b
  BY CallType
<1> DEFINE Typed == /\ cache' \in [Slots -> Entries \cup {Empty}]
                    /\ last' \in Slots
                    /\ thread' \in [Threads -> Validations]
<1>1. ASSUME \E s \in Slots : CacheHit(t, call, s)
      PROVE  Typed
  <2> HIDE DEF call
  <2>1. PICK s \in Slots : CacheHit(t, call, s)
    BY <1>1
  <2>2. cache[s] \in Entries
    BY <2>1, <1>0, HitEntry
  <2> DEFINE granted == [call EXCEPT !.pc = "granted", !.cached = TRUE,
                               !.obj = cache[s].obj, !.raced = cache[s].raced]
  <2>3. granted \in Validations
    BY <2>2, <1>0 DEF Entries, Validations
  <2>4. thread' = [thread EXCEPT ![t] = granted]
    BY <2>1 DEF CacheHit
  <2> HIDE DEF granted
  <2>5. thread' \in [Threads -> Validations]
    BY <2>3, <2>4 DEF TypeOK
  <2>6. /\ cache' \in [Slots -> Entries \cup {Empty}]
        /\ last' \in Slots
    BY <2>1, ProbeOnlyEmpties DEF CacheHit
  <2> QED
    BY <2>5, <2>6
<1>2. ASSUME CacheMiss(t, call)
      PROVE  Typed
  <2> HIDE DEF call
  <2> DEFINE scanning == [call EXCEPT !.pc = "scan",
                                      !.obj = ObjectFind(call.base)]
  <2>1. scanning \in Validations
    BY <1>0 DEF ObjectFind, Validations, TypeOK
  <2>2. \/ thread' = thread
        \/ thread' = [thread EXCEPT ![t] = scanning]
    BY <1>2 DEF CacheMiss
  <2> HIDE DEF scanning
  <2>3. thread' \in [Threads -> Validations]
    BY <2>1, <2>2 DEF TypeOK
  <2>4. /\ cache' \in [Slots -> Entries \cup {Empty}]
        /\ last' \in Slots
    BY <1>2, ProbeOnlyEmpties DEF CacheMiss, TypeOK
  <2> QED
    BY <2>3, <2>4
<1>3. calls' \in 0 .. MaxCalls
  BY ValidationAssumption DEF Begin, TypeOK
<1> QED
  BY <1>1, <1>2, <1>3 DEF Begin, TypeOK, objVars, history

LEMMA TypeScan ==
    ASSUME TypeOK, UsedCells, NEW t \in Threads, Scan(t)
    PROVE  TypeOK'
<1> DEFINE o == heap[thread[t].obj]
           access == thread[t].access
           scans(mode) == [thread[t] EXCEPT !.pc = "fill", !.rights = mode,
                                            !.from = o.base]
<1>1. ASSUME NEW mode \in DecidingModes(o, access), ScanAllowed(t, o, mode)
      PROVE  TypeOK'
  <2>1. thread[t].obj \in Cells /\ o.base \in Bases
    BY DEF Scan, UsedCells
  <2>2. o.info \in Infos
    BY <2>1 DEF TypeOK
  <2>3. mode \in Modes
    BY <2>2, DecidingMode
  <2>4. scans(mode) \in Validations
    <3>1. thread[t] \in Validations
      BY DEF TypeOK
    <3> QED
      BY <3>1, <2>1, <2>3 DEF Validations
  <2>5. thread' = [thread EXCEPT ![t] = scans(mode)]
    BY <1>1 DEF ScanAllowed
  <2> HIDE DEF scans
  <2>6. thread' \in [Threads -> Validations]
    BY <2>4, <2>5 DEF TypeOK
  <2>7. scanned' \subseteq Bases \X Modes
    BY <1>1, <2>1, <2>3 DEF ScanAllowed, TypeOK
  <2>8. apd_lock' \in Threads \cup {None}
    BY <1>1 DEF ScanAllowed
  <2> QED
    BY <2>6, <2>7, <2>8 DEF Scan, TypeOK, objVars, cacheVars
<1>2. CASE ScanRefused(t, o)
  <2>1. Idle \in Validations
    BY ValidationAssumption DEF Idle, Validations, Modes
  <2> QED
    BY <1>2, <2>1 DEF ScanRefused, Scan, TypeOK, objVars, cacheVars
<1> QED
  BY <1>1, <1>2 DEF Scan

LEMMA TypeFill ==
    ASSUME TypeOK, UsedCells, Filling, NEW t \in Threads, Fill(t)
    PROVE  TypeOK'
<1>1. CASE FillHalts(thread[t])
  BY <1>1 DEF FillHalts, Fill, TypeOK, cacheVars, objVars
<1>2. CASE \E s \in Slots : FillAdds(t, thread[t], s)
  <2>1. PICK s \in Slots : FillAdds(t, thread[t], s)
    BY <1>2
  <2>2. /\ thread[t].from \in Bases
        /\ thread[t].obj \in Cells
        /\ heap[thread[t].obj].base \in Bases
    BY DEF Fill, UsedCells, Filling
  <2>3. /\ thread[t].rights \in SUBSET Rights
        /\ thread[t].rights \in Modes
        /\ thread[t].raced \in BOOLEAN
    BY <2>1 DEF FillAdds, TypeOK, Validations, Modes
  <2>4. [base |-> heap[thread[t].obj].base, obj |-> thread[t].obj,
         rights |-> thread[t].rights, stamp |-> now,
         raced |-> thread[t].raced] \in Entries
    BY <2>2, <2>3 DEF Entries, TypeOK
  <2>5. cache' \in [Slots -> Entries \cup {Empty}]
    BY <2>1, <2>4 DEF FillAdds, TypeOK
  <2>6. filled' \in [Bases \X Modes -> {Never} \cup 0 .. MaxTime]
    BY <2>1, <2>2, <2>3 DEF FillAdds, TypeOK
  <2>8. gone' \in [Slots -> {Never} \cup 0 .. MaxTime]
    BY <2>1 DEF FillAdds, TypeOK
  <2>7. thread' \in [Threads -> Validations]
    <3>1. thread[t] \in Validations
      BY DEF TypeOK
    <3>2. [thread[t] EXCEPT !.pc = "granted"] \in Validations
      BY <3>1 DEF Validations
    <3> QED
      BY <2>1, <3>2 DEF FillAdds, TypeOK
  <2> QED
    BY <2>1, <2>5, <2>6, <2>7, <2>8 DEF FillAdds, Fill, TypeOK, objVars
<1> QED
  BY <1>1, <1>2 DEF Fill

LEMMA TypeDelete ==
    ASSUME TypeOK, UsedCells, NEW t \in Threads, Delete(t)
    PROVE  TypeOK'
<1>1. Idle \in Validations
  BY ValidationAssumption DEF Idle, Validations, Modes
<1>2. \A c : MarkRaced(c) \in [Threads -> Validations]
  <2> SUFFICES ASSUME NEW c, NEW u \in Threads
               PROVE  MarkRaced(c)[u] \in Validations
    BY DEF MarkRaced
  <2>1. thread[u] \in Validations
    BY DEF TypeOK
  <2>2. [thread[u] EXCEPT !.raced = TRUE] \in Validations
    BY <2>1 DEF Validations
  <2> QED
    BY <2>1, <2>2 DEF MarkRaced
<1>3. thread' \in [Threads -> Validations]
  <2>1. CASE Return(t)
    BY <1>1, <2>1 DEF Return, TypeOK
  <2>2. ASSUME NEW c, thread' = [MarkRaced(c) EXCEPT ![t] = Idle]
        PROVE  thread' \in [Threads -> Validations]
    BY <1>1, <1>2, <2>2
  <2> QED
    BY <2>1, <2>2 DEF Delete
<1>4. objtable' \in [Bases -> Cells \cup {None}]
  BY DEF Delete, TypeOK
<1>5. gone' \in [Slots -> {Never} \cup 0 .. MaxTime]
  <2>1. ASSUME NEW c PROVE MarkGone(c) \in [Slots -> {Never} \cup 0 .. MaxTime]
    BY DEF MarkGone, TypeOK
  <2>2. gone' = gone \/ \E c : gone' = MarkGone(c)
    BY DEF Delete
  <2> QED
    BY <2>1, <2>2 DEF TypeOK
<1> QED
  BY <1>3, <1>4, <1>5 DEF Delete, TypeOK, cacheVars, history

\* object_passwd changes at most the slots of one object.
LEMMA PasswdHeap ==
    ASSUME TypeOK, UsedCells, NEW t \in Threads, NEW p \in Passwords,
           NEW mode \in UserModes, Passwd(t, p, mode)
    PROVE  \/ heap' = heap
           \/ \E info \in Infos :
                 heap' = [heap EXCEPT ![thread[t].obj].info = info]
<1> DEFINE after == PasswdSet(heap[thread[t].obj].info, p, mode)
<1>1. thread[t].obj \in Cells
  BY DEF Passwd, Granted, UsedCells
<1>2. heap[thread[t].obj].info \in Infos
  BY <1>1 DEF TypeOK
<1>3. mode \in Modes
  BY ValidationAssumption
<1>4. after \subseteq Infos
  BY <1>2, <1>3, PasswdSetInfos
<1>5. \/ \E info \in after : heap' = [heap EXCEPT ![thread[t].obj].info = info]
      \/ heap' = heap
  BY DEF Passwd
<1> QED
  BY <1>4, <1>5

LEMMA TypePasswd ==
    ASSUME TypeOK, UsedCells, NEW t \in Threads, NEW p \in Passwords,
           NEW mode \in UserModes, Passwd(t, p, mode)
    PROVE  TypeOK'
<1>1. thread[t].obj \in Cells
  BY DEF Passwd, Granted, UsedCells
<1>4. heap' \in [Cells -> [base : Bases \cup {None}, info : Infos]]
  <2>1. CASE heap' = heap
    BY <2>1 DEF TypeOK
  <2>2. ASSUME NEW info \in Infos,
               heap' = [heap EXCEPT ![thread[t].obj].info = info]
        PROVE  heap' \in [Cells -> [base : Bases \cup {None}, info : Infos]]
    <3> HIDE DEF Infos
    <3> QED
      BY <1>1, <2>2 DEF TypeOK
  <2> QED
    BY <2>1, <2>2, PasswdHeap
<1>5. Idle \in Validations
  BY ValidationAssumption DEF Idle, Validations, Modes
<1>6. thread' \in [Threads -> Validations]
  BY <1>5 DEF Passwd, Return, TypeOK
<1> QED
  BY <1>4, <1>6 DEF Passwd, TypeOK, cacheVars, history

LEMMA TypeCreate ==
    ASSUME TypeOK, NEW b \in Bases, NEW c \in Cells, NEW p \in Passwords,
           Create(b, c, p)
    PROVE  TypeOK'
<1>1. heap' \in [Cells -> [base : Bases \cup {None}, info : Infos]]
  BY AddedInfos DEF Create, TypeOK
<1>2. objtable' \in [Bases -> Cells \cup {None}]
  BY DEF Create, TypeOK
<1> QED
  BY <1>1, <1>2 DEF Create, TypeOK, cacheVars, history

LEMMA TypeStep == TypeOK /\ UsedCells /\ Filling /\ [Next]_vars => TypeOK'
<1> SUFFICES ASSUME TypeOK, UsedCells, Filling, [Next]_vars
             PROVE  TypeOK'
  OBVIOUS
<1>1. ASSUME NEW t \in Threads, LookupReturn(t) \/ FaultReturn(t)
      PROVE  TypeOK'
  <2>1. Idle \in Validations
    BY ValidationAssumption DEF Idle, Validations, Modes
  <2>2. thread' \in [Threads -> Validations]
    BY <1>1, <2>1 DEF LookupReturn, FaultReturn, Return, TypeOK
  <2> QED
    BY <1>1, <2>2, TypeThread DEF LookupReturn, FaultReturn, objVars,
       cacheVars, history
<1>2. CASE Flush
  BY <1>2, ValidationAssumption DEF Flush, TypeOK, Slots, objVars
<1>3. ASSUME NEW cap \in Caps, AddCap(cap)
      PROVE  TypeOK'
  BY <1>3 DEF AddCap, TypeOK, objVars, cacheVars, history
<1>4. CASE DropCap
  BY <1>4 DEF DropCap, TypeOK, objVars, cacheVars, history
<1>5. CASE Tick
  BY <1>5, ValidationAssumption DEF Tick, TypeOK, objVars, cacheVars, history
<1>6. CASE UNCHANGED vars
  BY <1>6 DEF vars, TypeOK, objVars, cacheVars, history
<1> QED
  BY <1>1, <1>2, <1>3, <1>4, <1>5, <1>6, TypeBegin, TypeScan, TypeFill,
     TypeDelete, TypePasswd, TypeCreate DEF Next

-----------------------------------------------------------------------------
(* The other conjuncts of the invariant, one step each *)

\* Two states of one validation: only pc, what the scan found and the race mark
\* may differ.
SameCall(c, d) ==
    /\ c.base = d.base
    /\ c.access = d.access
    /\ c.obj = d.obj
    /\ c.cached = d.cached
    /\ c.at = d.at

\* The two ways a validation of thread t for address b can start.
HitOn(t, b, access, s) ==
    /\ cache[s] \in Entries
    /\ cache[s] # Empty
    /\ cache[s].base = b
    /\ ~Expired(cache[s])
    /\ access \subseteq cache[s].rights
    /\ thread'[t].pc = "granted"
    /\ thread'[t].base = b
    /\ thread'[t].access = access
    /\ thread'[t].obj = cache[s].obj
    /\ thread'[t].raced = cache[s].raced
    /\ thread'[t].at = now

ScanOf(t, b) ==
    /\ objtable[b] # None
    /\ thread'[t].pc = "scan"
    /\ thread'[t].base = b
    /\ thread'[t].obj = objtable[b]
    /\ thread'[t].cached = FALSE
    /\ thread'[t].at = now

\* What each step of a validation does to the threads and to the cache.
LEMMA BeginThreads ==
    ASSUME TypeOK, NEW t \in Threads, NEW op \in Ops(t), NEW b \in Bases,
           NEW access \in Asks(op), Begin(t, op, b, access)
    PROVE  /\ \A u \in Threads : u # t => thread'[u] = thread[u]
           /\ \A s \in Slots : cache'[s] \in {cache[s], Empty}
           /\ \/ thread'[t] = thread[t]
              \/ \E s \in Slots : HitOn(t, b, access, s)
              \/ ScanOf(t, b)
<1> DEFINE call == Call(op, b, access)
<1>0. /\ call \in Validations
      /\ call.base = b
      /\ call.access = access
      /\ call.at = now
      /\ call.cached = FALSE
  BY CallType
<1> DEFINE hits(s) == [call EXCEPT !.pc = "granted", !.cached = TRUE,
                                   !.obj = cache[s].obj,
                                   !.raced = cache[s].raced]
           misses == [call EXCEPT !.pc = "scan", !.obj = objtable[b]]
<1> HIDE DEF call
<1>1. ASSUME NEW s \in Slots
      PROVE  /\ hits(s).pc = "granted"
             /\ hits(s).base = b
             /\ hits(s).access = access
             /\ hits(s).obj = cache[s].obj
             /\ hits(s).raced = cache[s].raced
             /\ hits(s).at = now
  BY <1>0 DEF Validations
<1>2. /\ misses.pc = "scan"
      /\ misses.base = b
      /\ misses.obj = objtable[b]
      /\ misses.cached = FALSE
      /\ misses.at = now
  BY <1>0 DEF Validations
<1>3. ASSUME NEW s \in Slots, CacheHit(t, call, s)
      PROVE  /\ thread' = [thread EXCEPT ![t] = hits(s)]
             /\ \A u \in Slots : cache'[u] \in {cache[u], Empty}
             /\ cache[s] \in Entries
             /\ cache[s] # Empty
             /\ cache[s].base = b
             /\ ~Expired(cache[s])
             /\ access \subseteq cache[s].rights
  <2>1. /\ cache[s] \in Entries
        /\ cache[s] # Empty
        /\ cache[s].base = b
        /\ ~Expired(cache[s])
        /\ access \subseteq cache[s].rights
    BY <1>0, <1>3, HitEntry
  <2>2. \A u \in Slots : cache'[u] \in {cache[u], Empty}
    BY <1>3, ProbeOnlyEmpties DEF CacheHit
  <2> QED
    BY <1>3, <2>1, <2>2 DEF CacheHit
<1>4. ASSUME CacheMiss(t, call)
      PROVE  /\ \/ thread' = thread
                \/ objtable[b] # None /\ thread' = [thread EXCEPT ![t] = misses]
             /\ \A u \in Slots : cache'[u] \in {cache[u], Empty}
  BY <1>0, <1>4, ProbeOnlyEmpties DEF CacheMiss, ObjectFind
<1>5. CASE \E s \in Slots : CacheHit(t, call, s)
  <2>1. PICK s \in Slots : CacheHit(t, call, s)
    BY <1>5
  <2> HIDE DEF hits
  <2>2. /\ thread'[t] = hits(s)
        /\ \A u \in Threads : u # t => thread'[u] = thread[u]
    BY <2>1, <1>3 DEF TypeOK
  <2> QED
    BY <2>1, <2>2, <1>1, <1>3 DEF HitOn
<1>6. CASE CacheMiss(t, call)
  <2> HIDE DEF misses
  <2>1. /\ \/ thread'[t] = thread[t]
           \/ objtable[b] # None /\ thread'[t] = misses
        /\ \A u \in Threads : u # t => thread'[u] = thread[u]
    BY <1>4, <1>6 DEF TypeOK
  <2> QED
    BY <2>1, <1>2, <1>4, <1>6 DEF ScanOf
<1> QED
  BY <1>5, <1>6 DEF Begin, call

LEMMA ScanThreads ==
    ASSUME TypeOK, NEW t \in Threads, Scan(t)
    PROVE  /\ \A u \in Threads : u # t => thread'[u] = thread[u]
           /\ \/ /\ thread'[t] = Idle
                 /\ UNCHANGED <<apd_lock, scanned>>
              \/ /\ SameCall(thread'[t], thread[t])
                 /\ thread'[t].pc = "fill"
                 /\ thread'[t].raced = thread[t].raced
                 /\ apd_lock' = t
                 /\ thread'[t].from = heap[thread[t].obj].base
                 /\ scanned' = scanned \cup
                       {<<thread'[t].from, thread'[t].rights>>}
<1> DEFINE o == heap[thread[t].obj]
<1>1. CASE ScanRefused(t, o)
  BY <1>1 DEF ScanRefused, TypeOK
<1>2. ASSUME NEW mode, ScanAllowed(t, o, mode)
      PROVE  /\ \A u \in Threads : u # t => thread'[u] = thread[u]
             /\ SameCall(thread'[t], thread[t])
             /\ thread'[t].pc = "fill"
             /\ thread'[t].raced = thread[t].raced
             /\ apd_lock' = t
             /\ thread'[t].from = o.base
             /\ scanned' = scanned \cup {<<thread'[t].from, thread'[t].rights>>}
  <2>1. thread[t] \in Validations
    BY DEF TypeOK
  <2>2. \A u \in Threads : u # t => thread'[u] = thread[u]
    BY <1>2 DEF ScanAllowed, TypeOK
  <2>3. thread'[t] = [thread[t] EXCEPT !.pc = "fill", !.rights = mode,
                                       !.from = o.base]
    BY <1>2 DEF ScanAllowed, TypeOK
  <2>4. /\ SameCall(thread'[t], thread[t])
        /\ thread'[t].pc = "fill"
        /\ thread'[t].raced = thread[t].raced
    BY <2>1, <2>3 DEF SameCall, Validations
  <2>5. /\ thread'[t].from = o.base
        /\ thread'[t].rights = mode
    BY <2>1, <2>3 DEF Validations
  <2> QED
    BY <1>2, <2>2, <2>4, <2>5 DEF ScanAllowed
<1> QED
  BY <1>1, <1>2 DEF Scan

LEMMA FillThreads ==
    ASSUME TypeOK, NEW t \in Threads, NEW s \in Slots,
           FillAdds(t, thread[t], s)
    PROVE  /\ \A u \in Threads : u # t => thread'[u] = thread[u]
           /\ SameCall(thread'[t], thread[t])
           /\ thread'[t].pc = "granted"
           /\ thread'[t].raced = thread[t].raced
           /\ cache'[s] = [base |-> heap[thread[t].obj].base,
                           obj |-> thread[t].obj,
                           rights |-> thread[t].rights, stamp |-> now,
                           raced |-> thread[t].raced]
           /\ cache'[s].base = heap[thread[t].obj].base
           /\ cache'[s].obj = thread[t].obj
           /\ cache'[s].rights = thread[t].rights
           /\ cache'[s].stamp = now
           /\ cache'[s].raced = thread[t].raced
           /\ \A u \in Slots : u # s => cache'[u] = cache[u]
<1>1. thread[t] \in Validations
  BY DEF TypeOK
<1>2. thread'[t] = [thread[t] EXCEPT !.pc = "granted"]
  BY DEF FillAdds, TypeOK
<1>3. \A u \in Threads : u # t => thread'[u] = thread[u]
  BY DEF FillAdds, TypeOK
<1>4. /\ cache'[s] = [base |-> heap[thread[t].obj].base,
                      obj |-> thread[t].obj,
                      rights |-> thread[t].rights, stamp |-> now,
                      raced |-> thread[t].raced]
      /\ \A u \in Slots : u # s => cache'[u] = cache[u]
  BY DEF FillAdds, TypeOK
<1> QED
  BY <1>1, <1>2, <1>3, <1>4 DEF SameCall, Validations

LEMMA DeleteThreads ==
    ASSUME TypeOK, NEW t \in Threads, Delete(t)
    PROVE  /\ thread'[t] = Idle
           /\ \A u \in Threads : u # t =>
                 \/ thread'[u] = thread[u]
                 \/ /\ SameCall(thread'[u], thread[u])
                    /\ thread[u].pc \in {"scan", "fill"}
                    /\ thread'[u].pc = thread[u].pc
                    /\ thread'[u].from = thread[u].from
                    /\ thread'[u].rights = thread[u].rights
                    /\ thread'[u].raced = TRUE
           /\ \A b \in Bases : objtable'[b] # objtable[b] =>
                 /\ objtable'[b] = None
                 /\ \A u \in Threads :
                       /\ thread'[u].pc \in {"scan", "fill"}
                       /\ thread'[u].obj = objtable[b]
                       => thread'[u].raced
<1>0. /\ Idle.pc = "idle"
      /\ \A u \in Threads : thread[u] \in Validations
  BY DEF Idle, TypeOK
<1>2. \A u \in Threads :
         LET m == [thread[u] EXCEPT !.raced = TRUE]
         IN  /\ SameCall(m, thread[u])
             /\ m.pc = thread[u].pc
             /\ m.from = thread[u].from
             /\ m.rights = thread[u].rights
             /\ m.raced = TRUE
  BY <1>0 DEF SameCall, Validations
<1>3. CASE UNCHANGED objtable /\ Return(t)
  BY <1>3 DEF Return, TypeOK
<1>4. CASE LET b == heap[thread[t].obj].base
           IN  /\ objtable' = [objtable EXCEPT ![b] = None]
               /\ thread' = [MarkRaced(objtable[b]) EXCEPT ![t] = Idle]
  <2> DEFINE b == heap[thread[t].obj].base
             m == MarkRaced(objtable[b])
             hit(u) == thread[u].pc \in {"scan", "fill"} /\ thread[u].obj = objtable[b]
  <2>1. \A u \in Threads : u # t => thread'[u] = m[u]
    BY <1>4 DEF MarkRaced
  <2>2. thread'[t] = Idle
    BY <1>4 DEF MarkRaced
  <2>3. \A d \in Bases : objtable'[d] # objtable[d] => d = b /\ objtable'[d] = None
    BY <1>4 DEF TypeOK
  <2>4. \A u \in Threads :
           m[u] = IF hit(u) THEN [thread[u] EXCEPT !.raced = TRUE] ELSE thread[u]
    BY DEF MarkRaced
  <2> HIDE DEF b, m
  <2>5. ASSUME NEW u \in Threads
        PROVE  IF hit(u)
               THEN /\ SameCall(m[u], thread[u])
                    /\ m[u].pc = thread[u].pc
                    /\ m[u].from = thread[u].from
                    /\ m[u].rights = thread[u].rights
                    /\ m[u].raced = TRUE
               ELSE m[u] = thread[u]
    BY <2>4, <1>2
  <2>6. ASSUME NEW u \in Threads, thread'[u].pc \in {"scan", "fill"},
               thread'[u].obj = objtable[b]
        PROVE  thread'[u].raced
    <3>1. u # t /\ thread'[u] = m[u]
      BY <2>1, <2>2, <2>6, <1>0
    <3>2. CASE hit(u)
      BY <3>1, <3>2, <2>5
    <3>3. CASE ~hit(u)
      BY <3>1, <3>3, <2>5, <2>6
    <3> QED
      BY <3>2, <3>3
  <2>7. ASSUME NEW u \in Threads, u # t
        PROVE  \/ thread'[u] = thread[u]
               \/ /\ SameCall(thread'[u], thread[u])
                  /\ thread[u].pc \in {"scan", "fill"}
                  /\ thread'[u].pc = thread[u].pc
                  /\ thread'[u].from = thread[u].from
                  /\ thread'[u].rights = thread[u].rights
                  /\ thread'[u].raced = TRUE
    BY <2>1, <2>5, <2>7
  <2> QED
    BY <2>2, <2>3, <2>6, <2>7
<1> QED
  BY <1>3, <1>4 DEF Delete

\* Filling a cell with a new object leaves alone every cell the object table
\* uses.
LEMMA CreateUsesFreeCell ==
    ASSUME TypeOK, NEW b \in Bases, NEW c \in Cells, NEW p \in Passwords,
           Create(b, c, p)
    PROVE  /\ \A d \in Cells : d # c => heap'[d] = heap[d]
           /\ heap'[c].base = b
           /\ objtable'[b] = c
           /\ \A d \in Bases : objtable[d] # None =>
                 objtable[d] # c /\ objtable'[d] = objtable[d]
  BY DEF Create, TypeOK

\* object_passwd keeps the base of every object.
LEMMA PasswdKeepsBases ==
    ASSUME TypeOK, UsedCells, NEW t \in Threads, NEW p \in Passwords,
           NEW mode \in UserModes, Passwd(t, p, mode)
    PROVE  \A d \in Cells : heap'[d].base = heap[d].base
<1>1. CASE heap' = heap
  BY <1>1
<1>2. ASSUME NEW info, heap' = [heap EXCEPT ![thread[t].obj].info = info]
      PROVE  \A d \in Cells : heap'[d].base = heap[d].base
  BY <1>2 DEF TypeOK
<1> QED
  BY <1>1, <1>2, PasswdHeap

LEMMA CellsStep == TypeOK /\ UsedCells /\ [Next]_vars => UsedCells'
<1> SUFFICES ASSUME TypeOK, UsedCells, [Next]_vars
             PROVE  UsedCells'
  OBVIOUS
<1>1. ASSUME NEW t \in Threads, NEW op \in Ops(t), NEW b \in Bases,
             NEW access \in Asks(op), Begin(t, op, b, access)
      PROVE  UsedCells'
  <2>1. UNCHANGED <<objtable, heap>>
    BY <1>1 DEF Begin, objVars
  <2>2. /\ \A u \in Threads : u # t => thread'[u] = thread[u]
        /\ \A s \in Slots : cache'[s] \in {cache[s], Empty}
    BY <1>1, BeginThreads
  <2>3. CASE thread'[t] = thread[t]
    BY <2>1, <2>2, <2>3 DEF UsedCells
  <2>4. ASSUME NEW s \in Slots, HitOn(t, b, access, s)
        PROVE  UsedCells'
    BY <2>1, <2>2, <2>4 DEF HitOn, UsedCells, Entries
  <2>5. CASE ScanOf(t, b)
    <3>1. /\ objtable[b] \in Cells
          /\ heap[objtable[b]].base = b
      BY <2>5 DEF ScanOf, TypeOK, UsedCells
    <3> QED
      BY <2>1, <2>2, <2>5, <3>1 DEF ScanOf, UsedCells
  <2> QED
    BY <1>1, <2>3, <2>4, <2>5, BeginThreads
<1>2. ASSUME NEW t \in Threads, Scan(t)
      PROVE  UsedCells'
  <2>1. \A u \in Threads :
           thread'[u].pc # "idle" => /\ thread[u].pc # "idle"
                                     /\ thread'[u].base = thread[u].base
                                     /\ thread'[u].obj = thread[u].obj
    BY <1>2, ScanThreads DEF Scan, SameCall, Idle
  <2> QED
    BY <1>2, <2>1 DEF Scan, UsedCells, objVars, cacheVars
<1>3. ASSUME NEW t \in Threads, Fill(t)
      PROVE  UsedCells'
  <2>1. \A u \in Threads :
           thread'[u].pc # "idle" => /\ thread[u].pc # "idle"
                                     /\ thread'[u].base = thread[u].base
                                     /\ thread'[u].obj = thread[u].obj
    BY <1>3, FillThreads DEF Fill, FillHalts, SameCall
  <2>2. \A s \in Slots : cache'[s] # Empty =>
           heap[cache'[s].obj].base \in Bases
    <3>1. CASE FillHalts(thread[t])
      BY <3>1 DEF FillHalts, UsedCells, cacheVars
    <3>2. ASSUME NEW s \in Slots, FillAdds(t, thread[t], s)
          PROVE  \A u \in Slots : cache'[u] # Empty =>
                    heap[cache'[u].obj].base \in Bases
      <4>1. heap[thread[t].obj].base \in Bases
        BY <1>3 DEF Fill, UsedCells
      <4>2. /\ cache'[s].obj = thread[t].obj
            /\ \A u \in Slots : u # s => cache'[u] = cache[u]
        BY <3>2, FillThreads
      <4> QED
        BY <4>1, <4>2 DEF UsedCells
    <3> QED
      BY <1>3, <3>1, <3>2 DEF Fill
  <2> QED
    BY <1>3, <2>1, <2>2 DEF Fill, UsedCells, objVars
<1>4. ASSUME NEW t \in Threads, LookupReturn(t) \/ FaultReturn(t)
      PROVE  UsedCells'
  <2>1. thread' = [thread EXCEPT ![t] = Idle] /\ UNCHANGED <<heap, objtable, cache>>
    BY <1>4 DEF LookupReturn, FaultReturn, Return, objVars, cacheVars
  <2>2. \A u \in Threads : thread'[u] = thread[u] \/ thread'[u].pc = "idle"
    BY <2>1 DEF Idle, TypeOK
  <2> QED
    BY <2>1, <2>2 DEF UsedCells
<1>5. ASSUME NEW t \in Threads, Delete(t)
      PROVE  UsedCells'
  <2>1. \A u \in Threads :
           thread'[u].pc # "idle" => /\ thread[u].pc # "idle"
                                     /\ thread'[u].base = thread[u].base
                                     /\ thread'[u].obj = thread[u].obj
    <3>0. thread'[t] = Idle
      BY <1>5, DeleteThreads
    <3>1. thread'[t].pc = "idle"
      BY <3>0 DEF Idle
    <3>2. \A u \in Threads : u # t =>
             \/ thread'[u] = thread[u]
             \/ /\ SameCall(thread'[u], thread[u])
                /\ thread[u].pc \in {"scan", "fill"}
      BY <1>5, DeleteThreads
    <3> QED
      BY <3>1, <3>2 DEF SameCall
  <2>2. \A b \in Bases : objtable'[b] \in {objtable[b], None}
    BY <1>5, DeleteThreads
  <2> QED
    BY <1>5, <2>1, <2>2 DEF Delete, UsedCells, cacheVars
<1>6. ASSUME NEW t \in Threads, NEW p \in Passwords, NEW mode \in UserModes,
             Passwd(t, p, mode)
      PROVE  UsedCells'
  <2>1. \A u \in Threads : thread'[u].pc # "idle" => thread'[u] = thread[u]
    BY <1>6 DEF Passwd, Return, TypeOK, Idle
  <2>2. \A d \in Cells : heap'[d].base = heap[d].base
    BY <1>6, PasswdKeepsBases
  <2>3. \A s \in Slots : cache[s] # Empty => cache[s].obj \in Cells
    BY DEF TypeOK, Entries
  <2>4. \A b \in Bases : objtable[b] # None => objtable[b] \in Cells
    BY DEF TypeOK
  <2> QED
    BY <1>6, <2>1, <2>2, <2>3, <2>4 DEF Passwd, UsedCells, cacheVars
<1>7. ASSUME NEW b \in Bases, NEW c \in Cells, NEW p \in Passwords,
             Create(b, c, p)
      PROVE  UsedCells'
  <2>1. \A s \in Slots : cache[s] # Empty => cache[s].obj \in Cells
    BY DEF TypeOK, Entries
  <2>2. UNCHANGED <<cache, thread>>
    BY <1>7 DEF Create, cacheVars
  <2>3. \A d \in Bases : objtable'[d] # None =>
           heap'[objtable'[d]].base = d
    BY <1>7, CreateUsesFreeCell DEF Create, UsedCells, TypeOK
  <2> QED
    BY <1>7, <2>1, <2>2, <2>3, CreateUsesFreeCell DEF UsedCells
<1>8. CASE Flush
  BY <1>8 DEF Flush, UsedCells, objVars
<1>9. ASSUME UNCHANGED <<objtable, heap, thread, cache>>
      PROVE  UsedCells'
  BY <1>9 DEF UsedCells
<1> QED
  BY <1>1, <1>2, <1>3, <1>4, <1>5, <1>6, <1>7, <1>8, <1>9
     DEF Next, AddCap, DropCap, Tick, vars, objVars, cacheVars

LEMMA LookingStep == TypeOK /\ UsedCells /\ Looking /\ [Next]_vars => Looking'
<1> SUFFICES ASSUME TypeOK, UsedCells, Looking, [Next]_vars
             PROVE  Looking'
  OBVIOUS
<1>1. ASSUME NEW t \in Threads, NEW op \in Ops(t), NEW b \in Bases,
             NEW access \in Asks(op), Begin(t, op, b, access)
      PROVE  Looking'
  <2>1. UNCHANGED <<objtable, heap>>
    BY <1>1 DEF Begin, objVars
  <2>2. \A u \in Threads : u # t => thread'[u] = thread[u]
    BY <1>1, BeginThreads
  <2>3. thread'[t].pc \in {"scan", "fill"} =>
           thread'[t] = thread[t] \/ ScanOf(t, b)
    BY <1>1, BeginThreads DEF HitOn
  <2>4. objtable[b] # None => heap[objtable[b]].base = b
    BY DEF UsedCells
  <2> QED
    BY <2>1, <2>2, <2>3, <2>4 DEF Looking, ScanOf
<1>2. ASSUME NEW t \in Threads, Scan(t)
      PROVE  Looking'
  <2>1. \/ thread'[t] = Idle
        \/ /\ SameCall(thread'[t], thread[t])
           /\ thread'[t].raced = thread[t].raced
    BY <1>2, ScanThreads
  <2>2. \A u \in Threads : u # t => thread'[u] = thread[u]
    BY <1>2, ScanThreads
  <2>3. UNCHANGED <<objtable, heap>> /\ thread[t].pc = "scan"
    BY <1>2 DEF Scan, objVars
  <2> QED
    BY <2>1, <2>2, <2>3 DEF Looking, SameCall, Idle
<1>3. ASSUME NEW t \in Threads, Fill(t)
      PROVE  Looking'
  <2>1. UNCHANGED <<objtable, heap>>
    BY <1>3 DEF Fill, objVars
  <2>2. CASE FillHalts(thread[t])
    BY <2>1, <2>2 DEF FillHalts, Looking
  <2>3. ASSUME NEW s \in Slots, FillAdds(t, thread[t], s)
        PROVE  Looking'
    <3>1. /\ thread'[t].pc = "granted"
          /\ \A u \in Threads : u # t => thread'[u] = thread[u]
      BY <2>3, FillThreads
    <3> QED
      BY <2>1, <3>1 DEF Looking
  <2> QED
    BY <1>3, <2>2, <2>3 DEF Fill
<1>4. ASSUME NEW t \in Threads, LookupReturn(t) \/ FaultReturn(t)
      PROVE  Looking'
  <2>1. /\ thread'[t] = Idle
        /\ \A u \in Threads : u # t => thread'[u] = thread[u]
    BY <1>4 DEF LookupReturn, FaultReturn, Return, TypeOK
  <2>2. UNCHANGED <<objtable, heap>>
    BY <1>4 DEF LookupReturn, FaultReturn, objVars
  <2> QED
    BY <2>1, <2>2 DEF Looking, Idle
<1>5. ASSUME NEW t \in Threads, Delete(t)
      PROVE  Looking'
  <2>1. thread'[t].pc = "idle"
    <3>1. thread'[t] = Idle
      BY <1>5, DeleteThreads
    <3> QED
      BY <3>1 DEF Idle
  <2>2. ASSUME NEW u \in Threads, u # t, thread'[u].pc \in {"scan", "fill"}
        PROVE  /\ ~thread'[u].cached
               /\ ~thread'[u].raced => thread'[u] = thread[u]
    <3>1. CASE thread'[u] = thread[u]
      BY <3>1, <2>2 DEF Looking
    <3>2. CASE /\ SameCall(thread'[u], thread[u])
               /\ thread[u].pc \in {"scan", "fill"}
               /\ thread'[u].raced = TRUE
      BY <3>2, <2>2 DEF Looking, SameCall
    <3> QED
      BY <1>5, <2>2, <3>1, <3>2, DeleteThreads
  <2>3. ASSUME NEW u \in Threads, u # t, thread'[u].pc \in {"scan", "fill"},
               ~thread'[u].raced
        PROVE  objtable'[heap[thread'[u].obj].base] = thread'[u].obj
    <3> DEFINE b == heap[thread[u].obj].base
    <3>1. thread'[u] = thread[u]
      BY <2>2, <2>3
    <3>2. /\ b \in Bases
          /\ objtable[b] = thread[u].obj
      BY <2>3, <3>1 DEF Looking, UsedCells
    <3> HIDE DEF b
    <3>3. objtable'[b] # objtable[b] => thread'[u].raced
      BY <1>5, <2>3, <3>1, <3>2, DeleteThreads
    <3> QED
      BY <2>3, <3>1, <3>2, <3>3 DEF b
  <2>4. heap' = heap
    BY <1>5 DEF Delete
  <2> QED
    BY <2>1, <2>2, <2>3, <2>4 DEF Looking
<1>6. ASSUME NEW t \in Threads, NEW p \in Passwords, NEW mode \in UserModes,
             Passwd(t, p, mode)
      PROVE  Looking'
  <2>1. \A u \in Threads : thread'[u].pc # "idle" => thread'[u] = thread[u]
    BY <1>6 DEF Passwd, Return, TypeOK, Idle
  <2>2. \A u \in Threads : thread[u].pc # "idle" =>
           heap'[thread[u].obj].base = heap[thread[u].obj].base
    BY <1>6, PasswdKeepsBases DEF UsedCells
  <2> QED
    BY <1>6, <2>1, <2>2 DEF Passwd, Looking
<1>7. ASSUME NEW b \in Bases, NEW c \in Cells, NEW p \in Passwords,
             Create(b, c, p)
      PROVE  Looking'
  <2> SUFFICES ASSUME NEW u \in Threads, thread[u].pc \in {"scan", "fill"}
               PROVE  /\ ~thread[u].cached
                      /\ ~thread[u].raced =>
                            objtable'[heap'[thread[u].obj].base] = thread[u].obj
    BY <1>7 DEF Create, Looking
  <2>1. /\ thread[u].obj \in Cells
        /\ heap[thread[u].obj].base \in Bases
    BY DEF UsedCells
  <2>2. ASSUME ~thread[u].raced
        PROVE  objtable'[heap'[thread[u].obj].base] = thread[u].obj
    <3>1. objtable[heap[thread[u].obj].base] = thread[u].obj
      BY <2>2 DEF Looking
    <3>2. thread[u].obj # None
      BY <2>1, ValidationAssumption
    <3>3. thread[u].obj # c
      BY <1>7, <2>1, <3>1, <3>2, CreateUsesFreeCell
    <3>4. heap'[thread[u].obj] = heap[thread[u].obj]
      BY <1>7, <2>1, <3>3, CreateUsesFreeCell
    <3>5. objtable'[heap[thread[u].obj].base] = thread[u].obj
      BY <1>7, <2>1, <3>1, <3>2, CreateUsesFreeCell
    <3> QED
      BY <3>4, <3>5
  <2> QED
    BY <2>2 DEF Looking
<1>8. ASSUME UNCHANGED <<objtable, heap, thread>>
      PROVE  Looking'
  BY <1>8 DEF Looking
<1> QED
  BY <1>1, <1>2, <1>3, <1>4, <1>5, <1>6, <1>7, <1>8
     DEF Next, Flush, AddCap, DropCap, Tick, vars, objVars

LEMMA FillingStep == TypeOK /\ UsedCells /\ Looking /\ Filling /\ [Next]_vars => Filling'
<1> SUFFICES ASSUME TypeOK, UsedCells, Looking, Filling, [Next]_vars
             PROVE  Filling'
  OBVIOUS
<1>1. ASSUME NEW t \in Threads, NEW op \in Ops(t), NEW b \in Bases,
             NEW access \in Asks(op), Begin(t, op, b, access)
      PROVE  Filling'
  <2>1. UNCHANGED <<heap, apd_lock, scanned>>
    BY <1>1 DEF Begin, objVars, history
  <2>2. \A u \in Threads : thread'[u].pc = "fill" => thread'[u] = thread[u]
    BY <1>1, BeginThreads DEF HitOn, ScanOf
  <2> QED
    BY <2>1, <2>2 DEF Filling
<1>2. ASSUME NEW t \in Threads, Scan(t)
      PROVE  Filling'
  <2>1. heap' = heap /\ apd_lock = None
    BY <1>2 DEF Scan, objVars
  <2>2. \A u \in Threads : u # t => thread'[u].pc # "fill"
    <3>1. \A u \in Threads : u # t => thread'[u] = thread[u]
      BY <1>2, ScanThreads
    <3>2. \A u \in Threads : thread[u].pc # "fill"
      BY <2>1, ValidationAssumption DEF Filling
    <3> QED
      BY <3>1, <3>2
  <2>3. CASE thread'[t] = Idle
    BY <2>2, <2>3 DEF Filling, Idle
  <2>4. CASE /\ SameCall(thread'[t], thread[t])
             /\ apd_lock' = t
             /\ thread'[t].from = heap[thread[t].obj].base
             /\ scanned' = scanned \cup
                   {<<thread'[t].from, thread'[t].rights>>}
    <3>1. heap[thread[t].obj].base \in Bases
      BY <1>2 DEF Scan, UsedCells
    <3>2. thread'[t].obj = thread[t].obj
      BY <2>4 DEF SameCall
    <3> QED
      BY <2>1, <2>2, <2>4, <3>1, <3>2 DEF Filling
  <2> QED
    BY <1>2, <2>3, <2>4, ScanThreads
<1>3. ASSUME NEW t \in Threads, Fill(t)
      PROVE  Filling'
  <2>1. UNCHANGED <<heap, scanned>>
    BY <1>3 DEF Fill, objVars
  <2>2. CASE FillHalts(thread[t])
    BY <2>1, <2>2 DEF FillHalts, Filling
  <2>3. ASSUME NEW s \in Slots, FillAdds(t, thread[t], s)
        PROVE  Filling'
    <3>1. /\ thread'[t].pc = "granted"
          /\ \A u \in Threads : u # t => thread'[u] = thread[u]
      BY <2>3, FillThreads
    <3>2. \A u \in Threads : thread[u].pc = "fill" => u = t
      BY <1>3 DEF Fill, Filling
    <3> QED
      BY <3>1, <3>2 DEF Filling
  <2> QED
    BY <1>3, <2>2, <2>3 DEF Fill
<1>4. ASSUME NEW t \in Threads, LookupReturn(t) \/ FaultReturn(t)
      PROVE  Filling'
  <2>1. /\ thread'[t] = Idle
        /\ \A u \in Threads : u # t => thread'[u] = thread[u]
    BY <1>4 DEF LookupReturn, FaultReturn, Return, TypeOK
  <2>2. UNCHANGED <<heap, apd_lock, scanned>>
    BY <1>4 DEF LookupReturn, FaultReturn, objVars, history
  <2> QED
    BY <2>1, <2>2 DEF Filling, Idle
<1>5. ASSUME NEW t \in Threads, Delete(t)
      PROVE  Filling'
  <2>1. UNCHANGED <<heap, apd_lock, scanned>>
    BY <1>5 DEF Delete, history
  <2>2. thread'[t] = Idle
    BY <1>5, DeleteThreads
  <2>3. ASSUME NEW u \in Threads, u # t, thread'[u].pc = "fill"
        PROVE  /\ thread[u].pc = "fill"
               /\ thread'[u].from = thread[u].from
               /\ thread'[u].rights = thread[u].rights
               /\ ~thread'[u].raced => thread'[u] = thread[u]
    BY <1>5, <2>3, DeleteThreads
  <2> QED
    BY <2>1, <2>2, <2>3 DEF Filling, Idle
<1>6. ASSUME NEW t \in Threads, NEW p \in Passwords, NEW mode \in UserModes,
             Passwd(t, p, mode)
      PROVE  Filling'
  <2>1. \A u \in Threads : thread'[u].pc # "idle" => thread'[u] = thread[u]
    BY <1>6 DEF Passwd, Return, TypeOK, Idle
  <2>2. \A u \in Threads : thread[u].pc # "idle" =>
           heap'[thread[u].obj].base = heap[thread[u].obj].base
    BY <1>6, PasswdKeepsBases DEF UsedCells
  <2> QED
    BY <1>6, <2>1, <2>2 DEF Passwd, Filling, history
<1>7. ASSUME NEW b \in Bases, NEW c \in Cells, NEW p \in Passwords,
             Create(b, c, p)
      PROVE  Filling'
  <2> SUFFICES ASSUME NEW u \in Threads, thread[u].pc = "fill", ~thread[u].raced
               PROVE  heap'[thread[u].obj] = heap[thread[u].obj]
    BY <1>7 DEF Create, Filling, history
  <2>1. /\ thread[u].obj \in Cells
        /\ heap[thread[u].obj].base \in Bases
        /\ objtable[heap[thread[u].obj].base] = thread[u].obj
    BY DEF UsedCells, Looking
  <2>2. thread[u].obj # None
    BY <2>1, ValidationAssumption
  <2>3. thread[u].obj # c
    BY <1>7, <2>1, <2>2, CreateUsesFreeCell
  <2> QED
    BY <1>7, <2>1, <2>3, CreateUsesFreeCell
<1>8. CASE Flush
  <2>1. \A u \in Threads : thread[u].pc # "fill"
    BY <1>8, ValidationAssumption DEF Flush, Filling
  <2> QED
    BY <1>8, <2>1 DEF Flush, Filling
<1>9. ASSUME UNCHANGED <<heap, thread, apd_lock, scanned>>
      PROVE  Filling'
  BY <1>9 DEF Filling
<1> QED
  BY <1>1, <1>2, <1>3, <1>4, <1>5, <1>6, <1>7, <1>8, <1>9
     DEF Next, AddCap, DropCap, Tick, vars, objVars, history

LEMMA PastStep == TypeOK /\ Past /\ [Next]_vars => Past'
<1> SUFFICES ASSUME TypeOK, Past, [Next]_vars
             PROVE  Past'
  OBVIOUS
<1>0. /\ now \in Nat
      /\ Idle.at = 0
      /\ Empty.stamp = 0
  BY DEF TypeOK, Idle, Empty
<1>1. ASSUME NEW t \in Threads, NEW op \in Ops(t), NEW b \in Bases,
             NEW access \in Asks(op), Begin(t, op, b, access)
      PROVE  Past'
  <2>1. now' = now
    BY <1>1 DEF Begin
  <2>2. \A s \in Slots : cache'[s] \in {cache[s], Empty}
    BY <1>1, BeginThreads
  <2>3. \A u \in Threads : thread'[u] = thread[u] \/ thread'[u].at = now
    BY <1>1, BeginThreads DEF HitOn, ScanOf
  <2> QED
    BY <1>0, <2>1, <2>2, <2>3 DEF Past
<1>2. ASSUME NEW t \in Threads, Scan(t)
      PROVE  Past'
  <2>1. \A u \in Threads : thread'[u] = Idle \/ thread'[u].at = thread[u].at
    BY <1>2, ScanThreads DEF SameCall
  <2>2. UNCHANGED <<now, cache>>
    BY <1>2 DEF Scan, cacheVars
  <2> QED
    BY <1>0, <2>1, <2>2 DEF Past
<1>3. ASSUME NEW t \in Threads, Fill(t)
      PROVE  Past'
  <2>1. now' = now
    BY <1>3 DEF Fill
  <2>2. CASE FillHalts(thread[t])
    BY <2>1, <2>2 DEF FillHalts, Past, cacheVars
  <2>3. ASSUME NEW s \in Slots, FillAdds(t, thread[t], s)
        PROVE  Past'
    <3>1. \A u \in Threads : thread'[u].at = thread[u].at
      BY <2>3, FillThreads DEF SameCall
    <3>2. \A u \in Slots : cache'[u] = cache[u] \/ cache'[u].stamp = now
      BY <2>3, FillThreads
    <3> QED
      BY <1>0, <2>1, <3>1, <3>2 DEF Past
  <2> QED
    BY <1>3, <2>2, <2>3 DEF Fill
<1>4. ASSUME NEW t \in Threads, LookupReturn(t) \/ FaultReturn(t)
      PROVE  Past'
  <2>1. thread' = [thread EXCEPT ![t] = Idle] /\ UNCHANGED <<now, cache>>
    BY <1>4 DEF LookupReturn, FaultReturn, Return, cacheVars
  <2>2. \A u \in Threads : thread'[u] = thread[u] \/ thread'[u] = Idle
    BY <2>1 DEF TypeOK
  <2> QED
    BY <1>0, <2>1, <2>2 DEF Past
<1>5. ASSUME NEW t \in Threads, Delete(t)
      PROVE  Past'
  <2>1. \A u \in Threads : thread'[u] = Idle \/ thread'[u].at = thread[u].at
    BY <1>5, DeleteThreads DEF SameCall
  <2>2. UNCHANGED <<now, cache>>
    BY <1>5 DEF Delete, cacheVars
  <2> QED
    BY <1>0, <2>1, <2>2 DEF Past
<1>6. ASSUME NEW t \in Threads, NEW p \in Passwords, NEW mode \in UserModes,
             Passwd(t, p, mode)
      PROVE  Past'
  BY <1>0, <1>6 DEF Passwd, Return, Past, TypeOK, cacheVars
<1>7. CASE Flush
  BY <1>0, <1>7 DEF Flush, Past
<1>8. CASE Tick
  <2>1. \A t \in Threads : thread[t].at \in Nat
    BY ValidationAssumption DEF TypeOK, Validations
  <2>2. \A s \in Slots : cache[s].stamp \in Nat
    BY <1>0, ValidationAssumption DEF TypeOK, Entries
  <2> QED
    BY <1>0, <1>8, <2>1, <2>2 DEF Tick, Past, cacheVars
<1>9. ASSUME UNCHANGED <<now, cache, thread>>
      PROVE  Past'
  BY <1>9 DEF Past
<1> QED
  BY <1>1, <1>2, <1>3, <1>4, <1>5, <1>6, <1>7, <1>8, <1>9
     DEF Next, Create, AddCap, DropCap, vars, cacheVars

\* Only Fill writes an entry, and only Fill records a validation.
LEMMA CacheOnlyShrinks ==
    ASSUME TypeOK, [Next]_vars,
           \A t \in Threads, s \in Slots :
              ~(Fill(t) /\ FillAdds(t, thread[t], s))
    PROVE  /\ \A s \in Slots : cache'[s] \in {cache[s], Empty}
           /\ filled' = filled
<1>1. ASSUME NEW t \in Threads, NEW op \in Ops(t), NEW b \in Bases,
             NEW access \in Asks(op), Begin(t, op, b, access)
      PROVE  /\ \A s \in Slots : cache'[s] \in {cache[s], Empty}
             /\ filled' = filled
  BY <1>1, BeginThreads DEF Begin, history
<1>2. ASSUME NEW t \in Threads, Fill(t)
      PROVE  UNCHANGED <<cache, filled>>
  BY <1>2 DEF Fill, FillHalts, cacheVars
<1>3. CASE Flush
  BY <1>3 DEF Flush
<1>4. ASSUME UNCHANGED <<cache, filled>>
      PROVE  /\ \A s \in Slots : cache'[s] \in {cache[s], Empty}
             /\ filled' = filled
  BY <1>4
<1> QED
  BY <1>1, <1>2, <1>3, <1>4
     DEF Next, Scan, LookupReturn, FaultReturn, Delete, Passwd, Create,
         AddCap, DropCap, Tick, vars, cacheVars, history

\* The values the history of validations takes.
LEMMA FilledValues ==
    ASSUME TypeOK
    PROVE  \A b \in Bases, mode \in Modes :
              filled[<<b, mode>>] \in Int /\ (filled[<<b, mode>>] # Never =>
                 filled[<<b, mode>>] \in Nat)
  BY ValidationAssumption DEF TypeOK, Never

LEMMA EntryFields ==
    ASSUME TypeOK, NEW s \in Slots, cache[s] # Empty
    PROVE  /\ cache[s].base \in Bases
           /\ cache[s].obj \in Cells
           /\ cache[s].rights \in SUBSET Rights
           /\ cache[s].rights \in Modes
           /\ cache[s].stamp \in Nat
           /\ cache[s].raced \in BOOLEAN
<1>1. cache[s] \in Entries
  BY DEF TypeOK
<1> QED
  BY <1>1, ValidationAssumption DEF Entries, Modes

\* When Fill adds an entry, the mode was read from the object of the entry.
LEMMA FillEntry ==
    ASSUME TypeOK, UsedCells, Filling, NEW t \in Threads, Fill(t),
           NEW s \in Slots, FillAdds(t, thread[t], s)
    PROVE  LET key == <<thread[t].from, thread[t].rights>>
           IN  /\ key \in Bases \X Modes
               /\ key \in scanned
               /\ ~cache'[s].raced => <<cache'[s].base, cache'[s].rights>> = key
               /\ filled' = [filled EXCEPT ![key] = now]
<1>1. thread[t].from \in Bases /\ thread[t].rights \in Modes
  <2>1. thread[t] \in Validations
    BY DEF TypeOK
  <2> QED
    BY <2>1 DEF Fill, Filling, Validations
<1>2. <<thread[t].from, thread[t].rights>> \in scanned
  BY DEF Fill, Filling
<1>3. ~cache'[s].raced =>
         /\ cache'[s].base = thread[t].from
         /\ cache'[s].rights = thread[t].rights
  BY FillThreads DEF Fill, Filling
<1>4. filled' = [filled EXCEPT ![<<thread[t].from, thread[t].rights>>] = now]
  BY DEF FillAdds
<1> QED
  BY <1>1, <1>2, <1>3, <1>4

LEMMA JustifiedStep ==
    TypeOK /\ UsedCells /\ Filling /\ Past /\ Validated /\ [Next]_vars
        => Validated'
<1> SUFFICES ASSUME TypeOK, UsedCells, Filling, Past, Validated,
                    [Next]_vars
             PROVE  Validated'
  OBVIOUS
<1>1. ASSUME NEW t \in Threads, Fill(t), NEW s \in Slots,
             FillAdds(t, thread[t], s)
      PROVE  Validated'
  <2> SUFFICES ASSUME NEW u \in Slots, cache'[u] # Empty, ~cache'[u].raced
               PROVE  filled'[<<cache'[u].base, cache'[u].rights>>]
                         >= cache'[u].stamp
    BY DEF Validated
  <2> DEFINE key == <<thread[t].from, thread[t].rights>>
  <2>1. /\ key \in Bases \X Modes
        /\ filled' = [filled EXCEPT ![key] = now]
        /\ ~cache'[s].raced => <<cache'[s].base, cache'[s].rights>> = key
    BY <1>1, FillEntry
  <2>2. now \in Nat
    BY ValidationAssumption DEF TypeOK
  <2> HIDE DEF key
  <2>3. CASE u = s
    <3>1. cache'[u].stamp = now
      BY <1>1, <2>3, FillThreads
    <3>2. filled'[key] = now
      BY <2>1 DEF TypeOK
    <3> QED
      BY <2>1, <2>2, <2>3, <3>1, <3>2
  <2>4. CASE u # s
    <3>1. cache'[u] = cache[u]
      BY <1>1, <2>4, FillThreads
    <3> DEFINE old == <<cache[u].base, cache[u].rights>>
    <3>2. old \in Bases \X Modes
      BY <3>1, EntryFields
    <3>3. filled[old] >= cache[u].stamp
      BY <3>1 DEF Validated
    <3>4. cache[u].stamp <= now /\ cache[u].stamp \in Nat
      BY <3>1, EntryFields DEF Past
    <3> HIDE DEF old
    <3>5. filled'[old] \in {filled[old], now}
      BY <2>1, <3>2 DEF TypeOK
    <3>6. filled'[old] >= cache[u].stamp
      BY <2>2, <3>3, <3>4, <3>5
    <3> QED
      BY <3>1, <3>6 DEF old
  <2> QED
    BY <2>3, <2>4
<1>2. CASE \A t \in Threads, s \in Slots :
              ~(Fill(t) /\ FillAdds(t, thread[t], s))
  <2>1. /\ \A s \in Slots : cache'[s] \in {cache[s], Empty}
        /\ filled' = filled
    BY <1>2, CacheOnlyShrinks
  <2> QED
    BY <2>1 DEF Validated
<1> QED
  BY <1>1, <1>2

LEMMA OutlivedStep ==
    TypeOK /\ Past /\ Outlived /\ [Next]_vars => Outlived'
<1> SUFFICES ASSUME TypeOK, Past, Outlived, [Next]_vars
             PROVE  Outlived'
  OBVIOUS
<1>1. ASSUME NEW t \in Threads, Fill(t), NEW s \in Slots, FillAdds(t, thread[t], s)
      PROVE  Outlived'
  <2>1. gone' = [gone EXCEPT ![s] = Never]
    BY <1>1 DEF FillAdds
  <2>2. \A u \in Slots : u # s => cache'[u] = cache[u]
    BY <1>1, FillThreads
  <2> QED
    BY <2>1, <2>2 DEF Outlived, TypeOK
<1>2. ASSUME NEW t \in Threads, Delete(t)
      PROVE  Outlived'
  <2>1. cache' = cache
    BY <1>2 DEF Delete, cacheVars
  <2>2. \A s \in Slots : gone'[s] = gone[s] \/ gone'[s] = now
    BY <1>2 DEF Delete, MarkGone
  <2> QED
    BY <2>1, <2>2 DEF Outlived, Past
<1>3. CASE /\ \A t \in Threads, s \in Slots : ~(Fill(t) /\ FillAdds(t, thread[t], s))
           /\ \A t \in Threads : ~Delete(t)
  <2>1. \A s \in Slots : cache'[s] \in {cache[s], Empty}
    BY <1>3, CacheOnlyShrinks
  <2>2. gone' = gone
    BY <1>3 DEF Next, Begin, Scan, Fill, FillHalts, LookupReturn, FaultReturn, Passwd, Create,
       Flush, AddCap, DropCap, Tick, vars, history
  <2> QED
    BY <2>1, <2>2 DEF Outlived
<1> QED
  BY <1>1, <1>2, <1>3

LEMMA ForgetsStep ==
    TypeOK /\ UsedCells /\ Filling /\ FlushForgets /\ [Next]_vars => FlushForgets'
<1> SUFFICES ASSUME TypeOK, UsedCells, Filling, FlushForgets, [Next]_vars
             PROVE  FlushForgets'
  OBVIOUS
<1>1. ASSUME NEW t \in Threads, Fill(t), NEW s \in Slots,
             FillAdds(t, thread[t], s)
      PROVE  FlushForgets'
  <2>1. ~cache'[s].raced => <<cache'[s].base, cache'[s].rights>> \in scanned
    BY <1>1, FillEntry
  <2>2. \A u \in Slots : u # s => cache'[u] = cache[u]
    BY <1>1, FillThreads
  <2>3. scanned' = scanned
    BY <1>1 DEF Fill
  <2> QED
    BY <2>1, <2>2, <2>3 DEF FlushForgets
<1>2. CASE Flush
  BY <1>2 DEF Flush, FlushForgets
<1>3. CASE /\ ~Flush
           /\ \A t \in Threads, s \in Slots :
                 ~(Fill(t) /\ FillAdds(t, thread[t], s))
  <2>1. \A s \in Slots : cache'[s] \in {cache[s], Empty}
    BY <1>3, CacheOnlyShrinks
  <2>2. scanned \subseteq scanned'
    <3>1. ASSUME NEW t \in Threads, Scan(t)
          PROVE  scanned \subseteq scanned'
      BY <3>1 DEF Scan, ScanAllowed, ScanRefused
    <3> QED
      BY <1>3, <3>1 DEF Next, Begin, Fill, LookupReturn, FaultReturn, Delete,
         Passwd, Create, AddCap, DropCap, Tick, vars, history
  <2> QED
    BY <2>1, <2>2 DEF FlushForgets
<1> QED
  BY <1>1, <1>2, <1>3

\* What HitJustified asks of one thread.
Granting(t) == thread[t].pc = "granted" /\ thread[t].cached /\ ~thread[t].raced

Witnessed(t, mode) ==
    /\ thread[t].access \subseteq mode
    /\ filled[<<thread[t].base, mode>>] # Never
    /\ thread[t].at - filled[<<thread[t].base, mode>>] <= VCACHE_TIMEOUT

\* A validation recorded now is recent enough for whoever asked before.
LEMMA WitnessedStep ==
    ASSUME TypeOK, Past, NEW t \in Threads, NEW mode \in SUBSET Rights,
           thread[t].base \in Bases, Witnessed(t, mode),
           SameCall(thread'[t], thread[t]),
           \/ filled' = filled
           \/ \E key \in Bases \X Modes : filled' = [filled EXCEPT ![key] = now]
    PROVE  Witnessed(t, mode)'
<1> DEFINE key == <<thread[t].base, mode>>
<1>1. key \in Bases \X Modes
  BY DEF Modes
<1>2. /\ filled[key] # Never
      /\ thread[t].at - filled[key] <= VCACHE_TIMEOUT
      /\ thread[t].access \subseteq mode
  BY DEF Witnessed
<1>3. /\ thread[t].at \in Nat
      /\ thread[t].at <= now
      /\ now \in Nat
      /\ VCACHE_TIMEOUT \in Nat
  <2>1. thread[t] \in Validations
    BY DEF TypeOK
  <2> QED
    BY <2>1, ValidationAssumption DEF TypeOK, Validations, Past
<1> HIDE DEF key
<1>4. filled'[key] \in {filled[key], now}
  BY <1>1 DEF TypeOK
<1>5. /\ filled'[key] # Never
      /\ thread[t].at - filled'[key] <= VCACHE_TIMEOUT
  BY <1>2, <1>3, <1>4 DEF Never
<1> QED
  BY <1>2, <1>5 DEF Witnessed, SameCall, key

LEMMA HitsStep ==
    TypeOK /\ UsedCells /\ Looking /\ Filling /\ Past /\ Validated
        /\ HitJustified /\ [Next]_vars => HitJustified'
<1> SUFFICES ASSUME TypeOK, UsedCells, Looking, Filling, Past, Validated,
                    HitJustified, [Next]_vars, NEW t \in Threads, Granting(t)'
             PROVE  \E mode \in SUBSET Rights : Witnessed(t, mode)'
  BY DEF HitJustified, Granting, Witnessed
<1>1. \/ filled' = filled
      \/ \E key \in Bases \X Modes : filled' = [filled EXCEPT ![key] = now]
  <2>1. ASSUME NEW u \in Threads, Fill(u), NEW s \in Slots,
               FillAdds(u, thread[u], s)
        PROVE  \E key \in Bases \X Modes : filled' = [filled EXCEPT ![key] = now]
    BY <2>1, FillEntry
  <2> QED
    BY <2>1, CacheOnlyShrinks
<1>2. ASSUME Granting(t), SameCall(thread'[t], thread[t])
      PROVE  \E mode \in SUBSET Rights : Witnessed(t, mode)'
  <2>1. PICK mode \in SUBSET Rights : Witnessed(t, mode)
    BY <1>2 DEF HitJustified, Granting, Witnessed
  <2>2. thread[t].base \in Bases
    BY <1>2 DEF Granting, UsedCells
  <2> QED
    BY <1>1, <1>2, <2>1, <2>2, WitnessedStep
<1>3. ASSUME NEW op \in Ops(t), NEW b \in Bases, NEW access \in Asks(op),
             Begin(t, op, b, access), NEW s \in Slots, HitOn(t, b, access, s)
      PROVE  \E mode \in SUBSET Rights : Witnessed(t, mode)'
  <2>1. ~cache[s].raced
    BY <1>3 DEF HitOn, Granting
  <2>2. /\ cache[s].rights \in SUBSET Rights
        /\ cache[s].rights \in Modes
        /\ cache[s].stamp \in Nat
    BY <1>3, EntryFields DEF HitOn
  <2> PICK mode \in SUBSET Rights : mode = cache[s].rights
    BY <2>2
  <2> DEFINE key == <<b, mode>>
  <2>3. filled[key] >= cache[s].stamp
    BY <1>3, <2>1 DEF HitOn, Validated
  <2>4. now - cache[s].stamp <= VCACHE_TIMEOUT
    BY <1>3, <2>2, ValidationAssumption DEF HitOn, Expired, TypeOK
  <2>5. filled[key] \in Int /\ now \in Nat /\ VCACHE_TIMEOUT \in Nat
    BY <2>2, FilledValues, ValidationAssumption DEF TypeOK
  <2>6. filled' = filled
    BY <1>3 DEF Begin, history
  <2> HIDE DEF key
  <2>7. /\ filled'[key] # Never
        /\ now - filled'[key] <= VCACHE_TIMEOUT
    BY <2>2, <2>3, <2>4, <2>5, <2>6 DEF Never
  <2>8. Witnessed(t, mode)'
    BY <1>3, <2>7 DEF HitOn, Witnessed, key
  <2> QED
    BY <2>8
<1>4. ASSUME NEW u \in Threads, NEW op \in Ops(u), NEW b \in Bases,
             NEW access \in Asks(op), Begin(u, op, b, access)
      PROVE  \E mode \in SUBSET Rights : Witnessed(t, mode)'
  <2>1. CASE thread'[t] = thread[t]
    BY <2>1, <1>2 DEF Granting, SameCall
  <2>2. CASE u = t /\ ScanOf(t, b)
    BY <2>2 DEF ScanOf, Granting
  <2> QED
    BY <1>3, <1>4, <2>1, <2>2, BeginThreads
<1>5. ASSUME NEW u \in Threads, Scan(u)
      PROVE  \E mode \in SUBSET Rights : Witnessed(t, mode)'
  <2>1. thread'[t] = thread[t]
    BY <1>5, ScanThreads DEF Granting, Idle
  <2> QED
    BY <2>1, <1>2 DEF Granting, SameCall
<1>6. ASSUME NEW u \in Threads, Fill(u)
      PROVE  \E mode \in SUBSET Rights : Witnessed(t, mode)'
  <2>1. CASE thread'[t] = thread[t]
    BY <2>1, <1>2 DEF Granting, SameCall
  <2>2. ASSUME u = t, NEW s \in Slots, FillAdds(t, thread[t], s)
        PROVE  FALSE
    <3>1. ~thread[t].cached
      BY <1>6, <2>2 DEF Fill, Looking
    <3> QED
      BY <2>2, <3>1, FillThreads DEF SameCall, Granting
  <2> QED
    BY <1>6, <2>1, <2>2, FillThreads DEF Fill, FillHalts
<1>7. ASSUME NEW u \in Threads, Delete(u)
      PROVE  \E mode \in SUBSET Rights : Witnessed(t, mode)'
  <2>1. thread'[t] = thread[t]
    <3>1. u # t
      <4>1. thread'[u] = Idle
        BY <1>7, DeleteThreads
      <4> QED
        BY <4>1 DEF Granting, Idle
    <3>2. thread'[t].pc \notin {"scan", "fill"}
      BY DEF Granting
    <3> QED
      BY <1>7, <3>1, <3>2, DeleteThreads
  <2> QED
    BY <2>1, <1>2 DEF Granting, SameCall
<1>8. ASSUME NEW u \in Threads, Return(u)
      PROVE  \E mode \in SUBSET Rights : Witnessed(t, mode)'
  <2>1. thread'[t] = thread[t]
    BY <1>8 DEF Return, Granting, Idle, TypeOK
  <2> QED
    BY <2>1, <1>2 DEF Granting, SameCall
<1>9. ASSUME UNCHANGED thread
      PROVE  \E mode \in SUBSET Rights : Witnessed(t, mode)'
  BY <1>9, <1>2 DEF Granting, SameCall
<1> QED
  BY <1>4, <1>5, <1>6, <1>7, <1>8, <1>9
     DEF Next, LookupReturn, FaultReturn, Passwd, Create, Flush, AddCap,
         DropCap, Tick, vars

-----------------------------------------------------------------------------
(* The theorems *)

LEMMA InitIInv == Init => IInv
<1> SUFFICES ASSUME Init PROVE IInv
  OBVIOUS
<1>1. TypeOK
  BY TypeInit
<1>2. /\ \A s \in Slots : cache[s] = Empty
      /\ \A t \in Threads : thread[t] = Idle
      /\ \A b \in Bases : objtable[b] = None
      /\ now = 0
  BY DEF Init
<1>3. Empty.stamp = 0 /\ Idle.pc = "idle" /\ Idle.at = 0
  BY DEF Empty, Idle
<1> QED
  BY <1>1, <1>2, <1>3 DEF IInv, UsedCells, Looking, Filling, Past,
     Validated, Outlived, HitJustified, FlushForgets

LEMMA StepIInv == IInv /\ [Next]_vars => IInv'
  BY TypeStep, CellsStep, LookingStep, FillingStep, PastStep, JustifiedStep,
     OutlivedStep, HitsStep, ForgetsStep DEF IInv

LEMMA Invariance == Spec => []IInv
<1> QED
  BY InitIInv, StepIInv, PTL DEF Spec

\* Every state the validation code reaches is well typed; in particular no
\* negative mode gets into the cache, whatever modes users register.
THEOREM TypeCorrect == Spec => []TypeOK
<1>1. IInv => TypeOK
  BY DEF IInv
<1> QED
  BY <1>1, Invariance, PTL

\* The age of a validation is bounded: what the cache grants was granted by a
\* full validation of an object at the same base at most VCACHE_TIMEOUT before,
\* unless the entry comes from a validation that raced with a deletion.
THEOREM HitsAreRecent == Spec => []HitJustified
<1>1. IInv => HitJustified
  BY DEF IInv
<1> QED
  BY <1>1, Invariance, PTL

\* After ApdFlush nothing read before it is in the cache, in spite of the
\* validations in flight, but for those that raced with a deletion.
THEOREM FlushIsFinal == Spec => []FlushForgets
<1>1. IInv => FlushForgets
  BY DEF IInv
<1> QED
  BY <1>1, Invariance, PTL

\* Entries outlive their object by VCACHE_TIMEOUT at most: object_delete leaves them, but
\* no hit makes one last longer.  Entries added after the deletion, by a validation that had
\* found the object before, are exempt.
THEOREM StaleGrantsExpire == Spec => OutlivesBriefly
<1> DEFINE A == \A t \in Threads :
          thread[t].pc = "idle" /\ thread'[t].pc = "granted"
              => LET s == last'
                 IN  ~cache[s].raced /\ gone[s] # Never => now - gone[s] <= VCACHE_TIMEOUT
<1>1. IInv /\ [Next]_vars => A
  <2> SUFFICES ASSUME IInv, [Next]_vars, NEW t \in Threads,
                      thread[t].pc = "idle", thread'[t].pc = "granted"
               PROVE  gone[last'] # Never => now - gone[last'] <= VCACHE_TIMEOUT
    OBVIOUS
  <2> USE DEF IInv
  <2>1. ASSUME NEW u \in Threads, NEW op \in Ops(u), NEW b \in Bases,
               NEW access \in Asks(op), Begin(u, op, b, access)
        PROVE  gone[last'] # Never => now - gone[last'] <= VCACHE_TIMEOUT
    <3>0. Call(op, b, access).base = b
      BY DEF Call, Idle
    <3>1. PICK call : call = Call(op, b, access)
      OBVIOUS
    <3>2. call.base \in Bases
      BY <3>0, <3>1
    <3>3. CASE \E s \in Slots : CacheHit(u, call, s)
      <4>1. PICK s \in Slots : CacheHit(u, call, s)
        BY <3>3
      <4>2. cache[s] \in Entries /\ cache[s] # Empty /\ ~Expired(cache[s])
        BY <3>2, <4>1, HitEntry
      <4>3. last' = s
        BY <4>1 DEF CacheHit
      <4>4. gone[s] # Never => cache[s].stamp <= gone[s] /\ gone[s] \in Nat
        BY <4>2, ValidationAssumption DEF Outlived, TypeOK
      <4>5. now - cache[s].stamp <= VCACHE_TIMEOUT /\ cache[s].stamp \in Nat /\ now \in Nat
        BY <4>2, ValidationAssumption DEF Expired, Entries, TypeOK
      <4> QED
        BY <4>3, <4>4, <4>5, ValidationAssumption
    <3>4. CASE CacheMiss(u, call)
      <4>1. thread'[t] = thread[t] \/ thread'[t].pc = "scan"
        <5>1. CASE thread' = thread
          BY <5>1
        <5>2. CASE thread' = [thread EXCEPT ![u] =
                       [call EXCEPT !.pc = "scan", !.obj = ObjectFind(call.base)]]
          <6>1. call \in Validations
            BY <3>1, CallType
          <6> QED
            BY <5>2, <6>1 DEF TypeOK, Validations
        <5> QED
          BY <3>4, <5>1, <5>2 DEF CacheMiss
      <4> QED
        BY <4>1
    <3> QED
      BY <2>1, <3>1, <3>3, <3>4 DEF Begin
  <2>2. ASSUME NEW u \in Threads, Scan(u) PROVE FALSE
    BY <2>2, ScanThreads DEF Idle
  <2>3. ASSUME NEW u \in Threads, Fill(u) PROVE FALSE
    <3>1. CASE FillHalts(thread[u])
      BY <3>1 DEF FillHalts
    <3>2. ASSUME NEW s \in Slots, FillAdds(u, thread[u], s) PROVE FALSE
      BY <2>3, <3>2, FillThreads DEF Fill
    <3> QED
      BY <2>3, <3>1, <3>2 DEF Fill
  <2>4. ASSUME NEW u \in Threads, Delete(u) PROVE FALSE
    <3>1. \A v \in Threads : thread'[v].pc = "idle" \/ thread'[v].pc = thread[v].pc
      <4>1. Idle.pc = "idle"
        BY DEF Idle
      <4>2. thread'[u] = Idle
        BY <2>4, DeleteThreads
      <4>3. \A v \in Threads : v # u => thread'[v].pc = thread[v].pc
        BY <2>4, DeleteThreads
      <4> QED
        BY <4>1, <4>2, <4>3
    <3> QED
      BY <3>1
  <2>5. ASSUME NEW u \in Threads, Return(u) PROVE FALSE
    BY <2>5 DEF Return, Idle, TypeOK
  <2>6. ASSUME thread' = thread PROVE FALSE
    BY <2>6
  <2> QED
    BY <2>1, <2>2, <2>3, <2>4, <2>5, <2>6
       DEF Next, LookupReturn, FaultReturn, Passwd, Create, Flush, AddCap, DropCap, Tick,
           vars
<1>2. Spec => [][A]_vars
  BY <1>1, Invariance, PTL DEF Spec
<1> QED
  BY <1>2 DEF OutlivesBriefly

\* A full cache loses one of its oldest entries, never a newer one.
THEOREM EvictionIsFair == Spec => EvictsOldest
<1> DEFINE A == \A s \in Slots :
          cache[s] # Empty /\ cache'[s] # cache[s] /\ cache'[s] # Empty =>
              \A u \in Slots : /\ cache[u] # Empty
                               /\ cache[s].stamp <= cache[u].stamp
<1>1. IInv /\ [Next]_vars => A
  <2> SUFFICES ASSUME TypeOK, [Next]_vars
               PROVE  A
    BY DEF IInv
  <2>1. ASSUME NEW t \in Threads, NEW s \in Slots, FillAdds(t, thread[t], s)
        PROVE  A
    <3>1. \A u \in Slots : u # s => cache'[u] = cache[u]
      BY <2>1, FillThreads
    <3>2. s \in VictimSlots
      BY <2>1 DEF FillAdds, First
    <3> QED
      BY <3>1, <3>2 DEF VictimSlots
  <2>2. CASE \A t \in Threads, s \in Slots :
                ~(Fill(t) /\ FillAdds(t, thread[t], s))
    BY <2>2, CacheOnlyShrinks
  <2> QED
    BY <2>1, <2>2
<1>2. Spec => [][A]_vars
  BY <1>1, Invariance, PTL DEF Spec
<1> QED
  BY <1>2 DEF EvictsOldest

=============================================================================
