----------------------------- MODULE Validation -----------------------------
(***************************************************************************)
(* Access validation: security.c, vcache.c, and the parts of objects.c,    *)
(* apd.c, syscalls.c and pager.c that call them, for one active protection *)
(* domain (APD).                                                           *)
(*                                                                         *)
(* Two kernel threads validate: the system call loop, before it acts on an *)
(* object, and mpager, on every page fault.  A validation is three steps,  *)
(* with no lock held between the first two:                                *)
(*   Begin  vcache_check and, on a miss, object_find                       *)
(*   Scan   the walk over the clists of the APD, which takes the APD lock  *)
(*   Fill   vcache_add and the release of the APD lock                     *)
(* What the caller then does with the object_t it got is a step of its own *)
(* (LookupReturn, FaultReturn, Delete, Passwd).                            *)
(*                                                                         *)
(* An object_t is a cell of the kernel heap.  kfree leaves its contents as *)
(* they are, so a pointer to a freed cell still reads the old object until *)
(* object_add takes the cell for another one.                              *)
(*                                                                         *)
(* The capabilities of all clists of the APD, in search order, are one     *)
(* sequence; module ApdSlots models the slots themselves.                  *)
(***************************************************************************)
EXTENDS PasswdSlots, Sequences

CONSTANTS Bases,            \* base addresses of objects
          Cells,            \* kernel heap cells that hold an object_t
          None,
          DESTROY,          \* M_DESTROY, the right object_delete needs
          VCACHE_SIZE,
          VCACHE_TIMEOUT,
          MaxTime,          \* bound: the clock stops here
          MaxClist,         \* bound: capabilities in the APD
          MaxCalls,         \* bound: validations
          UserModes         \* bound: modes that users register and look up

\* The kernel threads that validate.
Threads == {"syscall_loop", "mpager"}

ASSUME ValidationAssumption ==
    /\ None \notin Bases \cup Cells \cup Threads
    /\ DESTROY \in Rights
    /\ VCACHE_SIZE \in Nat \ {0}
    /\ VCACHE_TIMEOUT \in Nat
    /\ MaxTime \in Nat
    /\ MaxClist \in Nat
    /\ MaxCalls \in Nat
    /\ UserModes \subseteq Modes

Caps    == [base : Bases, passwd : Passwords]
Slots   == 0 .. VCACHE_SIZE - 1

VARIABLES
    now,        \* gettime()
    objtable,   \* the object table: base address -> object_t, or None
    heap,       \* contents of the cells, freed ones included
    clist,      \* the capabilities of the APD in search order
    cache,      \* vcache_t.cache_obj and .cache_inf
    last,       \* vcache_t.last
    apd_lock,   \* holder of apd_t.lock, or None
    thread,     \* where each kernel thread is in its validation
    calls,      \* validations so far (only to bound them)
    halted,     \* an assert failed: the kernel debugger has the machine
    scanned,    \* history: <<base, mode>> read by a scan since the last flush
    filled,     \* history: when a full validation last gave <<base, mode>>
    gone        \* history: when the object was deleted that the entry in a slot of
                \* the cache was made for

objVars   == <<objtable, heap>>
cacheVars == <<cache, last>>
history   == <<scanned, filled, gone>>

vars == <<now, objVars, clist, cacheVars, apd_lock, thread, calls, halted,
          history>>

-----------------------------------------------------------------------------
(* State *)

Never == -1
Empty == [base |-> None, obj |-> None, rights |-> {}, stamp |-> 0,
          raced |-> FALSE]

\* A cache entry.  "raced" is history: the object was deleted between the
\* object_find of the validation and the vcache_add that recorded it.
Entries == [base : Bases, obj : Cells, rights : SUBSET Rights,
            stamp : 0 .. MaxTime, raced : BOOLEAN]

\* A cell no object has used yet.
NoObject == [base |-> None, info |-> ZeroInfo]

\* A kernel thread.  "from", "raced", "cached" and "at" are history: the base
\* the scan read, as above, whether the access was granted by the cache, and
\* when.
Idle == [pc |-> "idle", op |-> None, base |-> None, access |-> {},
         obj |-> None, rights |-> {}, from |-> None, raced |-> FALSE,
         cached |-> FALSE, at |-> 0]

Validations == [pc     : {"idle", "scan", "fill", "granted"},
                op     : {None, "fault", "lookup", "delete", "passwd"},
                base   : Bases \cup {None},
                access : Modes,
                obj    : Cells \cup {None},
                rights : Modes,
                from   : Bases \cup {None},
                raced  : BOOLEAN,
                cached : BOOLEAN,
                at     : 0 .. MaxTime]

Ops(t) == IF t = "mpager" THEN {"fault"} ELSE {"lookup", "delete", "passwd"}

\* The access each caller asks for: pager.c handle_fault a single right,
\* sys_object_delete M_DESTROY, sys_object_passwd M_OWNER, and sys_apd_lookup
\* whatever the user passed as minrights.
Asks(op) ==
    CASE op = "fault"  -> {{r} : r \in Rights \ {DESTROY}}
      [] op = "delete" -> {{DESTROY}}
      [] op = "passwd" -> {OWNER}
      [] op = "lookup" -> UserModes

TypeOK ==
    /\ now \in 0 .. MaxTime
    /\ objtable \in [Bases -> Cells \cup {None}]
    /\ heap \in [Cells -> [base : Bases \cup {None}, info : Infos]]
    /\ clist \in Seq(Caps)
    /\ cache \in [Slots -> Entries \cup {Empty}]
    /\ last \in Slots
    /\ apd_lock \in Threads \cup {None}
    /\ thread \in [Threads -> Validations]
    /\ calls \in 0 .. MaxCalls
    /\ halted \in BOOLEAN
    /\ scanned \subseteq Bases \X Modes
    /\ filled \in [Bases \X Modes -> {Never} \cup 0 .. MaxTime]
    /\ gone \in [Slots -> {Never} \cup 0 .. MaxTime]

Init ==
    /\ now = 0
    /\ objtable = [b \in Bases |-> None]
    /\ heap = [c \in Cells |-> NoObject]
    /\ clist = <<>>
    /\ cache = [s \in Slots |-> Empty]
    /\ last = 0
    /\ apd_lock = None
    /\ thread = [t \in Threads |-> Idle]
    /\ calls = 0
    /\ halted = FALSE
    /\ scanned = {}
    /\ filled = [bm \in Bases \X Modes |-> Never]
    /\ gone = [s \in Slots |-> Never]

-----------------------------------------------------------------------------
(* The validation cache *)

\* Variant: one tick too late.
ExpiredLate(e) == now - e.stamp > VCACHE_TIMEOUT + 1

Expired(e) == now - e.stamp > VCACHE_TIMEOUT

\* check_entry: the entry covers the address, is young enough and strong enough.
CheckEntry(e, b, access) ==
    /\ e.base = b
    /\ ~Expired(e)
    /\ access \subseteq e.rights

\* The slots vcache_check may answer from: the last one hit if it matches, else
\* every match (the first of them is taken).
HitSlots(b, access) ==
    IF CheckEntry(cache[last], b, access) THEN {last}
    ELSE {s \in Slots : CheckEntry(cache[s], b, access)}

\* Variant: a look at an entry makes it young again.
CacheProbedRenewing(b, bound) ==
    [s \in Slots |-> IF cache[s].base # b THEN cache[s]
                     ELSE IF Expired(cache[s]) THEN Empty
                     ELSE [cache[s] EXCEPT !.stamp = now]]

\* check_entry clears each expired entry for the address it meets: the last one
\* hit, and the slots below the bound at which the search stopped.
CacheProbed(b, bound) ==
    [s \in Slots |-> IF /\ s = last \/ s < bound
                        /\ cache[s].base = b
                        /\ Expired(cache[s])
                     THEN Empty ELSE cache[s]]

\* Variant: with no slot empty, the newest ones.
VictimSlotsNewest ==
    LET free == {s \in Slots : cache[s] = Empty}
        new  == {s \in Slots : \A u \in Slots : cache[s].stamp >= cache[u].stamp}
    IN  IF free # {} THEN free ELSE new

\* The slots vcache_add may take (the first of them is): the empty ones, else
\* the oldest ones.
VictimSlots ==
    LET free == {s \in Slots : cache[s] = Empty}
        old  == {s \in Slots : \A u \in Slots : cache[s].stamp <= cache[u].stamp}
    IN  IF free # {} THEN free ELSE old

-----------------------------------------------------------------------------
(* A validation *)

\* object_find: the object table's entry for the address, or None.
ObjectFind(b) == objtable[b]

\* A validation that starts now.
Call(op, b, access) ==
    [Idle EXCEPT !.op = op, !.base = b, !.access = access, !.at = now]

\* vcache_check finds an entry: its object_t is returned.
CacheHit(t, call, s) ==
    /\ s \in First(HitSlots(call.base, call.access))
    /\ cache' = CacheProbed(call.base, IF s = last THEN 0 ELSE s)
    /\ last' = s
    /\ thread' = [thread EXCEPT ![t] =
          [call EXCEPT !.pc = "granted", !.cached = TRUE,
                       !.obj = cache[s].obj, !.raced = cache[s].raced]]

\* vcache_check finds none: the object is looked up, and its capabilities are
\* next; with no object at the address the call is over.
CacheMiss(t, call) ==
    /\ HitSlots(call.base, call.access) = {}
    /\ cache' = CacheProbed(call.base, VCACHE_SIZE)
    /\ UNCHANGED last
    /\ \/ /\ ObjectFind(call.base) = None
          /\ UNCHANGED thread
       \/ /\ ObjectFind(call.base) # None
          /\ thread' = [thread EXCEPT ![t] =
                [call EXCEPT !.pc = "scan", !.obj = ObjectFind(call.base)]]

\* validate_obj up to the cache and the object table.
Begin(t, op, b, access) ==
    /\ calls < MaxCalls
    /\ calls' = calls + 1
    /\ thread[t].pc = "idle"
    /\ \/ \E s \in Slots : CacheHit(t, Call(op, b, access), s)
       \/ CacheMiss(t, Call(op, b, access))
    /\ UNCHANGED <<now, objVars, clist, apd_lock, halted, history>>

\* The capabilities of the APD that decide the request on object o.
Deciding(o, access) ==
    {i \in DOMAIN clist :
        /\ clist[i].base = o.base
        /\ DecidingSlots(o.info, clist[i].passwd, access) # {}}

\* The mode in the slot that decides: one, or none.
DecidingModes(o, access) ==
    UNION {{o.info.slot[k].rights :
               k \in First(DecidingSlots(o.info, clist[i].passwd, access))} :
           i \in First(Deciding(o, access))}

\* do_validate_obj's walk over the clists, under the APD lock: the first
\* capability that decides allows the access.
ScanAllowed(t, o, mode) ==
    /\ Allows(mode, thread[t].access)
    /\ apd_lock' = t
    /\ thread' = [thread EXCEPT ![t] =
          [@ EXCEPT !.pc = "fill", !.rights = mode, !.from = o.base]]
    /\ scanned' = scanned \cup {<<o.base, mode>>}

\* No capability decides, or the first one that does is negative.
ScanRefused(t, o) ==
    /\ \A mode \in DecidingModes(o, thread[t].access) :
          Denies(mode, thread[t].access)
    /\ thread' = [thread EXCEPT ![t] = Idle]
    /\ UNCHANGED <<apd_lock, scanned>>

Scan(t) ==
    /\ thread[t].pc = "scan"
    /\ apd_lock = None
    /\ LET o == heap[thread[t].obj]
       IN  \/ \E mode \in DecidingModes(o, thread[t].access) :
                 ScanAllowed(t, o, mode)
           \/ ScanRefused(t, o)
    /\ UNCHANGED <<now, calls, objVars, clist, cacheVars, halted, filled, gone>>

\* Variant: without the assertion.
FillAddsUnasserted(t, call, s) ==
    /\ s \in First(VictimSlots)
    /\ cache' = [cache EXCEPT ![s] =
          [base |-> heap[call.obj].base, obj |-> call.obj,
           rights |-> call.rights, stamp |-> now, raced |-> call.raced]]
    /\ last' = s
    /\ apd_lock' = None
    /\ filled' = [filled EXCEPT ![<<call.from, call.rights>>] = now]
    /\ gone' = [gone EXCEPT ![s] = Never]
    /\ thread' = [thread EXCEPT ![t].pc = "granted"]
    /\ UNCHANGED halted

\* vcache_add, then the APD lock is released and the object_t returned.  The
\* range of the entry is read from the object_t now.
FillAdds(t, call, s) ==
    /\ NOT \notin call.rights
    /\ s \in First(VictimSlots)
    /\ cache' = [cache EXCEPT ![s] =
          [base |-> heap[call.obj].base, obj |-> call.obj,
           rights |-> call.rights, stamp |-> now, raced |-> call.raced]]
    /\ last' = s
    /\ apd_lock' = None
    /\ filled' = [filled EXCEPT ![<<call.from, call.rights>>] = now]
    /\ gone' = [gone EXCEPT ![s] = Never]
    /\ thread' = [thread EXCEPT ![t].pc = "granted"]
    /\ UNCHANGED halted

\* The mode is asserted not to be negative.
FillHalts(call) ==
    /\ NOT \in call.rights
    /\ halted' = TRUE
    /\ UNCHANGED <<cacheVars, apd_lock, thread, filled, gone>>

Fill(t) ==
    /\ thread[t].pc = "fill"
    /\ FillHalts(thread[t]) \/ \E s \in Slots : FillAdds(t, thread[t], s)
    /\ UNCHANGED <<now, calls, objVars, clist, scanned>>

-----------------------------------------------------------------------------
(* What the callers do with the object they were given *)

Return(t) == thread' = [thread EXCEPT ![t] = Idle]

Granted(t, op) == thread[t].pc = "granted" /\ thread[t].op = op

\* sys_apd_lookup hands the address of the capability back; handle_fault goes
\* on to map the page.
LookupReturn(t) ==
    /\ Granted(t, "lookup")
    /\ Return(t)
    /\ UNCHANGED <<now, calls, objVars, clist, cacheVars, apd_lock,
                   halted, history>>
FaultReturn(t) ==
    /\ Granted(t, "fault")
    /\ Return(t)
    /\ UNCHANGED <<now, calls, objVars, clist, cacheVars, apd_lock,
                   halted, history>>

\* Threads between object_find and vcache_add whose object_t is freed are
\* marked.
MarkRaced(c) ==
    [u \in Threads |-> IF thread[u].pc \in {"scan", "fill"} /\ thread[u].obj = c
                       THEN [thread[u] EXCEPT !.raced = TRUE]
                       ELSE thread[u]]

\* The entries of the cache that were made for the object in cell c: they stay.
MarkGone(c) ==
    [s \in Slots |-> IF cache[s].obj = c /\ gone[s] = Never THEN now ELSE gone[s]]

\* sys_object_delete: object_delete of the base address found in the object_t.
Delete(t) ==
    /\ Granted(t, "delete")
    /\ LET b == heap[thread[t].obj].base
       IN  \/ /\ objtable[b] # None
              /\ objtable' = [objtable EXCEPT ![b] = None]
              /\ thread' = [MarkRaced(objtable[b]) EXCEPT ![t] = Idle]
              /\ gone' = MarkGone(objtable[b])
           \/ /\ objtable[b] = None
              /\ UNCHANGED <<objtable, gone>>
              /\ Return(t)
    /\ UNCHANGED <<now, calls, heap, clist, cacheVars, apd_lock, halted,
                   scanned, filled>>

\* sys_object_passwd: object_passwd on the object_t; no lock is taken.
Passwd(t, p, mode) ==
    /\ Granted(t, "passwd")
    /\ LET after == PasswdSet(heap[thread[t].obj].info, p, mode)
       IN  \/ \E info \in after :
                 heap' = [heap EXCEPT ![thread[t].obj].info = info]
           \/ after = {} /\ UNCHANGED heap
    /\ Return(t)
    /\ UNCHANGED <<now, calls, objtable, clist, cacheVars, apd_lock,
                   halted, history>>

-----------------------------------------------------------------------------
(* System calls that validate nothing, the users and the clock *)

\* sys_object_create: kmalloc_obj finds unused address space, object_add takes
\* a free cell (perhaps one that an earlier object left) and enters it.
Create(b, c, p) ==
    /\ thread["syscall_loop"].pc = "idle"
    /\ objtable[b] = None
    /\ \A d \in Bases : objtable[d] # c
    /\ heap' = [heap EXCEPT ![c] = [base |-> b,
                                 info |-> AddedInfo(heap[c].info, p)]]
    /\ objtable' = [objtable EXCEPT ![b] = c]
    /\ UNCHANGED <<now, calls, clist, cacheVars, apd_lock, thread, halted,
                   history>>

\* Variant: the cache is flushed without the APD lock.
FlushUnlocked ==
    /\ thread["syscall_loop"].pc = "idle"
    /\ cache' = [s \in Slots |-> Empty]
    /\ last' = 0
    /\ scanned' = {}
    /\ UNCHANGED <<now, calls, objVars, clist, apd_lock, thread, halted,
                   filled, gone>>

\* sys_apd_flush: vcache_flush under the APD lock.
Flush ==
    /\ thread["syscall_loop"].pc = "idle"
    /\ apd_lock = None
    /\ cache' = [s \in Slots |-> Empty]
    /\ last' = 0
    /\ scanned' = {}
    /\ UNCHANGED <<now, calls, objVars, clist, apd_lock, thread, halted,
                   filled, gone>>

\* A clist is user memory: its owner adds and removes capabilities with plain
\* stores, whatever the kernel is doing.
AddCap(cap) ==
    /\ Len(clist) < MaxClist
    /\ clist' = Append(clist, cap)
    /\ UNCHANGED <<now, calls, objVars, cacheVars, apd_lock, thread,
                   halted, history>>
DropCap ==
    /\ clist # <<>>
    /\ clist' = Tail(clist)
    /\ UNCHANGED <<now, calls, objVars, cacheVars, apd_lock, thread,
                   halted, history>>

Tick ==
    /\ now < MaxTime
    /\ now' = now + 1
    /\ UNCHANGED <<calls, objVars, clist, cacheVars, apd_lock, thread,
                   halted, history>>

-----------------------------------------------------------------------------
Next ==
    /\ ~halted
    /\ \/ \E t \in Threads :
             \/ \E op \in Ops(t), b \in Bases : \E access \in Asks(op) :
                   Begin(t, op, b, access)
             \/ Scan(t)
             \/ Fill(t)
             \/ LookupReturn(t)
             \/ FaultReturn(t)
             \/ Delete(t)
             \/ \E p \in Passwords, mode \in UserModes : Passwd(t, p, mode)
       \/ \E b \in Bases, c \in Cells, p \in Passwords : Create(b, c, p)
       \/ Flush
       \/ \E cap \in Caps : AddCap(cap)
       \/ DropCap
       \/ Tick

Spec == Init /\ [][Next]_vars

-----------------------------------------------------------------------------
(* Properties *)

\* The system guarantees that no validation is cached for more than a certain
\* time: an access granted by the cache was also granted by a full validation,
\* of an object at the same base, that ended at most VCACHE_TIMEOUT earlier,
\* however often the entry was hit.  Entries made by validations that raced with
\* a deletion are exempt.
HitJustified ==
    \A t \in Threads :
        /\ thread[t].pc = "granted"
        /\ thread[t].cached
        /\ ~thread[t].raced
        => \E mode \in SUBSET Rights :
              /\ thread[t].access \subseteq mode
              /\ filled[<<thread[t].base, mode>>] # Never
              /\ thread[t].at - filled[<<thread[t].base, mode>>]
                    <= VCACHE_TIMEOUT

\* ApdFlush: whatever is in the cache was read from the object's passwords by a
\* scan that came after the last flush; no validation in flight on the other
\* thread carries an older answer across it.
FlushForgets ==
    \A s \in Slots :
        cache[s] # Empty /\ ~cache[s].raced =>
            <<cache[s].base, cache[s].rights>> \in scanned

\* object_delete leaves the entries for the object in the cache, where they answer for
\* whatever is created at its address next: no longer, though, than VCACHE_TIMEOUT after
\* the deletion, however often they are hit.  Entries that were added after the deletion,
\* by a validation that had found the object before, are exempt.
OutlivesBriefly ==
    [][\A t \in Threads :
          thread[t].pc = "idle" /\ thread'[t].pc = "granted"
              => LET s == last'
                 IN  ~cache[s].raced /\ gone[s] # Never => now - gone[s] <= VCACHE_TIMEOUT
      ]_vars

\* vcache_add overwrites an entry only when no slot is empty, and then one of
\* the oldest.
EvictsOldest ==
    [][\A s \in Slots :
          cache[s] # Empty /\ cache'[s] # cache[s] /\ cache'[s] # Empty =>
              \A u \in Slots : /\ cache[u] # Empty
                               /\ cache[s].stamp <= cache[u].stamp]_vars

=============================================================================
