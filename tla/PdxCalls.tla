------------------------------ MODULE PdxCalls ------------------------------
(***************************************************************************)
(* The protection domains (APDs) that procedures of other domains run in:  *)
(* sys_pdx_call, the table of APDs made for such calls (apd.c), the cache  *)
(* of calls that were validated (pdxcache.c), and the use counts that keep *)
(* an APD until its last thread has ended (apd_close, thread_release).     *)
(*                                                                         *)
(* The system call loop handles one request at a time, in the steps of     *)
(* req; mpager may kill a thread between two of them.  Each PD object has  *)
(* a bucket of apd_table of its own.                                       *)
(*                                                                         *)
(* The model stops when an assert fails, when a thread is given a          *)
(* structure of another APD, and when a validation cache is freed that     *)
(* another APD still uses.                                                 *)
(***************************************************************************)
EXTENDS Integers, FiniteSets

CONSTANTS Blocks,          \* heap blocks that hold an apd_t
          Structs,         \* mthread_t structures
          Procs, Clists,   \* PDX procedures, the Clists that extend a domain
          Pds,             \* PD objects
          Merge, Empty,    \* PD_MERGE, PD_EMPTY
          Home,            \* the APD of the first threads
          Root, Child,     \* the first threads
          None,
          TableSize,       \* APD_PDX_CACHE_SIZE
          Buckets,         \* 0 .. PDXCACHE_SIZE - 1
          Hash(_, _, _),   \* the bucket of a caller's APD, a procedure and a PD
          Timeout,         \* APD_PDX_CACHE_TIMEOUT
          MaxTime,         \* bound of the clock
          MaxSerial,       \* bound of apd_serial
          MaxFaults        \* bound of threads that end without returning, and of
                           \* threads that cannot be created

ASSUME PdxAssumption ==
    /\ IsFiniteSet(Structs)
    /\ None \notin Blocks \cup Structs \cup Procs \cup Clists \cup Pds
    /\ Home \in Blocks
    /\ {Root, Child} \subseteq Structs /\ Root # Child
    /\ {Merge, Empty} \cap Pds = {} /\ Merge # Empty
    /\ TableSize \in Nat \ {0}
    /\ \A b \in Blocks, p \in Procs, pd \in Pds \cup {Merge, Empty} :
           Hash(b, p, pd) \in Buckets
    /\ {Timeout, MaxTime, MaxFaults} \subseteq Nat
    /\ MaxSerial \in Nat \ {0}

VARIABLES
    live,        \* the blocks that are allocated
    apd,         \* their contents
    apd_table,   \* the APDs that PDs were instantiated as
    table,       \* apd_pdx_cache.table
    pdx_cache,
    thread,      \* the structures
    registered,  \* the Clist registered for a procedure in its object
    req,         \* the PdxCall in progress
    apd_serial, now,
    faults,      \* threads that ended without returning, creations that failed
    lost,        \* history: APDs whose entry in the table was overwritten
    stop         \* why the model stopped

vars == <<live, apd, apd_table, table, pdx_cache, thread, registered, req,
          apd_serial, now, faults, lost, stop>>

PdArgs    == Pds \cup {Merge, Empty}
Positions == 1 .. TableSize
Serials   == 0 .. MaxSerial

\* apd_t.  extra is history: the users that no thread accounts for.  held counts the
\* entries of l4_threads that are never given back; vcache is the serial of the APD
\* that the cache was made for; orig and clist are what a domain was merged from.
Apds == [serial : Serials, users : Nat, closing : BOOLEAN, pool : Structs \cup {None},
         vcache : Serials, held : Nat, orig : Blocks \cup {None},
         clist : Clists \cup {None}, extra : Nat]

\* mthread_t with its apd_thread_t: home is the APD of its L4 task, in_apd (history)
\* the one its call was to run in.
ThreadStates == {"unused", "run", "call", "zombie", "pooled", "freed"}

Threads == [state : ThreadStates, home : Blocks, in_apd : Blocks \cup {None},
            parent : Structs \cup {None}, pdx : BOOLEAN, next : Structs \cup {None}]

Entries == [orig : Blocks \cup {None}, clist : Clists \cup {None},
            apd : Blocks \cup {None}, timestamp : 0 .. MaxTime]

\* struct pdxcache_entry.  verified and outlived are history: the time of the
\* validation, and whether the procedure's object was deleted since.
CachedCalls == [src : Blocks \cup {None}, proc : Procs \cup {None},
                pd : PdArgs \cup {None}, pos : Positions, serial : Serials,
                verified : 0 .. MaxTime, outlived : BOOLEAN]

Steps == {"none", "find", "search", "make", "insert", "start"}

Requests == [step : Steps, caller : Structs \cup {None}, src : Blocks \cup {None},
             proc : Procs \cup {None}, pd : PdArgs \cup {None},
             orig : Blocks \cup {None}, apd : Blocks \cup {None},
             fast : BOOLEAN]

TypeOK ==
    /\ live \subseteq Blocks
    /\ apd \in [Blocks -> Apds]
    /\ apd_table \in [Pds -> Blocks \cup {None}]
    /\ table \in [Positions -> Entries]
    /\ pdx_cache \in [Buckets -> CachedCalls]
    /\ thread \in [Structs -> Threads]
    /\ registered \in [Procs -> Clists \cup {None}]
    /\ req \in Requests
    /\ apd_serial \in Serials /\ now \in 0 .. MaxTime
    /\ faults \in 0 .. MaxFaults
    /\ lost \subseteq Blocks
    /\ stop \in {"no", "assertion", "shared", "vcache"}

Blank == [serial |-> 0, users |-> 0, closing |-> FALSE, pool |-> None, vcache |-> 0,
          held |-> 0, orig |-> None, clist |-> None, extra |-> 0]

NoEntry == [orig |-> None, clist |-> None, apd |-> None, timestamp |-> 0]
NoCall  == [src |-> None, proc |-> None, pd |-> None, pos |-> 1, serial |-> 0,
            verified |-> 0, outlived |-> FALSE]
Idle    == [step |-> "none", caller |-> None, src |-> None, proc |-> None, pd |-> None,
            orig |-> None, apd |-> None, fast |-> FALSE]

Unused == [state |-> "unused", home |-> Home, in_apd |-> None, parent |-> None,
           pdx |-> FALSE, next |-> None]

\* A thread and its child in one APD, and no procedure registered.
Init ==
    /\ live = {Home}
    /\ apd = [b \in Blocks |-> IF b = Home THEN [Blank EXCEPT !.users = 2] ELSE Blank]
    /\ apd_table = [pd \in Pds |-> None]
    /\ table = [i \in Positions |-> NoEntry]
    /\ pdx_cache = [h \in Buckets |-> NoCall]
    /\ thread = [s \in Structs |->
           IF s = Root THEN [Unused EXCEPT !.state = "run"]
           ELSE IF s = Child THEN [Unused EXCEPT !.state = "run", !.parent = Root]
           ELSE Unused]
    /\ registered = [p \in Procs |-> None]
    /\ req = Idle
    /\ apd_serial = 1
    /\ now = 0
    /\ faults = 0
    /\ lost = {}
    /\ stop = "no"

-----------------------------------------------------------------------------
(* Closing an APD *)

\* The pool of free threads: those that its head leads to along next.
PoolFrom(head, th) ==
    LET holds(S) == /\ head \in S \cup {None}
                    /\ \A s \in S : th[s].next \in S \cup {None}
    IN  {s \in Structs : \A S \in SUBSET Structs : holds(S) => s \in S}

\* apd_pdx_cache_remove: nothing looks at the rest of an entry without APD.
Removed(a) == [i \in Positions |-> IF table[i].apd = a
                                   THEN NoEntry ELSE table[i]]

\* Variant: the entries of an APD that is closed stay.
TableKept(a) == table

\* apd_close takes an APD out of the table unless it did so before.
TableWithout(a) == IF apd[a].closing THEN table ELSE Removed(a)

\* Another APD has the same validation cache: apd_clone copies the pointer.
SharesVcache(a, v) == \E b \in live \ {a} : apd[b].vcache = v

\* apd_close frees the APD a that nobody uses: ap and th are its state and the
\* threads' at that point.  task_release asserts that every L4 thread was given back.
\* The table of PDs does not change: an APD that is closed, and is in a bucket of it,
\* is a copy of the one that belongs there and shares its validation cache.
Frees(a, ap, th) ==
    /\ live' = live \ {a}
    /\ apd' = [apd EXCEPT ![a] = Blank]
    /\ thread' = [s \in Structs |-> IF s \in PoolFrom(ap.pool, th)
                                     THEN [Unused EXCEPT !.state = "freed"] ELSE th[s]]
    /\ stop' = IF ap.held # 0 THEN "assertion"
               ELSE IF SharesVcache(a, ap.vcache) THEN "vcache" ELSE "no"

\* apd_close, called with users as they are.
Closes(a) ==
    IF apd[a].users # 0
    THEN /\ apd' = [apd EXCEPT ![a].closing = TRUE]
         /\ UNCHANGED <<live, thread, stop>>
    ELSE Frees(a, apd[a], thread)

\* Variant: the last thread of an APD that is closing does not free it.
ReleasesOnly(s, th) ==
    LET a == thread[s].home
    IN  /\ apd' = [apd EXCEPT ![a].pool = s, ![a].users = @ - 1]
        /\ thread' = [th EXCEPT ![s] = [Unused EXCEPT !.state = "pooled", !.home = a,
                                                      !.next = apd[a].pool]]
        /\ UNCHANGED <<live, stop>>

\* thread_release: the structure goes to the pool of its task's APD.  The table
\* keeps an entry that apd_close finds marked as closing.
Releases(s, th) ==
    LET a      == thread[s].home
        pooled == [th EXCEPT ![s] = [Unused EXCEPT !.state = "pooled", !.home = a,
                                                   !.next = apd[a].pool]]
        left   == [apd[a] EXCEPT !.pool = s, !.users = @ - 1]
    IN  IF left.closing /\ left.users = 0
        THEN Frees(a, left, pooled)
        ELSE /\ apd' = [apd EXCEPT ![a] = left]
             /\ thread' = pooled
             /\ UNCHANGED <<live, stop>>

-----------------------------------------------------------------------------
(* PdxCall *)

Expired(t) == now - t > Timeout

\* Variant: the timeout of the table is not looked at.
IdHoldsForEver(e) ==
    LET ent == table[e.pos]
    IN  ent.apd # None /\ apd[ent.apd].serial = e.serial

\* Variant: the position is trusted, whatever APD is there by now.
IdIgnoresSerial(e) ==
    LET ent == table[e.pos]
    IN  ent.apd # None /\ ~Expired(ent.timestamp)

\* apd_pdx_cache_check_id.
IdHolds(e) ==
    LET ent == table[e.pos]
    IN  /\ ent.apd # None
        /\ ~Expired(ent.timestamp)
        /\ apd[ent.apd].serial = e.serial

\* pdxcache_lookup.
Cached(src, p, pd) ==
    LET e == pdx_cache[Hash(src, p, pd)]
    IN  /\ e.src = src /\ e.proc = p /\ e.pd = pd
        /\ IdHolds(e)

\* pdxcache_add.
Adds(pos, serial) ==
    pdx_cache' = [pdx_cache EXCEPT ![Hash(req.src, req.proc, req.pd)] =
        [src |-> req.src, proc |-> req.proc, pd |-> req.pd, pos |-> pos, serial |-> serial,
         verified |-> now, outlived |-> FALSE]]

\* sys_pdx_call: a call that was validated before goes on at once.  Any other is
\* validated; one that fails has no effect.
Call(c, p, pd) ==
    LET src  == thread[c].home
        made == [Idle EXCEPT !.caller = c, !.src = src, !.proc = p, !.pd = pd]
    IN  /\ stop = "no" /\ req = Idle /\ thread[c].state = "run"
        /\ \/ /\ Cached(src, p, pd)
              /\ req' = [made EXCEPT !.step = "start", !.fast = TRUE,
                             !.apd = table[pdx_cache[Hash(src, p, pd)].pos].apd]
           \/ /\ ~Cached(src, p, pd)
              /\ registered[p] # None
              /\ req' = [made EXCEPT !.step = IF pd \in Pds THEN "find" ELSE "search",
                                     !.orig = IF pd = Merge THEN src ELSE None]
        /\ thread' = [thread EXCEPT ![c].state = "call"]
        /\ UNCHANGED <<live, apd, apd_table, table, pdx_cache, registered, apd_serial,
                       now, faults, lost, stop>>

\* sys_pdx_call fails and the caller goes on.
Fails == /\ req' = Idle
         /\ thread' = [thread EXCEPT ![req.caller].state = "run"]

\* apd_find_or_create.
FindPd ==
    /\ stop = "no" /\ req.step = "find"
    /\ LET a == apd_table[req.pd]
       IN  \/ /\ a # None
              /\ req' = [req EXCEPT !.step = "search", !.orig = a]
              /\ UNCHANGED <<live, apd, apd_table, thread, apd_serial>>
           \/ /\ a = None
              /\ \E b \in Blocks \ live :
                    /\ apd_serial < MaxSerial
                    /\ live' = live \cup {b}
                    /\ apd' = [apd EXCEPT ![b] =
                           [Blank EXCEPT !.serial = apd_serial, !.vcache = apd_serial]]
                    /\ apd_table' = [apd_table EXCEPT ![req.pd] = b]
                    /\ apd_serial' = apd_serial + 1
                    /\ req' = [req EXCEPT !.step = "search", !.orig = b]
              /\ UNCHANGED thread
           \/ /\ a = None
              /\ Fails
              /\ apd_serial' \in {apd_serial, apd_serial + 1} \cap Serials
              /\ UNCHANGED <<live, apd, apd_table>>
    /\ UNCHANGED <<table, pdx_cache, registered, now, faults, lost, stop>>

\* The first entry for the APD and the Clist that are to be merged.
Matching == {i \in Positions : /\ table[i].orig = req.orig
                               /\ table[i].clist = registered[req.proc]
                               /\ table[i].apd # None}

First(i) == i \in Matching /\ \A j \in Matching : i <= j

\* apd_pdx_cache_lookup finds the APD.
SearchHits ==
    /\ stop = "no" /\ req.step = "search"
    /\ \E i \in Positions :
          /\ First(i) /\ ~Expired(table[i].timestamp)
          /\ req' = [req EXCEPT !.step = "start", !.apd = table[i].apd]
          /\ Adds(i, apd[table[i].apd].serial)
    /\ UNCHANGED <<live, apd, apd_table, table, thread, registered, apd_serial, now,
                   faults, lost, stop>>

\* It finds none: either there is none,
SearchMisses ==
    /\ stop = "no" /\ req.step = "search" /\ Matching = {}
    /\ req' = [req EXCEPT !.step = "make"]
    /\ UNCHANGED <<live, apd, apd_table, table, pdx_cache, thread, registered, apd_serial,
                   now, faults, lost, stop>>

\* or it is too old and is closed.  An APD that was copied while it was closing is
\* not taken out of the table, which the assertion after it finds.
SearchCloses ==
    /\ stop = "no" /\ req.step = "search"
    /\ \E i \in Positions :
          /\ First(i) /\ Expired(table[i].timestamp)
          /\ IF apd[table[i].apd].closing
             THEN /\ stop' = "assertion"
                  /\ UNCHANGED <<live, apd, table, thread>>
             ELSE /\ table' = TableWithout(table[i].apd)
                  /\ Closes(table[i].apd)
    /\ req' = [req EXCEPT !.step = "make"]
    /\ UNCHANGED <<apd_table, pdx_cache, registered, apd_serial, now, faults, lost>>

\* apd_pdx_merge: a copy of the APD, with its users, its free threads, its validation
\* cache and its closing mark (apd_clone), or an empty one, and the Clist.
Merged ==
    [(IF req.orig = None THEN [Blank EXCEPT !.vcache = apd_serial]
      ELSE [apd[req.orig] EXCEPT !.held = 0, !.extra = apd[req.orig].users])
     EXCEPT !.serial = apd_serial, !.orig = req.orig, !.clist = registered[req.proc]]

Make ==
    /\ stop = "no" /\ req.step = "make"
    /\ apd_serial < MaxSerial
    /\ \E b \in Blocks \ live :
          /\ live' = live \cup {b}
          /\ apd' = [apd EXCEPT ![b] = Merged]
          /\ req' = [req EXCEPT !.step = "insert", !.apd = b]
    /\ apd_serial' = apd_serial + 1
    /\ UNCHANGED <<apd_table, table, pdx_cache, thread, registered, now, faults, lost,
                   stop>>

\* kmalloc fails, or apd_fill does: it frees the validation cache, which a copy has
\* in common with the original, or all slots are taken.
MakeFails ==
    /\ stop = "no" /\ req.step = "make"
    /\ Fails
    /\ \/ UNCHANGED <<apd_serial, stop>>
       \/ /\ apd_serial < MaxSerial
          /\ apd_serial' = apd_serial + 1
          /\ stop' \in {"no", IF req.orig = None THEN "no" ELSE "vcache"}
    /\ UNCHANGED <<live, apd, apd_table, table, pdx_cache, registered, now, faults, lost>>

\* apd_pdx_cache_insert: the free position, or the one with the oldest entry.
FreePositions == {i \in Positions : table[i].apd = None}

Oldest(i) == \A j \in Positions : \/ table[i].timestamp < table[j].timestamp
                                  \/ table[i].timestamp = table[j].timestamp /\ i <= j

Entered == [orig |-> req.orig, clist |-> registered[req.proc], apd |-> req.apd,
            timestamp |-> now]

Inserted(i) ==
    /\ Adds(i, apd[req.apd].serial)
    /\ req' = [req EXCEPT !.step = "start"]

Insert ==
    /\ stop = "no" /\ req.step = "insert"
    /\ \E i \in FreePositions :
          /\ \A j \in FreePositions : i <= j
          /\ table' = [table EXCEPT ![i] = Entered]
          /\ Inserted(i)
    /\ UNCHANGED <<live, apd, apd_table, thread, registered, apd_serial, now, faults,
                   lost, stop>>

\* In a full table the APD in the last position is closed, and the oldest entry is
\* overwritten.  The assertion between them looks past the end of the table: it holds
\* or not.
InsertFull ==
    /\ stop = "no" /\ req.step = "insert" /\ FreePositions = {}
    /\ \E i \in Positions :
          /\ Oldest(i)
          /\ table' = [TableWithout(table[TableSize].apd) EXCEPT ![i] = Entered]
          /\ lost' = lost \cup ({table[i].apd} \ {table[TableSize].apd})
          /\ Inserted(i)
    /\ Closes(table[TableSize].apd)
    /\ UNCHANGED <<apd_table, registered, apd_serial, now, faults>>

InsertFullHalts ==
    /\ stop = "no" /\ req.step = "insert" /\ FreePositions = {}
    /\ stop' = "assertion"
    /\ UNCHANGED <<live, apd, apd_table, table, pdx_cache, thread, registered, req,
                   apd_serial, now, faults, lost>>

\* Variant: the count is left to the caller, which forgets it.
WithoutUser(a) == apd[a].users

\* thread_get_mthread counts the user before it knows that there is a thread.
WithUser(a) == apd[a].users + 1

\* thread_pdx_create: a thread of the APD's pool, if there is one.
StartPooled ==
    LET a == req.apd
        s == apd[a].pool
    IN  /\ stop = "no" /\ req.step = "start" /\ s # None
        /\ apd' = [apd EXCEPT ![a].users = WithUser(a), ![a].pool = thread[s].next]
        /\ thread' = [thread EXCEPT ![s].state = "run", ![s].in_apd = a,
                                    ![s].parent = req.caller, ![s].pdx = TRUE]
        /\ stop' = IF thread[s].state = "pooled" /\ thread[s].home = a
                   THEN "no" ELSE "shared"
        /\ req' = Idle
        /\ UNCHANGED <<live, apd_table, table, pdx_cache, registered, apd_serial, now,
                       faults, lost>>

\* A new one in a task of the APD.
StartNew ==
    LET a == req.apd
    IN  /\ stop = "no" /\ req.step = "start" /\ apd[a].pool = None
        /\ \E s \in Structs :
              /\ thread[s].state \in {"unused", "freed"}
              /\ thread' = [thread EXCEPT ![s] =
                     [state |-> "run", home |-> a, in_apd |-> a, parent |-> req.caller,
                      pdx |-> TRUE, next |-> None]]
        /\ apd' = [apd EXCEPT ![a].users = WithUser(a)]
        /\ req' = Idle
        /\ UNCHANGED <<live, apd_table, table, pdx_cache, registered, apd_serial, now,
                       faults, lost, stop>>

\* There is no memory for it: the APD keeps a user that does not exist.
StartFails ==
    /\ stop = "no" /\ req.step = "start" /\ apd[req.apd].pool = None
    /\ faults < MaxFaults /\ faults' = faults + 1
    /\ apd' = [apd EXCEPT ![req.apd].users = WithUser(req.apd), ![req.apd].extra = @ + 1]
    /\ Fails
    /\ UNCHANGED <<live, apd_table, table, pdx_cache, registered, apd_serial, now,
                   lost, stop>>

-----------------------------------------------------------------------------
(* The ends of threads, registration, the clock *)

\* sys_thread_return of a PDX procedure.
Return(s) ==
    /\ stop = "no" /\ req = Idle
    /\ thread[s].state = "run" /\ thread[s].pdx
    /\ Releases(s, [thread EXCEPT ![thread[s].parent].state = "run"])
    /\ UNCHANGED <<apd_table, table, pdx_cache, registered, req, apd_serial, now,
                   faults, lost>>

\* A thread deletes itself and waits to be reaped.
Exit(s) ==
    /\ stop = "no" /\ req = Idle
    /\ faults < MaxFaults /\ faults' = faults + 1
    /\ thread[s].state = "run" /\ thread[s].parent # None
    /\ thread' = [thread EXCEPT ![s].state = "zombie"]
    /\ UNCHANGED <<live, apd, apd_table, table, pdx_cache, registered, req, apd_serial,
                   now, lost, stop>>

\* mpager kills it (thread_die), which does not give its L4 thread back.
Kill(s) ==
    /\ stop = "no"
    /\ faults < MaxFaults /\ faults' = faults + 1
    /\ thread[s].state = "run" /\ thread[s].parent # None
    /\ thread' = [thread EXCEPT ![s].state = "zombie"]
    /\ apd' = [apd EXCEPT ![thread[s].home].held = @ + 1]
    /\ UNCHANGED <<live, apd_table, table, pdx_cache, registered, req, apd_serial, now,
                   lost, stop>>

Ancestors(s) ==
    LET up[n \in Nat] == IF n = 0 THEN s
                         ELSE IF up[n - 1] = None THEN None ELSE thread[up[n - 1]].parent
    IN  {up[n] : n \in 1 .. Cardinality(Structs)} \ {None}

\* ThreadWait for a zombie, by a thread that it descends from.
Reap(r, z) ==
    /\ stop = "no" /\ req = Idle
    /\ thread[r].state = "run" /\ thread[z].state = "zombie"
    /\ r \in Ancestors(z)
    /\ Releases(z, thread)
    /\ UNCHANGED <<apd_table, table, pdx_cache, registered, req, apd_serial, now,
                   faults, lost>>

Flushed == [h \in Buckets |-> NoCall]

\* Variant: the cache is flushed only when a registration ends.
RegisterFlushesLess(p, l) ==
    /\ stop = "no" /\ req = Idle
    /\ l # registered[p]
    /\ registered' = [registered EXCEPT ![p] = l]
    /\ pdx_cache' = IF l = None THEN Flushed ELSE pdx_cache
    /\ UNCHANGED <<live, apd, apd_table, table, thread, req, apd_serial, now, faults,
                   lost, stop>>

\* object_pdx: a new registration, with l = None the end of one.  Where there was one
\* before, kill_pdx_slot flushes the PDX cache.
Register(p, l) ==
    /\ stop = "no" /\ req = Idle
    /\ l # registered[p]
    /\ registered' = [registered EXCEPT ![p] = l]
    /\ pdx_cache' = IF registered[p] = None THEN pdx_cache ELSE Flushed
    /\ UNCHANGED <<live, apd, apd_table, table, thread, req, apd_serial, now, faults,
                   lost, stop>>

\* object_delete: the registrations go with the object, and the PDX cache stays.  The
\* next object at its address starts without registrations.
Deleted(p) ==
    [h \in Buckets |-> IF pdx_cache[h].proc = p THEN [pdx_cache[h] EXCEPT !.outlived = TRUE]
                       ELSE pdx_cache[h]]

DeleteObject(p) ==
    /\ stop = "no" /\ req = Idle
    /\ registered[p] # None
    /\ registered' = [registered EXCEPT ![p] = None]
    /\ pdx_cache' = Deleted(p)
    /\ UNCHANGED <<live, apd, apd_table, table, thread, req, apd_serial, now, faults,
                   lost, stop>>

\* gettime_lazy.  A call takes no time.
Tick ==
    /\ stop = "no" /\ req = Idle /\ now < MaxTime
    /\ now' = now + 1
    /\ UNCHANGED <<live, apd, apd_table, table, pdx_cache, thread, registered, req,
                   apd_serial, faults, lost, stop>>

Next ==
    \/ \E c \in Structs, p \in Procs, pd \in PdArgs : Call(c, p, pd)
    \/ FindPd
    \/ SearchHits \/ SearchMisses \/ SearchCloses
    \/ Make \/ MakeFails
    \/ Insert \/ InsertFull \/ InsertFullHalts
    \/ StartPooled \/ StartNew \/ StartFails
    \/ \E s \in Structs : Return(s) \/ Exit(s) \/ Kill(s)
    \/ \E r, z \in Structs : Reap(r, z)
    \/ \E p \in Procs, l \in Clists \cup {None} : Register(p, l)
    \/ \E p \in Procs : DeleteObject(p)
    \/ Tick

Spec == Init /\ [][Next]_vars

-----------------------------------------------------------------------------
(* Properties *)

Active == {s \in Structs : thread[s].state \in {"run", "call", "zombie"}}

\* An APD is not freed while something leads to it: every thread that has not been
\* released runs in an APD that is allocated, and so do the PdxCall in progress and
\* the entries of the table (apd_close, thread_release).
InUseAlive ==
    stop = "no" =>
        /\ \A s \in Active : thread[s].home \in live
        /\ \A i \in Positions : table[i].apd \in live \cup {None}
        /\ {req.src, req.orig, req.apd} \subseteq live \cup {None}

\* An APD made for PdxCalls that nobody uses is in the table, where a later call or the
\* timeout finds it, or is gone: none is left behind by closing it while it was used
\* (the closing mark in thread_release).  Entries that a full table overwrites are.
UnusedCached ==
    stop = "no" =>
        \A a \in live : (apd[a].clist # None /\ apd[a].users = 0) =>
            \/ \E i \in Positions : table[i].apd = a
            \/ a \in lost
            \/ req.step = "insert" /\ req.apd = a

\* A call that the PDX cache lets through was validated in full no longer than the
\* timeout ago, for the same procedure and PD and for a caller's APD at the same address,
\* which may be another APD by now (pdxcache_lookup, and the timestamps that
\* apd_pdx_cache_check_id looks at).
GrantsRecent ==
    (req.step = "start" /\ req.fast) =>
        LET e == pdx_cache[Hash(req.src, req.proc, req.pd)]
        IN  /\ <<e.src, e.proc, e.pd>> = <<req.src, req.proc, req.pd>>
            /\ now - e.verified <= Timeout

\* The call goes on by a validation from before the procedure's object was deleted.
FromDeleted == req.fast /\ pdx_cache[Hash(req.src, req.proc, req.pd)].outlived

\* A call runs in a domain made from an APD at the address of the one that was asked for
\* and, unless it goes on by a validation from before the procedure's object was deleted,
\* from the Clist that is registered for the procedure now: neither cache answers with a
\* domain made for another registration, address or PD (serial numbers, and the flush in
\* kill_pdx_slot).
DomainAsked ==
    (stop = "no" /\ req.step = "start") =>
        /\ apd[req.apd].clist = registered[req.proc] \/ FromDeleted
        /\ req.pd = Merge => apd[req.apd].orig = req.src
        /\ req.pd = Empty => apd[req.apd].orig = None
        /\ req.pd \in Pds => apd[req.apd].orig = apd_table[req.pd]

\* A thread of a PdxCall runs in the APD that was made for the call (apd_pdx_merge gives
\* a copy tasks of its own).  docs/API/api.tex: "The call will execute in an APD which is
\* the union of the domain passed via the pd parameter and the domain registered for the
\* PDX object."
RunsInDomain ==
    \A s \in Active : thread[s].in_apd # None => thread[s].home = thread[s].in_apd
=============================================================================
