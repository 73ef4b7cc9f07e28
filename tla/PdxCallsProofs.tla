--------------------------- MODULE PdxCallsProofs ---------------------------
(***************************************************************************)
(* Proofs about PdxCalls.  An APD is freed when its count of users is 0,   *)
(* and the count is that of its threads and of users that nobody gives     *)
(* back, so nothing leads to it.  A cached call names an entry of the      *)
(* table by its position and the serial number of the APD that was there,  *)
(* which no APD entered later has.                                         *)
(***************************************************************************)
EXTENDS PdxCalls, FiniteSetTheorems, TLAPS

\* In the state th of the threads, those of an APD that were not released, and those
\* in its pool.
Users(th, a)  == {s \in Structs : th[s].state \in {"run", "call", "zombie"} /\ th[s].home = a}
Pooled(th, a) == {s \in Structs : th[s].state = "pooled" /\ th[s].home = a}

\* A thread that was not released, or is in a pool, has an APD.
HomesAlive == \A a \in Blocks \ live : Users(thread, a) = {} /\ Pooled(thread, a) = {}

\* The use count is that of the threads, and of the users that no thread accounts for.
Counted == \A a \in live : apd[a].users = apd[a].extra + Cardinality(Users(thread, a))

\* The pool that begins with head holds the pooled threads of an APD, each once.
Holds(th, head, S) == /\ head \in S \cup {None}
                      /\ \A s \in S : th[s].next \in S \cup {None}

Exact(th, head, a) ==
    /\ Holds(th, head, Pooled(th, a))
    /\ \A s, t \in Pooled(th, a) : th[s].next = th[t].next => s = t \/ th[s].next = None
    /\ \A s \in Pooled(th, a) : th[s].next = head => head = None
    /\ \A S \in SUBSET Structs : Holds(th, head, S) => Pooled(th, a) \subseteq S

\* A copy of an APD that has the other's pool: it is not freed, and gets no thread.
Stale(th, ap, a) == /\ ap.pool # None /\ ap.extra # 0
                    /\ Users(th, a) = {} /\ Pooled(th, a) = {}

PoolsSound == \A a \in live : Exact(thread, apd[a].pool, a) \/ Stale(thread, apd[a], a)

\* A thread that runs a procedure has a caller of its own, which waits for it.
ParentsWait ==
    /\ \A s \in Structs : (thread[s].state \in {"run", "call"} /\ thread[s].pdx) =>
           /\ thread[s].parent \in Structs /\ thread[thread[s].parent].state = "call"
           /\ thread[s].parent # req.caller
    /\ \A s, t \in Structs :
           (/\ thread[s].state \in {"run", "call"} /\ thread[s].pdx
            /\ thread[t].state \in {"run", "call"} /\ thread[t].pdx
            /\ thread[s].parent = thread[t].parent) => s = t

\* An APD that a PD was instantiated as is only copied.
PdsUnused ==
    \A pd \in Pds : apd_table[pd] # None =>
        LET a == apd_table[pd]
        IN  /\ a \in live /\ apd[a].clist = None /\ apd[a].pool = None
            /\ ~apd[a].closing /\ Users(thread, a) = {}

\* An APD made for a PdxCall.  A copy of one that was being closed is never freed.
Made(a, orig, clist) ==
    /\ a \in live
    /\ clist \in Clists /\ apd[a].clist = clist
    /\ apd[a].orig = orig
    /\ apd[a].serial # 0
    /\ apd[a].closing => apd[a].extra # 0

TableSound ==
    \A i \in Positions : table[i].apd # None =>
        Made(table[i].apd, table[i].orig, table[i].clist) /\ table[i].timestamp <= now

SerialsPast ==
    /\ apd_serial # 0
    /\ \A a \in Blocks : apd[a].serial < apd_serial
    /\ \A h \in Buckets : pdx_cache[h].src # None =>
           pdx_cache[h].serial # 0 /\ pdx_cache[h].serial < apd_serial

\* The domain that a PD argument of a caller names.
Names(pd, src, orig) ==
    /\ pd = Merge => orig = src
    /\ pd = Empty => orig = None
    /\ pd \in Pds => orig = apd_table[pd] /\ orig # None

\* The APD in the position that a cached call names is the one that the call was
\* validated for, no earlier than the table's timestamp, or another.
CacheSound ==
    \A h \in Buckets :
        LET e == pdx_cache[h]
            t == table[e.pos]
        IN  (e.src # None /\ t.apd # None /\ apd[t.apd].serial = e.serial) =>
                /\ t.timestamp <= e.verified
                /\ t.clist = registered[e.proc] \/ e.outlived
                /\ Names(e.pd, e.src, t.orig)

\* The call in progress.
CallerSound ==
    IF req.step = "none" THEN req = Idle
    ELSE /\ req.caller \in Structs /\ req.src \in live
         /\ thread[req.caller].state = "call" /\ thread[req.caller].home = req.src
         /\ req.proc \in Procs /\ req.pd \in PdArgs
         /\ req.fast => req.step = "start"

OrigSound ==
    /\ req.step = "find" => req.orig = None /\ req.apd = None /\ req.pd \in Pds
    /\ req.step \in {"search", "make"} => req.apd = None
    /\ req.step \in {"search", "make", "insert"} => Names(req.pd, req.src, req.orig)
    /\ req.step \in {"find", "search", "make", "insert"} => registered[req.proc] # None
    /\ req.step = "start" /\ req.fast => req.orig = None
    /\ req.step = "start" /\ ~req.fast => Names(req.pd, req.src, req.orig)

ApdSound ==
    /\ req.step \in {"insert", "start"} =>
           /\ Made(req.apd, apd[req.apd].orig, apd[req.apd].clist)
           /\ apd[req.apd].clist = registered[req.proc] \/ FromDeleted
           /\ Names(req.pd, req.src, apd[req.apd].orig)
    /\ req.step = "insert" =>
           /\ apd[req.apd].orig = req.orig
           /\ \A i \in Positions : table[i].apd # req.apd
           /\ \A h \in Buckets : pdx_cache[h].src # None =>
                  pdx_cache[h].serial # apd[req.apd].serial

\* An APD for PdxCalls that a thread must still leave is marked, where nothing else leads
\* to it.
LeftMarked ==
    \A a \in live : apd[a].clist # None =>
        \/ \E i \in Positions : table[i].apd = a
        \/ a \in lost
        \/ req.step = "insert" /\ req.apd = a
        \/ apd[a].closing /\ apd[a].users # 0

Sound == HomesAlive /\ Counted /\ PoolsSound /\ ParentsWait /\ PdsUnused
         /\ TableSound /\ SerialsPast /\ CacheSound /\ CallerSound /\ OrigSound /\ ApdSound
         /\ LeftMarked

IInv == TypeOK /\ GrantsRecent /\ (stop = "no" => Sound)

-----------------------------------------------------------------------------
(* Pools *)

\* A change to other threads leaves a pool as it is.
LEMMA ExactKept ==
    ASSUME NEW a, NEW head, NEW th, NEW new, Exact(th, head, a),
           Pooled(new, a) = Pooled(th, a), \A s \in Pooled(th, a) : new[s].next = th[s].next
    PROVE  Exact(new, head, a)
<1> DEFINE P == Pooled(th, a)
<1>1. P \subseteq Structs
  BY DEF Pooled
<1> HIDE DEF P
<1>2. /\ Holds(th, head, P)
      /\ \A s, t \in P : th[s].next = th[t].next => s = t \/ th[s].next = None
      /\ \A s \in P : th[s].next = head => head = None
      /\ \A S \in SUBSET Structs : Holds(th, head, S) => P \subseteq S
  BY DEF Exact, P
<1>3. Pooled(new, a) = P /\ \A s \in P : new[s].next = th[s].next
  BY DEF P
<1>4. ASSUME NEW S \in SUBSET Structs, Holds(new, head, S) PROVE P \subseteq S
  <2>1. Holds(th, head, S \cap P)
    BY <1>2, <1>3, <1>4 DEF Holds
  <2> QED
    BY <1>2, <2>1
<1>5. Holds(new, head, P)
  BY <1>2, <1>3 DEF Holds
<1> QED
  BY <1>2, <1>3, <1>4, <1>5 DEF Exact

\* The first thread of a pool is taken.
LEMMA ExactPop ==
    ASSUME NEW a, NEW h, NEW th, NEW new, Exact(th, h, a), h \in Pooled(th, a),
           Pooled(new, a) = Pooled(th, a) \ {h},
           \A s \in Pooled(th, a) : new[s].next = th[s].next
    PROVE  Exact(new, th[h].next, a)
<1> DEFINE P == Pooled(th, a)
           n == th[h].next
<1>1. P \subseteq Structs /\ h # None /\ h \in Structs
  BY PdxAssumption DEF Pooled
<1> HIDE DEF P, n
<1>2. /\ Holds(th, h, P)
      /\ \A s, t \in P : th[s].next = th[t].next => s = t \/ th[s].next = None
      /\ \A s \in P : th[s].next = h => h = None
      /\ \A S \in SUBSET Structs : Holds(th, h, S) => P \subseteq S
  BY DEF Exact, P
<1>3. /\ Pooled(new, a) = P \ {h} /\ h \in P /\ \A s \in P : new[s].next = th[s].next
      /\ n = th[h].next
  BY DEF P, n
<1>4. Holds(new, n, P \ {h})
  BY <1>1, <1>2, <1>3 DEF Holds
<1>5. \A s \in P \ {h} : new[s].next = n => n = None
  BY <1>2, <1>3
<1>6. ASSUME NEW S \in SUBSET Structs, Holds(new, n, S) PROVE P \ {h} \subseteq S
  <2>1. (S \cap P) \cup {h} \in SUBSET Structs
    BY <1>1
  <2>2. Holds(th, h, (S \cap P) \cup {h})
    BY <1>2, <1>3, <1>6 DEF Holds
  <2> QED
    BY <1>2, <2>1, <2>2
<1>7. \A s, t \in P \ {h} : new[s].next = new[t].next => s = t \/ new[s].next = None
  BY <1>2, <1>3
<1> QED
  BY <1>3, <1>4, <1>5, <1>6, <1>7 DEF Exact, n

\* A thread is put before the others.
LEMMA ExactPush ==
    ASSUME NEW a, NEW h, NEW r \in Structs, NEW th, NEW new, Exact(th, h, a),
           r \notin Pooled(th, a), new[r].next = h,
           Pooled(new, a) = Pooled(th, a) \cup {r},
           \A s \in Pooled(th, a) : new[s].next = th[s].next
    PROVE  Exact(new, r, a)
<1> DEFINE P == Pooled(th, a)
<1>1. P \subseteq Structs /\ r # None
  BY PdxAssumption DEF Pooled
<1> HIDE DEF P
<1>2. /\ Holds(th, h, P)
      /\ \A s, t \in P : th[s].next = th[t].next => s = t \/ th[s].next = None
      /\ \A s \in P : th[s].next = h => h = None
      /\ \A S \in SUBSET Structs : Holds(th, h, S) => P \subseteq S
  BY DEF Exact, P
<1>3. /\ Pooled(new, a) = P \cup {r} /\ r \notin P /\ \A s \in P : new[s].next = th[s].next
      /\ new[r].next = h
  BY DEF P
<1>4. Holds(new, r, P \cup {r})
  BY <1>2, <1>3 DEF Holds
<1>5. \A s \in P \cup {r} : new[s].next = r => r = None
  BY <1>1, <1>2, <1>3 DEF Holds
<1>6. ASSUME NEW S \in SUBSET Structs, Holds(new, r, S) PROVE P \cup {r} \subseteq S
  <2>1. r \in S
    BY <1>1, <1>6 DEF Holds
  <2>2. Holds(th, h, S \cap P)
    BY <1>2, <1>3, <1>6, <2>1 DEF Holds
  <2>3. P \subseteq S
    BY <1>2, <2>2
  <2> QED
    BY <2>1, <2>3
<1>7. \A s, t \in P \cup {r} : new[s].next = new[t].next => s = t \/ new[s].next = None
  <2> SUFFICES ASSUME NEW s \in P \cup {r}, NEW t \in P \cup {r}, new[s].next = new[t].next
               PROVE  s = t \/ new[s].next = None
    OBVIOUS
  <2>1. CASE s = r /\ t # r
    BY <1>2, <1>3, <2>1
  <2>2. CASE s # r /\ t = r
    BY <1>2, <1>3, <2>2
  <2>3. CASE s # r /\ t # r
    BY <1>2, <1>3, <2>3
  <2> QED
    BY <2>1, <2>2, <2>3
<1> QED
  BY <1>3, <1>4, <1>5, <1>6, <1>7 DEF Exact

\* An APD that is freed gives its pooled threads up.
LEMMA PoolIs ==
    ASSUME NEW a, NEW head, NEW th, Exact(th, head, a)
    PROVE  PoolFrom(head, th) = Pooled(th, a)
<1> DEFINE P == Pooled(th, a)
<1>1. P \in SUBSET Structs
  BY DEF Pooled
<1>2. Holds(th, head, P) /\ \A S \in SUBSET Structs : Holds(th, head, S) => P \subseteq S
  BY DEF Exact
<1> HIDE DEF P
<1>3. PoolFrom(head, th) = {s \in Structs : \A S \in SUBSET Structs :
                                               Holds(th, head, S) => s \in S}
  BY DEF PoolFrom, Holds
<1>4. PoolFrom(head, th) = P
  BY <1>1, <1>2, <1>3
<1> QED
  BY <1>4 DEF P

LEMMA UsersFinite ==
    ASSUME NEW th, NEW a
    PROVE  IsFiniteSet(Users(th, a)) /\ Cardinality(Users(th, a)) \in Nat
<1>1. Users(th, a) \subseteq Structs
  BY DEF Users
<1> QED
  BY <1>1, PdxAssumption, FS_Subset, FS_CardinalityType

-----------------------------------------------------------------------------
(* Use counts *)

Uses == HomesAlive /\ Counted /\ PoolsSound

\* The step changes nothing of what use counts are about.
Undisturbed ==
    /\ live' = live
    /\ \A a \in Blocks : /\ Users(thread', a) = Users(thread, a)
                         /\ Pooled(thread', a) = Pooled(thread, a)
    /\ \A s \in Structs : thread'[s].next = thread[s].next
    /\ \A a \in live : /\ apd'[a].users = apd[a].users /\ apd'[a].extra = apd[a].extra
                       /\ apd'[a].pool = apd[a].pool

LEMMA UsesUndisturbed ==
    ASSUME live \subseteq Blocks, Uses, Undisturbed
    PROVE  Uses'
<1>1. HomesAlive'
  BY DEF Uses, HomesAlive, Undisturbed
<1>2. Counted'
  BY DEF Uses, Counted, Undisturbed
<1>3. ASSUME NEW a \in live PROVE Exact(thread', apd'[a].pool, a) \/ Stale(thread', apd'[a], a)
  <2>1. a \in Blocks /\ apd'[a].pool = apd[a].pool /\ apd'[a].extra = apd[a].extra
    BY DEF Undisturbed
  <2>2. CASE Exact(thread, apd[a].pool, a)
    <3>1. \A s \in Pooled(thread, a) : thread'[s].next = thread[s].next
      BY DEF Undisturbed, Pooled
    <3>2. Pooled(thread', a) = Pooled(thread, a)
      BY <2>1 DEF Undisturbed
    <3> QED
      BY <2>1, <2>2, <3>1, <3>2, ExactKept
  <2>3. CASE Stale(thread, apd[a], a)
    BY <2>1, <2>3 DEF Stale, Undisturbed
  <2> QED
    BY <2>2, <2>3 DEF Uses, PoolsSound
<1> QED
  BY <1>1, <1>2, <1>3 DEF Uses, PoolsSound, Undisturbed

\* An APD is made.
LEMMA UsesMade ==
    ASSUME TypeOK, Uses, NEW b \in Blocks \ live, NEW r, live' = live \cup {b},
           thread' = thread, apd' = [apd EXCEPT ![b] = r],
           r.users = r.extra, r.users \in Nat, r.pool = None \/ r.extra # 0
    PROVE  Uses'
<1>1. live \subseteq Blocks /\ apd'[b] = r /\ \A a \in live : apd'[a] = apd[a]
  BY DEF TypeOK
<1>2. Users(thread, b) = {} /\ Pooled(thread, b) = {}
  BY DEF Uses, HomesAlive
<1>3. HomesAlive'
  BY DEF Uses, HomesAlive
<1>4. Counted'
  <2>1. Cardinality(Users(thread, b)) = 0
    BY <1>2, FS_EmptySet
  <2>2. r.users = r.extra + 0
    OBVIOUS
  <2> QED
    BY <1>1, <2>1, <2>2 DEF Uses, Counted
<1>5. Exact(thread, r.pool, b) \/ Stale(thread, r, b)
  BY <1>2 DEF Exact, Stale, Holds
<1>6. PoolsSound'
  BY <1>1, <1>5 DEF Uses, PoolsSound
<1> QED
  BY <1>3, <1>4, <1>6 DEF Uses

\* An APD that is freed, when its pool is its pooled threads in the state th.
LEMMA FreesFacts ==
    ASSUME TypeOK, NEW th \in [Structs -> Threads], NEW a \in live, NEW ap,
           Frees(a, ap, th), Exact(th, ap.pool, a)
    PROVE  /\ thread' \in [Structs -> Threads]
           /\ apd' \in [Blocks -> Apds] /\ apd'[a] = Blank
           /\ \A b \in Blocks : b # a => apd'[b] = apd[b]
           /\ live' = live \ {a} /\ stop' \in {"no", "assertion", "vcache"}
           /\ \A s \in Structs : thread'[s] = IF s \in Pooled(th, a)
                                             THEN [Unused EXCEPT !.state = "freed"] ELSE th[s]
           /\ \A b : Users(thread', b) = Users(th, b)
           /\ \A b : b # a => Pooled(thread', b) = Pooled(th, b)
           /\ Pooled(thread', a) = {}
<1> DEFINE freed == [Unused EXCEPT !.state = "freed"]
<1>1. freed \in Threads /\ freed.state = "freed"
  BY PdxAssumption DEF Unused, Threads, ThreadStates
<1>2. Blank \in Apds
  BY PdxAssumption DEF Blank, Apds, Serials
<1>3. thread' = [s \in Structs |-> IF s \in Pooled(th, a) THEN freed ELSE th[s]]
  BY PoolIs DEF Frees
<1> HIDE DEF freed
<1>4. thread' \in [Structs -> Threads]
  BY <1>1, <1>3
<1>5. \A s \in Structs : thread'[s] = IF s \in Pooled(th, a) THEN freed ELSE th[s]
  BY <1>3
<1>6. \A b : Users(thread', b) = Users(th, b)
  BY <1>1, <1>5 DEF Users, Pooled
<1>7. \A b : b # a => Pooled(thread', b) = Pooled(th, b)
  BY <1>1, <1>5 DEF Pooled
<1>8. Pooled(thread', a) = {}
  BY <1>1, <1>5 DEF Pooled
<1>9. /\ apd' \in [Blocks -> Apds] /\ apd'[a] = Blank
      /\ \A b \in Blocks : b # a => apd'[b] = apd[b]
  BY <1>2 DEF Frees, TypeOK
<1>10. live' = live \ {a} /\ stop' \in {"no", "assertion", "vcache"}
  BY DEF Frees
<1> QED
  BY <1>4, <1>5, <1>6, <1>7, <1>8, <1>9, <1>10 DEF freed

\* What freeing an APD without users does.
LEMMA UsesFreed ==
    ASSUME TypeOK, Uses, NEW a \in live, apd[a].users = 0, Frees(a, apd[a], thread)
    PROVE  /\ Uses' /\ apd[a].extra = 0 /\ Users(thread, a) = {}
           /\ Exact(thread, apd[a].pool, a)
<1>1. apd[a] \in Apds
  BY DEF TypeOK
<1>2. apd[a].users = apd[a].extra + Cardinality(Users(thread, a)) /\ apd[a].extra \in Nat
  BY <1>1 DEF Uses, Counted, Apds
<1>3. apd[a].extra = 0 /\ Cardinality(Users(thread, a)) = 0
  BY <1>2, UsersFinite
<1>4. Users(thread, a) = {}
  BY <1>3, UsersFinite, FS_EmptySet
<1>5. Exact(thread, apd[a].pool, a)
  BY <1>3 DEF Uses, PoolsSound, Stale
<1>6. /\ apd'[a] = Blank /\ live' = live \ {a}
      /\ \A b \in Blocks : b # a => apd'[b] = apd[b]
      /\ \A s \in Structs : thread'[s] = IF s \in Pooled(thread, a)
                                        THEN [Unused EXCEPT !.state = "freed"] ELSE thread[s]
      /\ \A b : Users(thread', b) = Users(thread, b)
      /\ \A b : b # a => Pooled(thread', b) = Pooled(thread, b)
      /\ Pooled(thread', a) = {}
  <2>1. thread \in [Structs -> Threads]
    BY DEF TypeOK
  <2> QED
    BY <1>5, <2>1, FreesFacts
<1>7. HomesAlive'
  BY <1>4, <1>6 DEF Uses, HomesAlive
<1>8. Counted'
  BY <1>6 DEF Uses, Counted, TypeOK
<1>9. ASSUME NEW b \in live, b # a PROVE Exact(thread', apd'[b].pool, b) \/ Stale(thread', apd'[b], b)
  <2>1. apd'[b] = apd[b]
    BY <1>6, <1>9 DEF TypeOK
  <2>2. CASE Exact(thread, apd[b].pool, b)
    <3>1. \A s \in Pooled(thread, b) : thread'[s].next = thread[s].next
      BY <1>6, <1>9 DEF Pooled
    <3> QED
      BY <1>6, <1>9, <2>1, <2>2, <3>1, ExactKept
  <2>3. CASE Stale(thread, apd[b], b)
    BY <1>6, <1>9, <2>1, <2>3 DEF Stale
  <2> QED
    BY <2>2, <2>3 DEF Uses, PoolsSound
<1> QED
  BY <1>3, <1>4, <1>5, <1>6, <1>7, <1>8, <1>9 DEF Uses, PoolsSound

\* A thread leaves its APD: the state th of the threads, where others may go on, differs
\* from the present one in nothing that use counts are about.
Leaves(s, th) ==
    /\ s \in Structs /\ thread[s].state \in {"run", "call", "zombie"}
    /\ th \in [Structs -> Threads]
    /\ \A a \in Blocks : Users(th, a) = Users(thread, a) /\ Pooled(th, a) = Pooled(thread, a)
    /\ \A t \in Structs : th[t].next = thread[t].next
    /\ Releases(s, th)

\* The threads once it is in the pool.
InPool(s, th) ==
    LET a == thread[s].home
    IN  [th EXCEPT ![s] = [Unused EXCEPT !.state = "pooled", !.home = a, !.next = apd[a].pool]]

LEMMA InPoolFacts ==
    ASSUME TypeOK, Uses, NEW s, NEW th, Leaves(s, th)
    PROVE  LET a   == thread[s].home
               new == InPool(s, th)
           IN  /\ a \in live /\ new \in [Structs -> Threads]
               /\ new[s] = [Unused EXCEPT !.state = "pooled", !.home = a, !.next = apd[a].pool]
               /\ \A t \in Structs \ {s} : new[t] = th[t]
               /\ s \in Users(thread, a) /\ Users(new, a) = Users(thread, a) \ {s}
               /\ s \notin Pooled(thread, a) /\ Pooled(new, a) = Pooled(thread, a) \cup {s}
               /\ \A b \in Blocks \ {a} : Users(new, b) = Users(thread, b)
                                         /\ Pooled(new, b) = Pooled(thread, b)
               /\ Exact(new, s, a)
               /\ apd[a].users \in Nat /\ apd[a].extra \in Nat /\ apd[a].users # 0
               /\ apd[a].users - 1 = apd[a].extra + Cardinality(Users(new, a))
               /\ apd[a].users = 1 => apd[a].extra = 0 /\ Users(new, a) = {}
<1> DEFINE a   == thread[s].home
           r   == [Unused EXCEPT !.state = "pooled", !.home = a, !.next = apd[a].pool]
           new == InPool(s, th)
<1>1. s \in Structs /\ thread[s].state \in {"run", "call", "zombie"} /\ thread[s] \in Threads
      /\ th \in [Structs -> Threads]
  BY DEF Leaves, TypeOK
<1>2. a \in Blocks
  BY <1>1 DEF Threads
<1>3. s \in Users(thread, a)
  BY <1>1 DEF Users
<1>4. a \in live
  BY <1>2, <1>3 DEF Uses, HomesAlive
<1>5. apd[a] \in Apds
  BY <1>2 DEF TypeOK
<1>6. r \in Threads /\ r.state = "pooled" /\ r.home = a /\ r.next = apd[a].pool
  BY <1>2, <1>5, PdxAssumption DEF Apds, Unused, Threads, ThreadStates
<1>7. new = [th EXCEPT ![s] = r]
  BY DEF InPool
<1> HIDE DEF a, r, new
<1>8. new \in [Structs -> Threads] /\ new[s] = r /\ \A t \in Structs \ {s} : new[t] = th[t]
  BY <1>1, <1>6, <1>7
<1>9. \A b \in Blocks : Users(th, b) = Users(thread, b) /\ Pooled(th, b) = Pooled(thread, b)
  BY DEF Leaves
<1>10. Users(new, a) = Users(th, a) \ {s} /\ Pooled(new, a) = Pooled(th, a) \cup {s}
  BY <1>1, <1>6, <1>8 DEF Users, Pooled
<1>11. s \in Users(th, a) /\ s \notin Pooled(th, a)
  BY <1>2, <1>3, <1>9 DEF Users, Pooled
<1>12. ASSUME NEW b \in Blocks \ {a}
       PROVE  Users(new, b) = Users(thread, b) /\ Pooled(new, b) = Pooled(thread, b)
  <2>1. s \notin Users(th, b) /\ s \notin Pooled(th, b)
    <3>1. s \notin Users(thread, b)
      BY <1>12 DEF Users, a
    <3>2. s \notin Pooled(thread, b)
      BY <1>12 DEF Pooled, a
    <3> QED
      BY <1>9, <1>12, <3>1, <3>2
  <2>2. Users(new, b) = Users(th, b)
    BY <1>1, <1>6, <1>8, <1>12, <2>1 DEF Users
  <2>3. Pooled(new, b) = Pooled(th, b)
    BY <1>1, <1>6, <1>8, <1>12, <2>1 DEF Pooled
  <2> QED
    BY <1>9, <1>12, <2>2, <2>3
<1>13. Exact(thread, apd[a].pool, a)
  BY <1>3, <1>4 DEF Uses, PoolsSound, Stale
<1>14. \A t \in Pooled(thread, a) : new[t].next = thread[t].next
  <2>1. \A t \in Structs : th[t].next = thread[t].next
    BY DEF Leaves
  <2> QED
    BY <1>2, <1>8, <1>9, <1>11, <2>1 DEF Pooled
<1>15. Exact(new, s, a)
  BY <1>1, <1>2, <1>6, <1>8, <1>9, <1>10, <1>11, <1>13, <1>14, ExactPush
<1>16. apd[a].users \in Nat /\ apd[a].extra \in Nat
  BY <1>5 DEF Apds
<1>17. apd[a].users = apd[a].extra + Cardinality(Users(thread, a))
  BY <1>4 DEF Uses, Counted
<1>18. Cardinality(Users(new, a)) = Cardinality(Users(thread, a)) - 1
  <2>1. Users(new, a) = Users(thread, a) \ {s}
    BY <1>2, <1>9, <1>10
  <2>2. IsFiniteSet(Users(thread, a))
    BY UsersFinite
  <2>3. \A S : IsFiniteSet(S) /\ s \in S => Cardinality(S \ {s}) = Cardinality(S) - 1
    BY FS_RemoveElement, Zenon
  <2>4. Cardinality(Users(thread, a) \ {s}) = Cardinality(Users(thread, a)) - 1
    BY <1>3, <2>2, <2>3, Zenon
  <2> QED
    BY <2>1, <2>4, Zenon
<1>19. Cardinality(Users(new, a)) \in Nat /\ Cardinality(Users(thread, a)) \in Nat
  BY UsersFinite
<1>20. apd[a].users # 0 /\ apd[a].users - 1 = apd[a].extra + Cardinality(Users(new, a))
  BY <1>16, <1>17, <1>18, <1>19
<1>21. ASSUME apd[a].users = 1 PROVE apd[a].extra = 0 /\ Users(new, a) = {}
  <2>1. apd[a].extra = 0 /\ Cardinality(Users(new, a)) = 0
    BY <1>16, <1>19, <1>20, <1>21
  <2> QED
    BY <2>1, UsersFinite, FS_EmptySet
<1>22. Users(new, a) = Users(thread, a) \ {s} /\ Pooled(new, a) = Pooled(thread, a) \cup {s}
       /\ s \notin Pooled(thread, a)
  BY <1>2, <1>9, <1>10, <1>11
<1> QED
  BY <1>3, <1>4, <1>8, <1>12, <1>15, <1>16, <1>20, <1>21, <1>22 DEF a, r, new

\* The APD goes with its last thread, when it was closed and has no other users,
LastLeaves(s, th) ==
    LET a == thread[s].home
    IN  /\ a \in live /\ apd[a].closing /\ apd[a].extra = 0
        /\ Users(thread', a) = {} /\ Pooled(thread', a) = {}
        /\ live' = live \ {a} /\ apd'[a] = Blank
        /\ \A b \in Blocks : b # a => apd'[b] = apd[b]
        /\ \A t \in Structs : \/ thread'[t].state \in {"freed", "pooled"} /\ ~thread'[t].pdx
                              \/ t # s /\ thread'[t] = th[t]
        /\ \A t \in Structs : th[t].state \in {"run", "call", "zombie"} /\ t # s =>
                                  thread'[t] = th[t]

\* or stays.
OneLeaves(s, th) ==
    LET a == thread[s].home
    IN  /\ a \in live /\ live' = live
        /\ apd[a].users \in Nat /\ apd[a].users # 0
        /\ ~(apd[a].closing /\ apd[a].users = 1)
        /\ apd' = [apd EXCEPT ![a].pool = s, ![a].users = @ - 1]
        /\ thread' = InPool(s, th)
        /\ stop' = stop

LEMMA LeavesFacts ==
    ASSUME TypeOK, Uses, NEW s, NEW th, Leaves(s, th)
    PROVE  /\ Uses'
           /\ live' \subseteq Blocks /\ apd' \in [Blocks -> Apds]
           /\ thread' \in [Structs -> Threads]
           /\ stop' \in {"no", "assertion", "shared", "vcache"}
           /\ LastLeaves(s, th) \/ OneLeaves(s, th)
           /\ \A b \in Blocks \ {thread[s].home} : Users(thread', b) = Users(thread, b)
<1> DEFINE a    == thread[s].home
           new  == InPool(s, th)
           left == [apd[a] EXCEPT !.pool = s, !.users = @ - 1]
<1>1. /\ a \in live /\ new \in [Structs -> Threads]
      /\ new[s] = [Unused EXCEPT !.state = "pooled", !.home = a, !.next = apd[a].pool]
      /\ \A t \in Structs \ {s} : new[t] = th[t]
      /\ s \in Users(thread, a) /\ Users(new, a) = Users(thread, a) \ {s}
      /\ s \notin Pooled(thread, a) /\ Pooled(new, a) = Pooled(thread, a) \cup {s}
      /\ \A b \in Blocks \ {a} : Users(new, b) = Users(thread, b)
                                /\ Pooled(new, b) = Pooled(thread, b)
      /\ Exact(new, s, a)
      /\ apd[a].users \in Nat /\ apd[a].extra \in Nat /\ apd[a].users # 0
      /\ apd[a].users - 1 = apd[a].extra + Cardinality(Users(new, a))
      /\ apd[a].users = 1 => apd[a].extra = 0 /\ Users(new, a) = {}
  BY InPoolFacts
<1>2. a \in Blocks /\ apd[a] \in Apds /\ s \in Structs /\ live \subseteq Blocks
  BY <1>1 DEF TypeOK, Leaves
<1>3. left \in Apds /\ left.pool = s /\ left.users = apd[a].users - 1
      /\ left.extra = apd[a].extra /\ left.closing = apd[a].closing
  <2>1. apd[a].users - 1 \in Nat
    BY <1>1
  <2> QED
    BY <1>2, <2>1 DEF Apds
<1>4. IF left.closing /\ left.users = 0 THEN Frees(a, left, new)
      ELSE apd' = [apd EXCEPT ![a] = left] /\ thread' = new /\ UNCHANGED <<live, stop>>
  BY DEF Leaves, Releases, InPool
<1>5. ASSUME NEW b \in live, b # a, NEW ap, ap = apd[b],
             Users(thread', b) = Users(thread, b), Pooled(thread', b) = Pooled(thread, b),
             \A t \in Pooled(thread, b) : thread'[t].next = thread[t].next
      PROVE  Exact(thread', ap.pool, b) \/ Stale(thread', ap, b)
  <2>1. CASE Exact(thread, apd[b].pool, b)
    BY <1>5, <2>1, ExactKept
  <2>2. CASE Stale(thread, apd[b], b)
    BY <1>5, <2>2 DEF Stale
  <2> QED
    BY <2>1, <2>2 DEF Uses, PoolsSound
<1>6. ASSUME NEW b \in Blocks \ {a}, NEW t \in Pooled(thread, b)
      PROVE  t # s /\ th[t].next = thread[t].next
  BY <1>6 DEF Leaves, Pooled
<1> HIDE DEF new, left
<1>7. CASE left.closing /\ left.users = 0
  <2>1. apd[a].users = 1 /\ apd[a].closing
    BY <1>1, <1>3, <1>7
  <2>2. /\ thread' \in [Structs -> Threads]
        /\ apd' \in [Blocks -> Apds] /\ apd'[a] = Blank
        /\ \A b \in Blocks : b # a => apd'[b] = apd[b]
        /\ live' = live \ {a} /\ stop' \in {"no", "assertion", "vcache"}
        /\ \A t \in Structs : thread'[t] = IF t \in Pooled(new, a)
                                          THEN [Unused EXCEPT !.state = "freed"] ELSE new[t]
        /\ \A b : Users(thread', b) = Users(new, b)
        /\ \A b : b # a => Pooled(thread', b) = Pooled(new, b)
        /\ Pooled(thread', a) = {}
    <3>1. Exact(new, left.pool, a)
      BY <1>1, <1>3
    <3> QED
      BY <1>1, <1>4, <1>7, <3>1, FreesFacts
  <2>3. apd[a].extra = 0 /\ Users(thread', a) = {}
    BY <1>1, <2>1, <2>2
  <2>4. \A b \in Blocks \ {a} : /\ Users(thread', b) = Users(thread, b)
                                /\ Pooled(thread', b) = Pooled(thread, b)
    BY <1>1, <2>2
  <2>5. HomesAlive'
    BY <2>2, <2>3, <2>4 DEF Uses, HomesAlive
  <2>6. Counted'
    BY <1>2, <2>2, <2>4 DEF Uses, Counted
  <2>7. ASSUME NEW b \in live, b # a
        PROVE  Exact(thread', apd'[b].pool, b) \/ Stale(thread', apd'[b], b)
    <3>1. b \in Blocks \ {a} /\ apd'[b] = apd[b]
      BY <1>2, <2>2, <2>7
    <3>2. \A t \in Pooled(thread, b) : t \notin Pooled(new, a) /\ t \in Structs \ {s}
      BY <1>1, <1>6, <3>1 DEF Pooled
    <3>3. \A t \in Pooled(thread, b) : thread'[t].next = thread[t].next
      BY <1>1, <1>6, <2>2, <3>1, <3>2
    <3> QED
      BY <1>5, <2>4, <2>7, <3>1, <3>3
  <2>8. PoolsSound'
    BY <2>2, <2>7 DEF PoolsSound
  <2>9. ASSUME NEW t \in Structs
        PROVE  /\ \/ thread'[t].state \in {"freed", "pooled"} /\ ~thread'[t].pdx
                  \/ t # s /\ thread'[t] = th[t]
               /\ th[t].state \in {"run", "call", "zombie"} /\ t # s => thread'[t] = th[t]
    <3>1. CASE t \in Pooled(new, a)
      <4>1. thread'[t].state = "freed" /\ thread'[t].pdx = FALSE
        BY <2>2, <3>1 DEF Unused
      <4>2. t = s \/ th[t].state = "pooled"
        BY <1>1, <3>1 DEF Pooled
      <4> QED
        BY <4>1, <4>2
    <3>2. CASE t \notin Pooled(new, a)
      <4>1. t # s /\ thread'[t] = th[t]
        BY <1>1, <2>2, <3>2
      <4> QED
        BY <4>1
    <3> QED
      BY <3>1, <3>2
  <2>10. LastLeaves(s, th)
    BY <1>1, <2>1, <2>2, <2>3, <2>9 DEF LastLeaves
  <2> QED
    BY <1>2, <2>2, <2>4, <2>5, <2>6, <2>8, <2>10 DEF Uses
<1>8. CASE ~(left.closing /\ left.users = 0)
  <2>1. apd' = [apd EXCEPT ![a] = left] /\ thread' = new /\ live' = live /\ stop' = stop
    BY <1>4, <1>8
  <2>2. apd'[a] = left /\ apd' \in [Blocks -> Apds]
        /\ \A b \in Blocks : b # a => apd'[b] = apd[b]
    BY <1>2, <1>3, <2>1 DEF TypeOK
  <2>3. HomesAlive'
    BY <1>1, <2>1 DEF Uses, HomesAlive
  <2>4. Counted'
    <3>1. ASSUME NEW b \in live
          PROVE  apd'[b].users = apd'[b].extra + Cardinality(Users(thread', b))
      <4>1. CASE b = a
        <5>1. apd'[b] = left /\ Users(thread', b) = Users(new, a)
          BY <2>1, <2>2, <4>1
        <5> QED
          BY <1>1, <1>3, <5>1
      <4>2. CASE b # a
        <5>1. apd'[b] = apd[b] /\ Users(thread', b) = Users(thread, b)
          BY <1>1, <1>2, <2>1, <2>2, <4>2
        <5> QED
          BY <5>1 DEF Uses, Counted
      <4> QED
        BY <4>1, <4>2
    <3> QED
      BY <2>1, <3>1 DEF Counted
  <2>5. ASSUME NEW b \in live
        PROVE  Exact(thread', apd'[b].pool, b) \/ Stale(thread', apd'[b], b)
    <3>1. CASE b = a
      BY <1>1, <1>3, <2>1, <2>2, <3>1
    <3>2. CASE b # a
      <4>1. b \in Blocks \ {a} /\ apd'[b] = apd[b]
        BY <1>2, <2>2, <3>2
      <4>2. \A t \in Pooled(thread, b) : thread'[t].next = thread[t].next
        <5>1. \A t \in Pooled(thread, b) : t \in Structs \ {s}
          BY <1>6, <4>1 DEF Pooled
        <5> QED
          BY <1>1, <1>6, <2>1, <4>1, <5>1
      <4> QED
        BY <1>1, <1>5, <2>1, <3>2, <4>1, <4>2
    <3> QED
      BY <3>1, <3>2
  <2>6. PoolsSound'
    BY <2>1, <2>5 DEF PoolsSound
  <2>7. ~(apd[a].closing /\ apd[a].users = 1)
    BY <1>1, <1>3, <1>8
  <2>8. apd' = [apd EXCEPT ![a].pool = s, ![a].users = @ - 1]
    BY <2>1 DEF left
  <2>9. OneLeaves(s, th)
    BY <1>1, <2>1, <2>7, <2>8 DEF OneLeaves, new
  <2>10. \A b \in Blocks \ {a} : Users(thread', b) = Users(thread, b)
    BY <1>1, <2>1
  <2>11. stop' \in {"no", "assertion", "shared", "vcache"}
    BY <2>1 DEF TypeOK
  <2> QED
    BY <1>1, <1>2, <2>1, <2>2, <2>3, <2>4, <2>6, <2>9, <2>10, <2>11 DEF Uses
<1> QED
  BY <1>7, <1>8

\* A thread s runs in an APD whose pool is its own, from then on.
LEMMA UsesStarts ==
    ASSUME TypeOK, Uses, NEW a \in live, NEW s \in Structs, NEW r \in Threads, NEW head,
           live' = live, thread' = [thread EXCEPT ![s] = r],
           r.state = "run", r.home = a,
           thread[s].state \in {"unused", "freed", "pooled"},
           apd' = [apd EXCEPT ![a].users = @ + 1, ![a].pool = head],
           \/ thread[s].state = "pooled" /\ thread[s].home = a /\ apd[a].pool = s
              /\ head = thread[s].next /\ r.next = head
           \/ thread[s].state # "pooled" /\ apd[a].pool = None /\ head = None
    PROVE  Uses'
<1>1. /\ thread \in [Structs -> Threads] /\ live \subseteq Blocks /\ apd \in [Blocks -> Apds]
      /\ a \in Blocks
  BY DEF TypeOK
<1>2. apd[a].users \in Nat /\ apd[a].extra \in Nat
  BY <1>1 DEF Apds
<1>3. /\ apd'[a].users = apd[a].users + 1 /\ apd'[a].extra = apd[a].extra
      /\ apd'[a].pool = head /\ \A b \in Blocks : b # a => apd'[b] = apd[b]
  BY <1>1 DEF Apds
<1>4. thread'[s] = r /\ \A t \in Structs \ {s} : thread'[t] = thread[t]
  BY <1>1
<1>5. /\ Users(thread', a) = Users(thread, a) \cup {s} /\ s \notin Users(thread, a)
      /\ Pooled(thread', a) = Pooled(thread, a) \ {s}
  BY <1>4 DEF Users, Pooled
<1>6. ASSUME NEW b \in Blocks, b # a
      PROVE  Users(thread', b) = Users(thread, b) /\ Pooled(thread', b) = Pooled(thread, b)
  BY <1>4, <1>6 DEF Users, Pooled
<1>7. HomesAlive'
  <2> SUFFICES ASSUME NEW b \in Blocks \ live'
               PROVE  Users(thread', b) = {} /\ Pooled(thread', b) = {}
    BY DEF HomesAlive
  <2>1. b \in Blocks \ live /\ b # a
    OBVIOUS
  <2> QED
    BY <2>1, <1>6 DEF Uses, HomesAlive
<1>8. Cardinality(Users(thread', a)) = Cardinality(Users(thread, a)) + 1
  <2>1. IsFiniteSet(Users(thread, a))
    BY UsersFinite
  <2>2. \A S : IsFiniteSet(S) /\ s \notin S => Cardinality(S \cup {s}) = Cardinality(S) + 1
    BY FS_AddElement, Zenon
  <2>3. Cardinality(Users(thread, a) \cup {s}) = Cardinality(Users(thread, a)) + 1
    BY <1>5, <2>1, <2>2, Zenon
  <2> QED
    BY <1>5, <2>3, Zenon
<1>9. Counted'
  <2> SUFFICES ASSUME NEW b \in live
               PROVE  apd'[b].users = apd'[b].extra + Cardinality(Users(thread', b))
    BY DEF Counted
  <2>1. CASE b = a
    <3>1. apd[a].users = apd[a].extra + Cardinality(Users(thread, a))
          /\ Cardinality(Users(thread, a)) \in Nat
      BY UsersFinite DEF Uses, Counted
    <3>2. apd[a].users + 1 = apd[a].extra + Cardinality(Users(thread', a))
      BY <1>2, <1>8, <3>1
    <3> QED
      BY <1>3, <2>1, <3>2
  <2>2. CASE b # a
    <3>1. apd'[b] = apd[b] /\ Users(thread', b) = Users(thread, b)
      BY <1>1, <1>3, <1>6, <2>2
    <3> QED
      BY <3>1 DEF Uses, Counted
  <2> QED
    BY <2>1, <2>2
<1>10. Exact(thread', head, a)
  <2>1. CASE /\ thread[s].state = "pooled" /\ thread[s].home = a /\ apd[a].pool = s
             /\ head = thread[s].next /\ r.next = head
    <3>1. s \in Pooled(thread, a)
      BY <2>1 DEF Pooled
    <3>2. Exact(thread, s, a)
      BY <2>1, <3>1 DEF Uses, PoolsSound, Stale
    <3>3. \A t \in Pooled(thread, a) : thread'[t].next = thread[t].next
      BY <1>4, <2>1 DEF Pooled
    <3>4. Exact(thread', thread[s].next, a)
      BY <1>5, <3>1, <3>2, <3>3, ExactPop
    <3> QED
      BY <2>1, <3>4
  <2>2. CASE thread[s].state # "pooled" /\ apd[a].pool = None /\ head = None
    <3>1. Exact(thread, None, a)
      BY <2>2 DEF Uses, PoolsSound, Stale
    <3>2. s \notin Pooled(thread, a) /\ Pooled(thread, a) \subseteq Structs
      BY <2>2 DEF Pooled
    <3>3. \A t \in Pooled(thread, a) : thread'[t].next = thread[t].next
      BY <1>4, <3>2
    <3>4. Pooled(thread', a) = Pooled(thread, a)
      BY <1>5, <3>2
    <3> QED
      BY <2>2, <3>1, <3>3, <3>4, ExactKept
  <2> QED
    BY <2>1, <2>2
<1>11. PoolsSound'
  <2> SUFFICES ASSUME NEW b \in live
               PROVE  Exact(thread', apd'[b].pool, b) \/ Stale(thread', apd'[b], b)
    BY DEF PoolsSound
  <2>1. CASE b = a
    BY <1>3, <1>10, <2>1
  <2>2. CASE b # a
    <3>1. /\ apd'[b] = apd[b] /\ Users(thread', b) = Users(thread, b)
          /\ Pooled(thread', b) = Pooled(thread, b)
      BY <1>1, <1>3, <1>6, <2>2
    <3>2. \A t \in Pooled(thread, b) : thread'[t].next = thread[t].next
      <4>1. s \notin Pooled(thread, b)
        BY <2>2 DEF Pooled
      <4> QED
        BY <1>4, <4>1 DEF Pooled
    <3>3. CASE Exact(thread, apd[b].pool, b)
      BY <3>1, <3>2, <3>3, ExactKept
    <3>4. CASE Stale(thread, apd[b], b)
      BY <3>1, <3>4 DEF Stale
    <3> QED
      BY <3>3, <3>4 DEF Uses, PoolsSound
  <2> QED
    BY <2>1, <2>2
<1> QED
  BY <1>7, <1>9, <1>11 DEF Uses

\* An APD gets a user that does not exist.
LEMMA UsesStartFails ==
    ASSUME TypeOK, Uses, NEW a \in live, apd[a].pool = None, live' = live,
           \A b \in Blocks : /\ Users(thread', b) = Users(thread, b)
                             /\ Pooled(thread', b) = Pooled(thread, b),
           \A s \in Structs : thread'[s].next = thread[s].next,
           apd' = [apd EXCEPT ![a].users = @ + 1, ![a].extra = @ + 1]
    PROVE  Uses'
<1>1. live \subseteq Blocks /\ apd \in [Blocks -> Apds] /\ a \in Blocks
  BY DEF TypeOK
<1>2. apd[a].users \in Nat /\ apd[a].extra \in Nat
  BY <1>1 DEF Apds
<1>3. /\ apd'[a].users = apd[a].users + 1 /\ apd'[a].extra = apd[a].extra + 1
      /\ apd'[a].pool = None /\ \A b \in Blocks : b # a => apd'[b] = apd[b]
  BY <1>1 DEF Apds
<1>4. HomesAlive'
  BY DEF Uses, HomesAlive
<1>5. Counted'
  <2> SUFFICES ASSUME NEW b \in live
               PROVE  apd'[b].users = apd'[b].extra + Cardinality(Users(thread', b))
    BY DEF Counted
  <2>1. apd[b].users = apd[b].extra + Cardinality(Users(thread, b))
        /\ Cardinality(Users(thread, b)) \in Nat
    BY UsersFinite DEF Uses, Counted
  <2>2. Users(thread', b) = Users(thread, b)
    BY <1>1
  <2>3. CASE b = a
    <3>1. apd[a].users + 1 = (apd[a].extra + 1) + Cardinality(Users(thread, b))
      BY <1>2, <2>1, <2>3
    <3> QED
      BY <1>3, <2>2, <2>3, <3>1
  <2>4. CASE b # a
    <3>1. apd'[b] = apd[b]
      BY <1>1, <1>3, <2>4
    <3> QED
      BY <2>1, <2>2, <3>1
  <2> QED
    BY <2>3, <2>4
<1>6. PoolsSound'
  <2> SUFFICES ASSUME NEW b \in live
               PROVE  Exact(thread', apd'[b].pool, b) \/ Stale(thread', apd'[b], b)
    BY DEF PoolsSound
  <2>1. /\ Users(thread', b) = Users(thread, b) /\ Pooled(thread', b) = Pooled(thread, b)
        /\ apd'[b].pool = apd[b].pool
    BY <1>1, <1>3
  <2>2. \A t \in Pooled(thread, b) : thread'[t].next = thread[t].next
    BY DEF Pooled
  <2>3. CASE Exact(thread, apd[b].pool, b)
    BY <2>1, <2>2, <2>3, ExactKept
  <2>4. CASE Stale(thread, apd[b], b)
    <3>1. b # a /\ apd'[b] = apd[b]
      BY <1>1, <1>3, <2>4 DEF Stale
    <3> QED
      BY <2>1, <2>4, <3>1 DEF Stale
  <2> QED
    BY <2>3, <2>4 DEF Uses, PoolsSound
<1> QED
  BY <1>4, <1>5, <1>6 DEF Uses

-----------------------------------------------------------------------------
(* Closing, leaving and types *)

Pre == TypeOK /\ stop = "no" /\ Sound

\* An APD that is closed is marked, if it has users.
Marks(a) == /\ apd[a].users # 0
            /\ apd' = [apd EXCEPT ![a].closing = TRUE]
            /\ UNCHANGED <<live, thread, stop>>

Goes(a) ==
    /\ apd[a].users = 0 /\ apd[a].extra = 0 /\ Users(thread, a) = {}
    /\ Users(thread', a) = {} /\ live' = live \ {a} /\ apd'[a] = Blank
    /\ \A b \in Blocks : b # a => apd'[b] = apd[b]
    /\ \A t \in Structs : \/ thread'[t] = thread[t]
                          \/ thread[t].state = "pooled" /\ thread'[t].state = "freed"

LEMMA ClosesFacts ==
    ASSUME TypeOK, Uses, NEW a \in live, Closes(a)
    PROVE  /\ Uses' /\ live' \subseteq Blocks /\ apd' \in [Blocks -> Apds]
           /\ thread' \in [Structs -> Threads]
           /\ stop' \in {"no", "assertion", "shared", "vcache"}
           /\ Marks(a) \/ Goes(a)
           /\ \A b : Users(thread', b) = Users(thread, b)
<1>1. live \subseteq Blocks /\ apd \in [Blocks -> Apds] /\ thread \in [Structs -> Threads]
      /\ a \in Blocks
  BY DEF TypeOK
<1>2. CASE apd[a].users # 0
  <2>1. Marks(a)
    BY <1>2 DEF Marks, Closes
  <2>2. \A b \in Blocks : /\ apd'[b].users = apd[b].users /\ apd'[b].extra = apd[b].extra
                          /\ apd'[b].pool = apd[b].pool
    BY <1>1, <2>1 DEF Marks, Apds
  <2>3. Uses'
    BY <1>1, <2>1, <2>2, UsesUndisturbed DEF Marks, Undisturbed
  <2>4. apd' \in [Blocks -> Apds]
    BY <1>1, <2>1 DEF Marks, Apds
  <2>5. stop' \in {"no", "assertion", "shared", "vcache"}
    BY <2>1 DEF Marks, TypeOK
  <2> QED
    BY <1>1, <2>1, <2>3, <2>4, <2>5 DEF Marks
<1>3. CASE apd[a].users = 0
  <2>1. Frees(a, apd[a], thread)
    BY <1>3 DEF Closes
  <2>2. Uses' /\ apd[a].extra = 0 /\ Users(thread, a) = {} /\ Exact(thread, apd[a].pool, a)
    BY <1>3, <2>1, UsesFreed
  <2>3. /\ thread' \in [Structs -> Threads]
        /\ apd' \in [Blocks -> Apds] /\ apd'[a] = Blank
        /\ \A b \in Blocks : b # a => apd'[b] = apd[b]
        /\ live' = live \ {a} /\ stop' \in {"no", "assertion", "vcache"}
        /\ \A s \in Structs : thread'[s] = IF s \in Pooled(thread, a)
                                          THEN [Unused EXCEPT !.state = "freed"] ELSE thread[s]
        /\ \A b : Users(thread', b) = Users(thread, b)
    BY <1>1, <2>1, <2>2, FreesFacts
  <2>4. [Unused EXCEPT !.state = "freed"].state = "freed"
    BY DEF Unused
  <2>5. \A t \in Structs : \/ thread'[t] = thread[t]
                           \/ thread[t].state = "pooled" /\ thread'[t].state = "freed"
    BY <2>3, <2>4 DEF Pooled
  <2>6. Goes(a)
    BY <1>3, <2>2, <2>3, <2>5 DEF Goes
  <2> QED
    BY <1>1, <2>2, <2>3, <2>6
<1> QED
  BY <1>2, <1>3

\* The threads once a procedure's caller goes on.
GoesOn(s) == [thread EXCEPT ![thread[s].parent].state = "run"]

LEMMA ReturnLeaves ==
    ASSUME Pre, NEW s \in Structs, Return(s)
    PROVE  Leaves(s, GoesOn(s))
<1> DEFINE p  == thread[s].parent
           th == GoesOn(s)
<1>1. thread \in [Structs -> Threads] /\ thread[s].state = "run" /\ thread[s].pdx
  BY DEF Pre, TypeOK, Return
<1>2. p \in Structs /\ thread[p].state = "call"
  BY <1>1 DEF Pre, Sound, ParentsWait
<1>3. th = [thread EXCEPT ![p].state = "run"]
  BY DEF GoesOn
<1> HIDE DEF th, p
<1>4. [thread[p] EXCEPT !.state = "run"] \in Threads
  BY <1>1, <1>2 DEF Threads, ThreadStates
<1>5. th \in [Structs -> Threads]
  BY <1>1, <1>3, <1>4
<1>6. /\ \A t \in Structs : th[t].home = thread[t].home /\ th[t].next = thread[t].next
      /\ \A t \in Structs : t # p => th[t] = thread[t]
      /\ th[p].state = "run"
  BY <1>1, <1>2, <1>3 DEF Threads
<1>7. \A a \in Blocks : Users(th, a) = Users(thread, a) /\ Pooled(th, a) = Pooled(thread, a)
  BY <1>2, <1>6 DEF Users, Pooled
<1>8. Releases(s, th)
  BY <1>3 DEF Return, p
<1> QED
  BY <1>1, <1>5, <1>6, <1>7, <1>8 DEF Leaves, th

LEMMA ReapLeaves ==
    ASSUME Pre, NEW r \in Structs, NEW z \in Structs, Reap(r, z)
    PROVE  Leaves(z, thread)
  BY DEF Pre, TypeOK, Leaves, Reap

LEMMA TypeInit == Init => TypeOK
<1> SUFFICES ASSUME Init PROVE TypeOK
  OBVIOUS
<1> USE DEF Init
<1>1. live \subseteq Blocks /\ Home \in Blocks /\ Root \in Structs /\ Child \in Structs
  BY PdxAssumption
<1>2. Blank \in Apds /\ [Blank EXCEPT !.users = 2] \in Apds
  <2>1. Blank \in Apds
    BY PdxAssumption DEF Blank, Apds, Serials
  <2> QED
    BY <2>1 DEF Apds
<1>3. apd \in [Blocks -> Apds]
  BY <1>2
<1>4. NoEntry \in Entries /\ NoCall \in CachedCalls
  BY PdxAssumption DEF NoEntry, NoCall, Entries, CachedCalls, Positions, Serials
<1>5. table \in [Positions -> Entries] /\ pdx_cache \in [Buckets -> CachedCalls]
  BY <1>4
<1>6. /\ Unused \in Threads /\ [Unused EXCEPT !.state = "run"] \in Threads
      /\ [Unused EXCEPT !.state = "run", !.parent = Root] \in Threads
  BY <1>1 DEF Unused, Threads, ThreadStates
<1>7. thread \in [Structs -> Threads]
  BY <1>6
<1>8. req \in Requests
  BY DEF Idle, Requests, Steps
<1>9. /\ apd_table \in [Pds -> Blocks \cup {None}] /\ registered \in [Procs -> Clists \cup {None}]
      /\ now \in 0 .. MaxTime /\ faults \in 0 .. MaxFaults /\ lost \subseteq Blocks
      /\ stop \in {"no", "assertion", "shared", "vcache"}
  BY PdxAssumption
<1>10. apd_serial \in Serials
  BY PdxAssumption DEF Serials
<1> QED
  BY <1>1, <1>3, <1>5, <1>7, <1>8, <1>9, <1>10 DEF TypeOK

\* A thread goes from one state to another and keeps its APD.
LEMMA UsesTurns ==
    ASSUME TypeOK, Uses, NEW s \in Structs, NEW x \in {"run", "call", "zombie"},
           thread[s].state \in {"run", "call", "zombie"}, live' = live,
           thread' = [thread EXCEPT ![s].state = x],
           \A a \in live : /\ apd'[a].users = apd[a].users /\ apd'[a].extra = apd[a].extra
                           /\ apd'[a].pool = apd[a].pool
    PROVE  Uses' /\ thread' \in [Structs -> Threads] /\ \A a : Users(thread', a) = Users(thread, a)
<1>1. thread \in [Structs -> Threads] /\ live \subseteq Blocks
  BY DEF TypeOK
<1>2. [thread[s] EXCEPT !.state = x] \in Threads
  BY <1>1 DEF Threads, ThreadStates
<1>3. thread' \in [Structs -> Threads]
  BY <1>1, <1>2
<1>4. /\ \A t \in Structs : thread'[t].home = thread[t].home /\ thread'[t].next = thread[t].next
      /\ \A t \in Structs : t # s => thread'[t] = thread[t]
      /\ thread'[s].state = x
  BY <1>1 DEF Threads
<1>5. \A a : Users(thread', a) = Users(thread, a) /\ Pooled(thread', a) = Pooled(thread, a)
  BY <1>4 DEF Users, Pooled
<1>6. Undisturbed
  BY <1>4, <1>5 DEF Undisturbed
<1> QED
  BY <1>1, <1>3, <1>5, <1>6, UsesUndisturbed

LEMMA UsesSame ==
    ASSUME TypeOK, Uses, UNCHANGED <<live, thread, apd>>
    PROVE  Uses'
  BY UsesUndisturbed DEF TypeOK, Undisturbed

\* What each action does to the types and to the use counts.
Kept == TypeOK' /\ (stop' = "no" => Uses')

LEMMA PreFacts ==
    ASSUME Pre
    PROVE  /\ TypeOK /\ Uses /\ stop = "no"
           /\ live \subseteq Blocks /\ apd \in [Blocks -> Apds]
           /\ thread \in [Structs -> Threads] /\ table \in [Positions -> Entries]
           /\ pdx_cache \in [Buckets -> CachedCalls] /\ req \in Requests
           /\ registered \in [Procs -> Clists \cup {None}]
           /\ apd_table \in [Pds -> Blocks \cup {None}]
           /\ apd_serial \in Serials /\ now \in 0 .. MaxTime
  BY DEF Pre, Sound, Uses, TypeOK

LEMMA CallKept ==
    ASSUME Pre, NEW c \in Structs, NEW p \in Procs, NEW pd \in PdArgs, Call(c, p, pd)
    PROVE  Kept
<1>1. thread[c] \in Threads /\ thread[c].state = "run" /\ UNCHANGED <<live, apd>>
  BY PreFacts DEF Call
<1>2. thread' = [thread EXCEPT ![c].state = "call"]
  BY DEF Call
<1>3. Uses' /\ thread' \in [Structs -> Threads]
  BY <1>1, <1>2, UsesTurns, PreFacts
<1>4. Hash(thread[c].home, p, pd) \in Buckets
  BY <1>1, PdxAssumption DEF Threads, PdArgs
<1>5. pdx_cache[Hash(thread[c].home, p, pd)].pos \in Positions
  BY <1>4, PreFacts DEF CachedCalls
<1>6. table[pdx_cache[Hash(thread[c].home, p, pd)].pos].apd \in Blocks \cup {None}
  BY <1>5, PreFacts DEF Entries
<1>7. req' \in Requests
  <2>1. thread[c].home \in Blocks
    BY <1>1 DEF Threads
  <2> QED
    BY <1>6, <2>1 DEF Call, Idle, Requests, Steps
<1> QED
  BY <1>3, <1>7, PreFacts DEF Kept, TypeOK, Call

LEMMA FailsTurns ==
    ASSUME Pre, req.step # "none", Fails, live' = live,
           \A a \in live : /\ apd'[a].users = apd[a].users /\ apd'[a].extra = apd[a].extra
                           /\ apd'[a].pool = apd[a].pool
    PROVE  /\ Uses' /\ thread' \in [Structs -> Threads] /\ req' \in Requests
           /\ \A a : Users(thread', a) = Users(thread, a)
<1>1. req.caller \in Structs /\ thread[req.caller].state = "call"
  BY DEF Pre, Sound, CallerSound
<1>2. req' \in Requests
  BY DEF Fails, Idle, Requests, Steps
<1>3. thread' = [thread EXCEPT ![req.caller].state = "run"]
  BY DEF Fails
<1> QED
  BY <1>1, <1>2, <1>3, UsesTurns, PreFacts

LEMMA FindPdKept ==
    ASSUME Pre, FindPd
    PROVE  Kept
<1>1. req.pd \in Pds
  BY DEF Pre, Sound, OrigSound, FindPd
<1>2. CASE apd_table[req.pd] # None /\ UNCHANGED <<live, apd, apd_table, thread, apd_serial>>
           /\ req' = [req EXCEPT !.step = "search", !.orig = apd_table[req.pd]]
  <2>1. req' \in Requests
    BY <1>1, <1>2, PreFacts DEF Requests, Steps
  <2> QED
    BY <1>2, <2>1, PreFacts, UsesSame DEF Kept, TypeOK, FindPd
<1>3. ASSUME NEW b \in Blocks \ live, apd_serial < MaxSerial, live' = live \cup {b},
             apd' = [apd EXCEPT ![b] =
                           [Blank EXCEPT !.serial = apd_serial, !.vcache = apd_serial]],
             apd_table' = [apd_table EXCEPT ![req.pd] = b],
             apd_serial' = apd_serial + 1,
             req' = [req EXCEPT !.step = "search", !.orig = b],
             UNCHANGED thread
      PROVE  Kept
  <2> DEFINE r == [Blank EXCEPT !.serial = apd_serial, !.vcache = apd_serial]
  <2>1. r \in Apds /\ r.users = r.extra /\ r.users \in Nat /\ r.pool = None
    BY PreFacts DEF Blank, Apds
  <2> HIDE DEF r
  <2>2. apd' = [apd EXCEPT ![b] = r]
    BY <1>3 DEF r
  <2>3. Uses'
    BY <1>3, <2>1, <2>2, PreFacts, UsesMade
  <2>4. req' \in Requests
    BY <1>3, PreFacts DEF Requests, Steps
  <2>5. apd' \in [Blocks -> Apds] /\ live' \subseteq Blocks
        /\ apd_table' \in [Pds -> Blocks \cup {None}]
    BY <1>3, <2>1, <2>2, PreFacts
  <2>6. apd_serial' \in Serials
    BY <1>3, PreFacts, PdxAssumption DEF Serials
  <2> QED
    BY <1>3, <2>3, <2>4, <2>5, <2>6, PreFacts DEF Kept, TypeOK, FindPd
<1>4. CASE Fails /\ apd_serial' \in {apd_serial, apd_serial + 1} \cap Serials
           /\ UNCHANGED <<live, apd, apd_table>>
  <2>1. Uses' /\ thread' \in [Structs -> Threads] /\ req' \in Requests
    BY <1>4, FailsTurns DEF FindPd
  <2> QED
    BY <1>4, <2>1, PreFacts DEF Kept, TypeOK, FindPd
<1> QED
  BY <1>2, <1>3, <1>4 DEF FindPd

LEMMA AddsType ==
    ASSUME Pre, NEW i \in Positions, NEW n \in Serials, req.step # "none", Adds(i, n)
    PROVE  /\ Hash(req.src, req.proc, req.pd) \in Buckets
           /\ pdx_cache' \in [Buckets -> CachedCalls]
<1> DEFINE h == Hash(req.src, req.proc, req.pd)
           e == [src |-> req.src, proc |-> req.proc, pd |-> req.pd, pos |-> i,
                 serial |-> n, verified |-> now,
                 outlived |-> FALSE]
<1>1. req.src \in Blocks /\ req.proc \in Procs /\ req.pd \in PdArgs
  BY PreFacts DEF Pre, Sound, CallerSound
<1>2. h \in Buckets
  BY <1>1, PdxAssumption DEF PdArgs
<1>3. e \in CachedCalls
  BY <1>1, PreFacts DEF CachedCalls
<1>4. pdx_cache' = [pdx_cache EXCEPT ![h] = e]
  BY DEF Adds
<1> HIDE DEF e, h
<1>5. pdx_cache' \in [Buckets -> CachedCalls]
  BY <1>2, <1>3, <1>4, PreFacts
<1> QED
  BY <1>2, <1>5 DEF h

LEMMA SearchHitsKept ==
    ASSUME Pre, SearchHits
    PROVE  Kept
<1>1. PICK i \in Positions : /\ First(i)
                             /\ req' = [req EXCEPT !.step = "start", !.apd = table[i].apd]
                             /\ Adds(i, apd[table[i].apd].serial)
  BY DEF SearchHits
<1>2. table[i].apd \in Blocks
  BY <1>1, PreFacts DEF First, Matching, Entries
<1>3. apd[table[i].apd].serial \in Serials
  BY <1>2, PreFacts DEF Apds
<1>4. pdx_cache' \in [Buckets -> CachedCalls]
  BY <1>1, <1>3, AddsType DEF SearchHits
<1>5. req' \in Requests
  BY <1>1, <1>2, PreFacts DEF Requests, Steps
<1> QED
  BY <1>4, <1>5, PreFacts, UsesSame DEF Kept, TypeOK, SearchHits

LEMMA SearchMissesKept ==
    ASSUME Pre, SearchMisses
    PROVE  Kept
<1>1. req' \in Requests
  BY PreFacts DEF Requests, Steps, SearchMisses
<1> QED
  BY <1>1, PreFacts, UsesSame DEF Kept, TypeOK, SearchMisses

LEMMA RemovedType ==
    ASSUME Pre, NEW a
    PROVE  TableWithout(a) \in [Positions -> Entries]
<1>1. NoEntry \in Entries
  BY PdxAssumption DEF NoEntry, Entries
<1> QED
  BY <1>1, PreFacts DEF TableWithout, Removed

LEMMA SearchClosesKept ==
    ASSUME Pre, SearchCloses
    PROVE  Kept
<1>1. req' \in Requests
  BY PreFacts DEF Requests, Steps, SearchCloses
<1>2. PICK i \in Positions :
         /\ First(i)
         /\ IF apd[table[i].apd].closing
            THEN stop' = "assertion" /\ UNCHANGED <<live, apd, table, thread>>
            ELSE table' = TableWithout(table[i].apd) /\ Closes(table[i].apd)
  BY DEF SearchCloses
<1>3. CASE stop' = "assertion" /\ UNCHANGED <<live, apd, table, thread>>
  BY <1>1, <1>3, PreFacts DEF Kept, TypeOK, SearchCloses
<1>4. CASE table' = TableWithout(table[i].apd) /\ Closes(table[i].apd)
  <2>1. table[i].apd \in live
    BY <1>2 DEF First, Matching, Pre, Sound, TableSound, Made
  <2>2. /\ Uses' /\ live' \subseteq Blocks /\ apd' \in [Blocks -> Apds]
        /\ thread' \in [Structs -> Threads] /\ stop' \in {"no", "assertion", "shared", "vcache"}
    BY <1>4, <2>1, PreFacts, ClosesFacts
  <2>3. table' \in [Positions -> Entries]
    BY <1>4, RemovedType
  <2> QED
    BY <1>1, <2>2, <2>3, PreFacts DEF Kept, TypeOK, SearchCloses
<1> QED
  BY <1>2, <1>3, <1>4

\* The APD that is copied has users, or has no threads.
LEMMA OrigUsed ==
    ASSUME Pre, req.step \in {"search", "make"}, req.orig # None
    PROVE  /\ req.orig \in live
           /\ \/ apd[req.orig].users # 0
              \/ apd[req.orig].pool = None /\ ~apd[req.orig].closing
<1>1. Names(req.pd, req.src, req.orig) /\ req.pd \in PdArgs
  BY DEF Pre, Sound, OrigSound, CallerSound
<1>2. CASE req.orig = req.src
  <2>1. /\ req.caller \in Structs /\ req.src \in live
        /\ thread[req.caller].state = "call" /\ thread[req.caller].home = req.src
    BY DEF Pre, Sound, CallerSound
  <2>2. req.caller \in Users(thread, req.src)
    BY <2>1 DEF Users
  <2>3. Cardinality(Users(thread, req.src)) # 0
    BY <2>2, UsersFinite, FS_EmptySet
  <2>4. apd[req.src].users = apd[req.src].extra + Cardinality(Users(thread, req.src))
    BY <2>1 DEF Pre, Sound, Counted
  <2>5. apd[req.src].extra \in Nat
    BY <2>1, PreFacts DEF Apds
  <2>6. apd[req.src].users # 0
    BY <2>3, <2>4, <2>5, UsersFinite
  <2> QED
    BY <1>2, <2>1, <2>6
<1>3. CASE req.pd \in Pds /\ req.orig = apd_table[req.pd]
  BY <1>3 DEF Pre, Sound, PdsUnused
<1> QED
  BY <1>1, <1>2, <1>3 DEF Names, PdArgs

\* What is merged: a copy has users that none of its threads accounts for, if it has a
\* pool.
LEMMA MergedFacts ==
    ASSUME Pre, req.step = "make", apd_serial < MaxSerial
    PROVE  /\ Merged \in Apds /\ Merged.users = Merged.extra
           /\ Merged.pool = None \/ Merged.extra # 0
           /\ Merged.closing => Merged.extra # 0
           /\ Merged.serial = apd_serial /\ Merged.orig = req.orig
           /\ Merged.clist = registered[req.proc] /\ Merged.clist \in Clists
<1> DEFINE base == IF req.orig = None THEN [Blank EXCEPT !.vcache = apd_serial]
                   ELSE [apd[req.orig] EXCEPT !.held = 0, !.extra = apd[req.orig].users]
<1>1. req.proc \in Procs /\ registered[req.proc] \in Clists /\ req.orig \in Blocks \cup {None}
  BY PreFacts DEF Pre, Sound, CallerSound, OrigSound, Requests
<1>2. /\ base \in Apds /\ base.users = base.extra
      /\ base.pool = None \/ base.extra # 0
      /\ base.closing => base.extra # 0
  <2>1. CASE req.orig = None
    <3>1. Blank \in Apds
      BY PdxAssumption DEF Blank, Apds, Serials
    <3>2. base = [Blank EXCEPT !.vcache = apd_serial]
      BY <2>1
    <3>3. base.users = 0 /\ base.extra = 0 /\ base.pool = None /\ base.closing = FALSE
      BY <3>2 DEF Blank
    <3>4. base \in Apds
      BY <3>1, <3>2, PreFacts DEF Apds
    <3> QED
      BY <3>3, <3>4
  <2>2. CASE req.orig # None
    <3>1. apd[req.orig] \in Apds
      BY <1>1, <2>2, PreFacts
    <3>2. base = [apd[req.orig] EXCEPT !.held = 0, !.extra = apd[req.orig].users]
      BY <2>2
    <3> HIDE DEF base
    <3>3. base \in Apds
      BY <3>1, <3>2 DEF Apds
    <3>4. /\ base.users = apd[req.orig].users /\ base.extra = apd[req.orig].users
          /\ base.pool = apd[req.orig].pool
      BY <3>1, <3>2 DEF Apds
    <3>5. base.closing = apd[req.orig].closing
      BY <3>1, <3>2 DEF Apds
    <3>6. \/ apd[req.orig].users # 0
          \/ apd[req.orig].pool = None /\ ~apd[req.orig].closing
      BY <2>2, OrigUsed
    <3>7. base.closing => base.extra # 0
      BY <3>4, <3>5, <3>6
    <3> QED
      BY <3>3, <3>4, <3>6, <3>7
  <2> QED
    BY <2>1, <2>2
<1>3. Merged = [base EXCEPT !.serial = apd_serial, !.orig = req.orig,
                            !.clist = registered[req.proc]]
  BY DEF Merged
<1> HIDE DEF base
<1> QED
  BY <1>1, <1>2, <1>3, PreFacts DEF Apds

LEMMA MakeKept ==
    ASSUME Pre, Make
    PROVE  Kept
<1>1. PICK b \in Blocks \ live : /\ live' = live \cup {b} /\ apd' = [apd EXCEPT ![b] = Merged]
                                 /\ req' = [req EXCEPT !.step = "insert", !.apd = b]
  BY DEF Make
<1>2. Merged \in Apds /\ Merged.users = Merged.extra /\ (Merged.pool = None \/ Merged.extra # 0)
  BY MergedFacts DEF Make
<1> HIDE DEF Merged
<1>3. Uses'
  <2>1. Merged.users \in Nat
    BY <1>2 DEF Apds
  <2> QED
    BY <1>1, <1>2, <2>1, PreFacts, UsesMade DEF Make
<1>4. req' \in Requests
  BY <1>1, PreFacts DEF Requests, Steps
<1>5. apd' \in [Blocks -> Apds] /\ live' \subseteq Blocks
  BY <1>1, <1>2, PreFacts
<1>6. apd_serial' \in Serials
  BY PreFacts, PdxAssumption DEF Make, Serials
<1> QED
  BY <1>3, <1>4, <1>5, <1>6, PreFacts DEF Kept, TypeOK, Make

LEMMA MakeFailsKept ==
    ASSUME Pre, MakeFails
    PROVE  Kept
<1>1. Uses' /\ thread' \in [Structs -> Threads] /\ req' \in Requests
  BY FailsTurns DEF MakeFails
<1>2. apd_serial' \in Serials
  BY PreFacts, PdxAssumption DEF MakeFails, Serials
<1>3. stop' \in {"no", "vcache"}
  BY PreFacts DEF MakeFails
<1> QED
  BY <1>1, <1>2, <1>3, PreFacts DEF Kept, TypeOK, MakeFails

LEMMA EnteredType ==
    ASSUME Pre, req.step # "none"
    PROVE  Entered \in Entries
<1>1. req.proc \in Procs
  BY DEF Pre, Sound, CallerSound
<1> QED
  BY <1>1, PreFacts DEF Entered, Entries, Requests

LEMMA InsertedType ==
    ASSUME Pre, req.step = "insert", NEW i \in Positions, Inserted(i)
    PROVE  req' \in Requests /\ pdx_cache' \in [Buckets -> CachedCalls]
<1>1. apd[req.apd].serial \in Serials
  <2>1. req.apd \in Blocks
    BY PreFacts DEF Pre, Sound, ApdSound, FromDeleted, Made
  <2> QED
    BY <2>1, PreFacts DEF Apds
<1>2. req' \in Requests
  BY PreFacts DEF Inserted, Requests, Steps
<1> QED
  BY <1>1, <1>2, AddsType DEF Inserted

LEMMA InsertKept ==
    ASSUME Pre, Insert
    PROVE  Kept
<1>1. PICK i \in FreePositions : table' = [table EXCEPT ![i] = Entered] /\ Inserted(i)
  BY DEF Insert
<1>2. i \in Positions
  BY DEF FreePositions
<1>3. req' \in Requests /\ pdx_cache' \in [Buckets -> CachedCalls]
  BY <1>1, <1>2, InsertedType DEF Insert
<1>4. table' \in [Positions -> Entries]
  BY <1>1, EnteredType, PreFacts DEF Insert
<1> QED
  BY <1>3, <1>4, PreFacts, UsesSame DEF Kept, TypeOK, Insert

LEMMA InsertFullKept ==
    ASSUME Pre, InsertFull
    PROVE  Kept
<1> DEFINE a == table[TableSize].apd
<1>1. PICK i \in Positions : /\ table' = [TableWithout(a) EXCEPT ![i] = Entered]
                             /\ lost' = lost \cup ({table[i].apd} \ {a})
                             /\ Inserted(i)
  BY DEF InsertFull
<1>2. TableSize \in Positions
  BY PdxAssumption DEF Positions
<1>3. a \in live
  BY <1>2 DEF InsertFull, FreePositions, Pre, Sound, TableSound, Made
<1>4. Closes(a)
  BY DEF InsertFull
<1>5. /\ Uses' /\ live' \subseteq Blocks /\ apd' \in [Blocks -> Apds]
      /\ thread' \in [Structs -> Threads] /\ stop' \in {"no", "assertion", "shared", "vcache"}
  BY <1>3, <1>4, PreFacts, ClosesFacts
<1>6. req' \in Requests /\ pdx_cache' \in [Buckets -> CachedCalls]
  BY <1>1, InsertedType DEF InsertFull
<1>7. table' \in [Positions -> Entries]
  <2>1. TableWithout(a) \in [Positions -> Entries] /\ Entered \in Entries
    BY RemovedType, EnteredType DEF InsertFull
  <2> QED
    BY <1>1, <2>1
<1>8. lost' \subseteq Blocks
  <2>1. table[i].apd \in Blocks
    BY PreFacts DEF InsertFull, FreePositions, Entries
  <2> QED
    BY <1>1, <2>1, PreFacts DEF TypeOK
<1> QED
  BY <1>5, <1>6, <1>7, <1>8, PreFacts DEF Kept, TypeOK, InsertFull

LEMMA InsertFullHaltsKept ==
    ASSUME Pre, InsertFullHalts
    PROVE  Kept
  BY PreFacts DEF Kept, TypeOK, InsertFullHalts

\* The call that is about to start has an APD.
LEMMA StartApd ==
    ASSUME Pre, req.step = "start"
    PROVE  /\ req.apd \in live /\ req.apd \in Blocks /\ apd[req.apd] \in Apds
           /\ req.caller \in Structs
<1>1. req.apd \in live /\ req.caller \in Structs
  BY DEF Pre, Sound, ApdSound, FromDeleted, Made, CallerSound
<1> QED
  BY <1>1, PreFacts

LEMMA StartPooledKept ==
    ASSUME Pre, StartPooled
    PROVE  Kept
<1> DEFINE a == req.apd
           s == apd[a].pool
           r == [thread[s] EXCEPT !.state = "run", !.in_apd = a, !.parent = req.caller,
                                  !.pdx = TRUE]
<1>1. a \in live /\ a \in Blocks /\ apd[a] \in Apds /\ req.caller \in Structs
  BY StartApd DEF StartPooled
<1>2. s \in Structs /\ apd[a].users \in Nat
  BY <1>1 DEF StartPooled, Apds
<1>3. thread[s] \in Threads
  BY <1>2, PreFacts
<1>4. r \in Threads /\ r.state = "run" /\ r.home = thread[s].home /\ r.next = thread[s].next
  BY <1>1, <1>3 DEF Threads, ThreadStates
<1>5. thread' = [thread EXCEPT ![s] = r]
  BY <1>2, PreFacts DEF StartPooled
<1>6. apd' = [apd EXCEPT ![a].users = @ + 1, ![a].pool = thread[s].next]
  BY DEF StartPooled, WithUser
<1>7. /\ req' = Idle
      /\ stop' = IF thread[s].state = "pooled" /\ thread[s].home = a THEN "no" ELSE "shared"
      /\ UNCHANGED <<live, apd_table, table, pdx_cache, registered, apd_serial, now,
                     faults, lost>>
  BY DEF StartPooled
<1> HIDE DEF r, s, a
<1>8. apd' \in [Blocks -> Apds]
  <2>1. thread[s].next \in Structs \cup {None}
    BY <1>3 DEF Threads
  <2>2. [apd[a] EXCEPT !.users = @ + 1, !.pool = thread[s].next] \in Apds
    <3>1. apd[a].users + 1 \in Nat
      BY <1>2
    <3>2. \A u \in Nat, h \in Structs \cup {None} : [apd[a] EXCEPT !.users = u, !.pool = h] \in Apds
      BY <1>1 DEF Apds
    <3> QED
      BY <2>1, <3>1, <3>2
  <2>3. apd' = [apd EXCEPT ![a] = [apd[a] EXCEPT !.users = @ + 1, !.pool = thread[s].next]]
    BY <1>1, <1>6, PreFacts
  <2> QED
    BY <2>2, <2>3, PreFacts
<1>9. thread' \in [Structs -> Threads]
  BY <1>4, <1>5, PreFacts
<1>10. ASSUME stop' = "no" PROVE Uses'
  <2>1. thread[s].state = "pooled" /\ thread[s].home = a /\ apd[a].pool = s
    BY <1>7, <1>10 DEF s
  <2>2. live' = live
    BY <1>7
  <2> QED
    BY <1>1, <1>2, <1>4, <1>5, <1>6, <2>1, <2>2, PreFacts, UsesStarts
<1>11. req' \in Requests
  BY <1>7 DEF Idle, Requests, Steps
<1> QED
  BY <1>7, <1>8, <1>9, <1>10, <1>11, PreFacts DEF Kept, TypeOK

LEMMA StartNewKept ==
    ASSUME Pre, StartNew
    PROVE  Kept
<1> DEFINE a == req.apd
           r == [state |-> "run", home |-> a, in_apd |-> a, parent |-> req.caller,
                 pdx |-> TRUE, next |-> None]
<1>1. a \in live /\ a \in Blocks /\ apd[a] \in Apds /\ req.caller \in Structs
  BY StartApd DEF StartNew
<1>2. PICK s \in Structs : /\ thread[s].state \in {"unused", "freed"}
                           /\ thread' = [thread EXCEPT ![s] = r]
  BY DEF StartNew
<1>3. r \in Threads /\ r.state = "run" /\ r.home = a
  BY <1>1 DEF Threads, ThreadStates
<1>4. /\ apd' = [apd EXCEPT ![a].users = @ + 1] /\ apd[a].pool = None
      /\ req' = Idle /\ stop' = stop
      /\ UNCHANGED <<live, apd_table, table, pdx_cache, registered, apd_serial, now,
                     faults, lost>>
  BY DEF StartNew, WithUser
<1> HIDE DEF r, a
<1>5. apd[a].users \in Nat
  BY <1>1 DEF Apds
<1>6. apd' = [apd EXCEPT ![a].users = @ + 1, ![a].pool = None]
  <2>1. [apd[a] EXCEPT !.users = @ + 1] = [apd[a] EXCEPT !.users = @ + 1, !.pool = None]
    BY <1>1, <1>4 DEF Apds
  <2>2. [apd EXCEPT ![a].users = @ + 1] = [apd EXCEPT ![a] = [apd[a] EXCEPT !.users = @ + 1]]
    BY <1>1, PreFacts
  <2>3. [apd EXCEPT ![a].users = @ + 1, ![a].pool = None] =
            [apd EXCEPT ![a] = [apd[a] EXCEPT !.users = @ + 1, !.pool = None]]
    BY <1>1, PreFacts
  <2> QED
    BY <1>4, <2>1, <2>2, <2>3
<1>7. Uses'
  <2>1. live' = live /\ thread[s].state # "pooled"
        /\ thread[s].state \in {"unused", "freed", "pooled"}
    BY <1>2, <1>4
  <2> QED
    BY <1>1, <1>2, <1>3, <1>4, <1>6, <2>1, PreFacts, UsesStarts
<1>8. apd' \in [Blocks -> Apds]
  BY <1>1, <1>4, <1>5, PreFacts DEF Apds
<1>9. thread' \in [Structs -> Threads]
  BY <1>2, <1>3, PreFacts
<1>10. req' \in Requests
  BY <1>4 DEF Idle, Requests, Steps
<1> QED
  BY <1>4, <1>7, <1>8, <1>9, <1>10, PreFacts DEF Kept, TypeOK

LEMMA StartFailsKept ==
    ASSUME Pre, StartFails
    PROVE  Kept
<1> DEFINE a == req.apd
<1>1. a \in live /\ a \in Blocks /\ apd[a] \in Apds /\ req.caller \in Structs
  BY StartApd DEF StartFails
<1>2. apd' = [apd EXCEPT ![a].users = @ + 1, ![a].extra = @ + 1] /\ apd[a].pool = None
  BY DEF StartFails, WithUser
<1>3. apd[a].users \in Nat /\ apd[a].extra \in Nat
  BY <1>1 DEF Apds
<1>4. apd' \in [Blocks -> Apds]
  BY <1>1, <1>2, <1>3, PreFacts DEF Apds
<1>5. live' = live /\ Fails /\ faults' \in 0 .. MaxFaults
  BY PdxAssumption DEF Pre, TypeOK, StartFails
<1>6. req' = Idle /\ thread' = [thread EXCEPT ![req.caller].state = "run"]
  BY <1>5 DEF Fails
<1> DEFINE c == req.caller
<1>7. thread[c].state = "call"
  BY DEF StartFails, Pre, Sound, CallerSound
<1>8. [thread[c] EXCEPT !.state = "run"] \in Threads
  BY <1>1, PreFacts DEF Threads, ThreadStates
<1>9. thread' \in [Structs -> Threads]
  BY <1>1, <1>6, <1>8, PreFacts
<1>10. /\ \A t \in Structs : thread'[t].home = thread[t].home /\ thread'[t].next = thread[t].next
       /\ \A t \in Structs : t # c => thread'[t] = thread[t]
       /\ thread'[c].state = "run"
  BY <1>1, <1>6, PreFacts DEF Threads
<1>11. \A b \in Blocks : Users(thread', b) = Users(thread, b) /\ Pooled(thread', b) = Pooled(thread, b)
  BY <1>7, <1>10 DEF Users, Pooled
<1>12. Uses'
  BY <1>1, <1>2, <1>5, <1>10, <1>11, PreFacts, UsesStartFails
<1>13. req' \in Requests
  BY <1>6 DEF Idle, Requests, Steps
<1> QED
  BY <1>4, <1>5, <1>9, <1>12, <1>13, PreFacts DEF Kept, TypeOK, StartFails

LEMMA ExitKept ==
    ASSUME Pre, NEW s \in Structs, Exit(s)
    PROVE  Kept
<1>1. thread' = [thread EXCEPT ![s].state = "zombie"] /\ UNCHANGED <<live, apd>>
      /\ thread[s].state = "run"
  BY DEF Exit
<1>2. Uses' /\ thread' \in [Structs -> Threads]
  BY <1>1, UsesTurns, PreFacts
<1>3. faults' \in 0 .. MaxFaults
  BY PdxAssumption DEF Pre, TypeOK, Exit
<1> QED
  BY <1>2, <1>3, PreFacts DEF Kept, TypeOK, Exit

LEMMA KillKept ==
    ASSUME Pre, NEW s \in Structs, Kill(s)
    PROVE  Kept
<1> DEFINE a == thread[s].home
<1>1. thread' = [thread EXCEPT ![s].state = "zombie"] /\ live' = live
      /\ thread[s].state = "run" /\ apd' = [apd EXCEPT ![a].held = @ + 1]
  BY DEF Kill
<1>2. a \in Blocks
  BY PreFacts DEF Threads
<1> HIDE DEF a
<1>3. \A b \in Blocks : /\ apd'[b].users = apd[b].users /\ apd'[b].extra = apd[b].extra
                        /\ apd'[b].pool = apd[b].pool
  BY <1>1, <1>2, PreFacts DEF Apds
<1>4. Uses' /\ thread' \in [Structs -> Threads]
  BY <1>1, <1>3, UsesTurns, PreFacts
<1>5. apd' \in [Blocks -> Apds]
  BY <1>1, <1>2, PreFacts DEF Apds
<1>6. faults' \in 0 .. MaxFaults
  BY PdxAssumption DEF Pre, TypeOK, Kill
<1> QED
  BY <1>4, <1>5, <1>6, PreFacts DEF Kept, TypeOK, Kill

LEMMA ReturnKept ==
    ASSUME Pre, NEW s \in Structs, Return(s)
    PROVE  Kept
<1>1. Leaves(s, GoesOn(s))
  BY ReturnLeaves
<1> QED
  BY <1>1, LeavesFacts, PreFacts DEF Kept, TypeOK, Return

LEMMA ReapKept ==
    ASSUME Pre, NEW r \in Structs, NEW z \in Structs, Reap(r, z)
    PROVE  Kept
<1>1. Leaves(z, thread)
  BY ReapLeaves
<1> QED
  BY <1>1, LeavesFacts, PreFacts DEF Kept, TypeOK, Reap

LEMMA RegisterKept ==
    ASSUME Pre, NEW p \in Procs, NEW l \in Clists \cup {None}, Register(p, l)
    PROVE  Kept
<1>1. Flushed \in [Buckets -> CachedCalls]
  BY PdxAssumption DEF Flushed, NoCall, CachedCalls, Positions, Serials
<1>2. pdx_cache' \in [Buckets -> CachedCalls]
  BY <1>1, PreFacts DEF Register
<1>3. registered' \in [Procs -> Clists \cup {None}]
  BY PreFacts DEF Register
<1> QED
  BY <1>2, <1>3, PreFacts, UsesSame DEF Kept, TypeOK, Register

LEMMA DeletedTyped ==
    ASSUME Pre, NEW p \in Procs
    PROVE  Deleted(p) \in [Buckets -> CachedCalls]
<1>1. ASSUME NEW h \in Buckets PROVE Deleted(p)[h] \in CachedCalls
  <2>1. pdx_cache[h] \in CachedCalls
    BY PreFacts
  <2> QED
    BY <2>1 DEF Deleted, CachedCalls
<1> QED
  BY <1>1 DEF Deleted

LEMMA DeleteObjectKept ==
    ASSUME Pre, NEW p \in Procs, DeleteObject(p)
    PROVE  Kept
<1>1. pdx_cache' \in [Buckets -> CachedCalls]
  BY DeletedTyped DEF DeleteObject
<1>2. registered' \in [Procs -> Clists \cup {None}]
  BY PreFacts DEF DeleteObject
<1> QED
  BY <1>1, <1>2, PreFacts, UsesSame DEF Kept, TypeOK, DeleteObject

LEMMA TickKept ==
    ASSUME Pre, Tick
    PROVE  Kept
<1>1. now' \in 0 .. MaxTime
  BY PreFacts, PdxAssumption DEF Tick
<1>2. table' \in [Positions -> Entries] /\ pdx_cache' \in [Buckets -> CachedCalls]
  BY PreFacts DEF Tick
<1> QED
  BY <1>1, <1>2, PreFacts, UsesSame DEF Kept, TypeOK, Tick

-----------------------------------------------------------------------------
(* What the actions keep of the rest *)

\* Who waits for whom, what the PDs and the table lead to, serial numbers.
Frame == ParentsWait /\ PdsUnused /\ TableSound /\ SerialsPast

\* The cached calls and the call in progress.
CallsSound == CacheSound /\ CallerSound /\ OrigSound /\ ApdSound /\ LeftMarked

Rest == Frame /\ CallsSound

LEMMA SoundParts ==
    ASSUME Pre
    PROVE  /\ HomesAlive /\ Counted /\ PoolsSound /\ ParentsWait /\ PdsUnused /\ TableSound
           /\ SerialsPast /\ CacheSound /\ CallerSound /\ OrigSound /\ ApdSound /\ LeftMarked
  BY DEF Pre, Sound

\* A thread that was not released has an APD.
LEMMA HomeLive ==
    ASSUME Pre, NEW s \in Structs, thread[s].state \in {"run", "call", "zombie"}
    PROVE  thread[s].home \in live /\ s \in Users(thread, thread[s].home)
<1>1. thread[s].home \in Blocks
  BY PreFacts DEF Threads
<1>2. s \in Users(thread, thread[s].home)
  BY DEF Users
<1> QED
  BY <1>1, <1>2, SoundParts DEF HomesAlive

LEMMA CallFacts ==
    ASSUME Pre, NEW c \in Structs, NEW p \in Procs, NEW pd \in PdArgs, Call(c, p, pd)
    PROVE  /\ req.step = "none" /\ thread[c].state = "run" /\ thread[c].home \in live
           /\ thread'[c] = [thread[c] EXCEPT !.state = "call"]
           /\ \A s \in Structs \ {c} : thread'[s] = thread[s]
           /\ \A a : Users(thread', a) = Users(thread, a)
           /\ UNCHANGED <<live, apd, apd_table, table, pdx_cache, registered, apd_serial,
                          now, faults, lost, stop>>
           /\ req'.caller = c /\ req'.src = thread[c].home /\ req'.proc = p /\ req'.pd = pd
<1>1. req.step = "none" /\ thread[c].state = "run" /\ thread[c] \in Threads
      /\ thread' = [thread EXCEPT ![c].state = "call"]
      /\ UNCHANGED <<live, apd, apd_table, table, pdx_cache, registered, apd_serial,
                          now, faults, lost, stop>>
  BY PreFacts DEF Call, Idle
<1>2. thread'[c] = [thread[c] EXCEPT !.state = "call"]
      /\ \A s \in Structs \ {c} : thread'[s] = thread[s]
  BY <1>1, PreFacts
<1>3. \A a : Users(thread', a) = Users(thread, a)
  BY <1>1, <1>2 DEF Users, Threads
<1>4. req'.caller = c /\ req'.src = thread[c].home /\ req'.proc = p /\ req'.pd = pd
  BY DEF Call, Idle
<1>5. thread[c].home \in live
  BY <1>1, HomeLive
<1> QED
  BY <1>1, <1>2, <1>3, <1>4, <1>5

\* A call that the PDX cache lets through.
LEMMA CachedFacts ==
    ASSUME Pre, NEW c \in Structs, thread[c].home \in live,
           NEW p \in Procs, NEW pd \in PdArgs, Cached(thread[c].home, p, pd)
    PROVE  LET e == pdx_cache[Hash(thread[c].home, p, pd)]
               t == table[e.pos]
           IN  /\ e.pos \in Positions /\ t.apd # None
               /\ Made(t.apd, t.orig, t.clist)
               /\ t.clist = registered[p] \/ e.outlived
               /\ Names(pd, thread[c].home, t.orig)
               /\ <<e.src, e.proc, e.pd>> = <<thread[c].home, p, pd>>
               /\ now - e.verified <= Timeout
<1> DEFINE src == thread[c].home
           h   == Hash(src, p, pd)
           e   == pdx_cache[h]
           t   == table[e.pos]
<1>1. src \in Blocks /\ src # None
  BY PreFacts, PdxAssumption
<1>2. h \in Buckets
  BY <1>1, PdxAssumption DEF PdArgs
<1>3. e \in CachedCalls /\ e.pos \in Positions /\ e.verified \in 0 .. MaxTime
  BY <1>2, PreFacts DEF CachedCalls
<1>4. t \in Entries /\ t.timestamp \in 0 .. MaxTime
  BY <1>3, PreFacts DEF Entries
<1>5. e.src = src /\ e.proc = p /\ e.pd = pd
  BY DEF Cached
<1>6. t.apd # None /\ ~Expired(t.timestamp) /\ apd[t.apd].serial = e.serial
  BY DEF Cached, IdHolds
<1> HIDE DEF t, e, h, src
<1>7. /\ t.timestamp <= e.verified /\ (t.clist = registered[p] \/ e.outlived)
      /\ Names(pd, src, t.orig)
  BY <1>1, <1>2, <1>5, <1>6, SoundParts DEF CacheSound, e, t
<1>8. Made(t.apd, t.orig, t.clist)
  BY <1>3, <1>6, SoundParts DEF TableSound, t
<1>9. now - t.timestamp <= Timeout
  <2>1. ~(now - t.timestamp > Timeout)
    BY <1>6 DEF Expired
  <2> QED
    BY <2>1, <1>4, PreFacts, PdxAssumption
<1>10. now - e.verified <= Timeout
  BY <1>3, <1>4, <1>7, <1>9, PreFacts, PdxAssumption
<1> QED
  BY <1>3, <1>5, <1>6, <1>7, <1>8, <1>10 DEF t, e, h, src

LEMMA CallRest ==
    ASSUME Pre, NEW c \in Structs, NEW p \in Procs, NEW pd \in PdArgs, Call(c, p, pd)
    PROVE  Rest' /\ GrantsRecent'
<1> DEFINE src == thread[c].home
<1>1. /\ req.step = "none" /\ thread[c].state = "run" /\ src \in live
      /\ thread'[c] = [thread[c] EXCEPT !.state = "call"]
      /\ \A s \in Structs \ {c} : thread'[s] = thread[s]
      /\ \A a : Users(thread', a) = Users(thread, a)
      /\ UNCHANGED <<live, apd, apd_table, table, pdx_cache, registered, apd_serial,
                          now, faults, lost, stop>>
      /\ req'.caller = c /\ req'.src = src /\ req'.proc = p /\ req'.pd = pd
  BY CallFacts
<1>2. thread[c] \in Threads
  BY PreFacts
<1>3. /\ \A s \in Structs : /\ thread'[s].home = thread[s].home
                            /\ thread'[s].pdx = thread[s].pdx
                            /\ thread'[s].parent = thread[s].parent
      /\ thread'[c].state = "call"
      /\ \A s \in Structs : thread[s].state = "call" => thread'[s].state = "call"
  BY <1>1, <1>2 DEF Threads
<1>4. ParentsWait'
  <2>1. \A s \in Structs : thread'[s].state \in {"run", "call"} =>
            thread[s].state \in {"run", "call"}
    BY <1>1
  <2> QED
    BY <1>1, <1>3, <2>1, SoundParts DEF ParentsWait
<1>5. PdsUnused' /\ TableSound' /\ SerialsPast' /\ CacheSound'
  <2>1. PdsUnused'
    BY <1>1, SoundParts DEF PdsUnused
  <2>2. TableSound'
    BY <1>1, SoundParts DEF TableSound, Made
  <2>3. SerialsPast'
    BY <1>1, SoundParts DEF SerialsPast
  <2>4. CacheSound'
    BY <1>1, SoundParts DEF CacheSound, Names
  <2> QED
    BY <2>1, <2>2, <2>3, <2>4
<1>6. LeftMarked'
  BY <1>1, SoundParts DEF LeftMarked
<1>7. \/ /\ Cached(src, p, pd)
         /\ req'.step = "start" /\ req'.fast /\ req'.orig = None
         /\ req'.apd = table[pdx_cache[Hash(src, p, pd)].pos].apd
      \/ /\ req'.step = IF pd \in Pds THEN "find" ELSE "search"
         /\ req'.orig = IF pd = Merge THEN src ELSE None
         /\ req'.apd = None /\ ~req'.fast /\ registered[p] # None
  BY DEF Call, Idle
<1>8. CallerSound'
  BY <1>1, <1>3, <1>7 DEF CallerSound
<1>9. CASE /\ Cached(src, p, pd)
           /\ req'.step = "start" /\ req'.fast /\ req'.orig = None
           /\ req'.apd = table[pdx_cache[Hash(src, p, pd)].pos].apd
  <2> DEFINE e == pdx_cache[Hash(src, p, pd)]
             t == table[e.pos]
  <2>1. /\ e.pos \in Positions /\ t.apd # None
        /\ Made(t.apd, t.orig, t.clist) /\ (t.clist = registered[p] \/ e.outlived)
        /\ Names(pd, src, t.orig)
        /\ <<e.src, e.proc, e.pd>> = <<src, p, pd>> /\ now - e.verified <= Timeout
    <3>1. Cached(src, p, pd) /\ src \in live
      BY <1>1, <1>9
    <3> QED
      BY <3>1, CachedFacts
  <2>2. req'.apd = t.apd
    BY <1>9
  <2>3. GrantsRecent'
    BY <1>1, <2>1 DEF GrantsRecent
  <2>6. FromDeleted' <=> e.outlived
    BY <1>1, <1>9 DEF FromDeleted
  <2> HIDE DEF e, t, src
  <2>4. OrigSound'
    BY <1>9 DEF OrigSound
  <2>5. ApdSound'
    BY <1>1, <1>9, <2>1, <2>2, <2>6 DEF ApdSound, Made, Names
  <2> QED
    BY <1>4, <1>5, <1>6, <1>8, <2>3, <2>4, <2>5 DEF Rest, Frame, CallsSound
<1>10. CASE /\ req'.step = IF pd \in Pds THEN "find" ELSE "search"
            /\ req'.orig = IF pd = Merge THEN src ELSE None
            /\ req'.apd = None /\ ~req'.fast /\ registered[p] # None
  <2>1. OrigSound'
    BY <1>1, <1>10, PdxAssumption DEF OrigSound, Names, PdArgs
  <2>2. ApdSound' /\ GrantsRecent'
    BY <1>10 DEF ApdSound, FromDeleted, GrantsRecent
  <2> QED
    BY <1>4, <1>5, <1>6, <1>8, <2>1, <2>2 DEF Rest, Frame, CallsSound
<1> QED
  BY <1>7, <1>9, <1>10

\* A call that fails: its caller goes on.
LEMMA FailsRest ==
    ASSUME Pre, req.step \notin {"none", "insert"}, Fails,
           UNCHANGED <<live, apd_table, table, pdx_cache, registered, now, lost>>,
           apd_serial' \in {apd_serial, apd_serial + 1},
           \A a \in Blocks : /\ apd'[a].serial = apd[a].serial
                             /\ apd'[a].clist = apd[a].clist /\ apd'[a].orig = apd[a].orig
                             /\ apd'[a].closing = apd[a].closing,
           \A pd \in Pds : apd_table[pd] # None =>
               apd'[apd_table[pd]].pool = apd[apd_table[pd]].pool,
           \A a \in live : /\ apd[a].extra # 0 => apd'[a].extra # 0
                           /\ apd[a].users # 0 => apd'[a].users # 0
    PROVE  Rest' /\ GrantsRecent'
<1> DEFINE c == req.caller
<1>1. /\ req' = Idle /\ c \in Structs /\ thread[c].state = "call" /\ thread[c] \in Threads
      /\ thread' = [thread EXCEPT ![c].state = "run"]
  BY SoundParts, PreFacts DEF CallerSound, Fails
<1>2. /\ \A s \in Structs : /\ thread'[s].home = thread[s].home
                            /\ thread'[s].pdx = thread[s].pdx
                            /\ thread'[s].parent = thread[s].parent
      /\ \A s \in Structs \ {c} : thread'[s].state = thread[s].state
      /\ thread'[c].state = "run"
  BY <1>1, PreFacts DEF Threads
<1>3. \A a : Users(thread', a) = Users(thread, a)
  BY <1>1, <1>2 DEF Users
<1>4. req'.step = "none" /\ req'.caller = None
  BY <1>1 DEF Idle
<1>5. ParentsWait'
  <2>1. \A s \in Structs : thread'[s].state \in {"run", "call"} <=>
            thread[s].state \in {"run", "call"}
    BY <1>1, <1>2
  <2> HIDE DEF c
  <2>2. \A s \in Structs : (thread'[s].state \in {"run", "call"} /\ thread'[s].pdx) =>
           /\ thread'[s].parent \in Structs /\ thread'[thread'[s].parent].state = "call"
           /\ thread'[s].parent # None
    BY <1>2, <2>1, SoundParts, PdxAssumption DEF ParentsWait, c
  <2> QED
    BY <1>2, <1>4, <2>1, <2>2, SoundParts DEF ParentsWait
<1>6. PdsUnused'
  BY <1>3, SoundParts, PreFacts DEF PdsUnused
<1>7. TableSound'
  BY SoundParts, PreFacts DEF TableSound, Made
<1>8. SerialsPast'
  <2>1. apd_serial \in Nat /\ apd_serial <= apd_serial' /\ apd_serial' # 0
    BY SoundParts, PreFacts, PdxAssumption DEF SerialsPast, Serials
  <2>2. \A a \in Blocks : apd[a].serial \in Nat
    BY PreFacts, PdxAssumption DEF Apds, Serials
  <2>3. \A h \in Buckets : pdx_cache[h].serial \in Nat
    BY PreFacts, PdxAssumption DEF CachedCalls, Serials
  <2>4. apd_serial' \in Nat
    BY <2>1
  <2>5. \A a \in Blocks : apd'[a].serial < apd_serial'
    BY <2>1, <2>2, <2>4, SoundParts DEF SerialsPast
  <2>6. \A h \in Buckets : pdx_cache'[h].src # None =>
           pdx_cache'[h].serial # 0 /\ pdx_cache'[h].serial < apd_serial'
    BY <2>1, <2>3, <2>4, SoundParts DEF SerialsPast
  <2> QED
    BY <2>1, <2>5, <2>6 DEF SerialsPast
<1>9. CacheSound'
  <2>1. \A h \in Buckets : pdx_cache[h].pos \in Positions
    BY PreFacts DEF CachedCalls
  <2>2. \A i \in Positions : table[i].apd # None => table[i].apd \in Blocks
    BY PreFacts DEF Entries
  <2> QED
    BY <2>1, <2>2, SoundParts DEF CacheSound, Names
<1>10. CallerSound' /\ OrigSound' /\ ApdSound' /\ GrantsRecent'
  BY <1>1, <1>4 DEF CallerSound, OrigSound, ApdSound, FromDeleted, GrantsRecent
<1>11. LeftMarked'
  BY SoundParts, PreFacts DEF LeftMarked
<1> QED
  BY <1>5, <1>6, <1>7, <1>8, <1>9, <1>10, <1>11 DEF Rest, Frame, CallsSound

\* An APD is made with the next serial number.
LEMMA SerialsMade ==
    ASSUME Pre, NEW b \in Blocks, NEW r, apd' = [apd EXCEPT ![b] = r], r.serial = apd_serial,
           apd_serial' = apd_serial + 1, UNCHANGED pdx_cache
    PROVE  SerialsPast'
<1>1. apd'[b] = r /\ \A a \in Blocks : a # b => apd'[a] = apd[a]
  BY PreFacts
<1>2. apd_serial \in Nat /\ apd_serial' # 0
  BY PreFacts, PdxAssumption DEF Serials
<1>3. \A a \in Blocks : apd[a].serial \in Nat
  BY PreFacts, PdxAssumption DEF Apds, Serials
<1>4. \A h \in Buckets : pdx_cache[h].serial \in Nat
  BY PreFacts, PdxAssumption DEF CachedCalls, Serials
<1>5. \A a \in Blocks : apd'[a].serial < apd_serial'
  <2> SUFFICES ASSUME NEW a \in Blocks PROVE apd'[a].serial < apd_serial + 1
    OBVIOUS
  <2>1. CASE a = b
    BY <1>1, <1>2, <2>1
  <2>2. CASE a # b
    <3>1. apd'[a].serial = apd[a].serial /\ apd[a].serial < apd_serial
      BY <1>1, <2>2, SoundParts DEF SerialsPast
    <3> QED
      BY <1>2, <1>3, <3>1
  <2> QED
    BY <2>1, <2>2
<1>6. \A h \in Buckets : pdx_cache'[h].src # None =>
         pdx_cache'[h].serial # 0 /\ pdx_cache'[h].serial < apd_serial'
  BY <1>2, <1>4, SoundParts DEF SerialsPast
<1> QED
  BY <1>2, <1>5, <1>6 DEF SerialsPast

LEMMA MadeRest ==
    ASSUME Pre, NEW b \in Blocks \ live, NEW r \in Apds, live' = live \cup {b},
           apd' = [apd EXCEPT ![b] = r], r.serial = apd_serial,
           apd_serial < MaxSerial, apd_serial' = apd_serial + 1,
           UNCHANGED <<table, pdx_cache, thread, registered, now, lost>>,
           req'.caller = req.caller, apd_table' = apd_table
    PROVE  ParentsWait' /\ PdsUnused' /\ TableSound' /\ SerialsPast' /\ CacheSound'
<1>1. /\ apd'[b] = r /\ \A a \in live : apd'[a] = apd[a]
      /\ \A a \in Blocks : a # b => apd'[a] = apd[a]
  BY PreFacts
<1>2. ParentsWait'
  BY SoundParts DEF ParentsWait
<1>3. PdsUnused'
  BY <1>1, SoundParts DEF PdsUnused
<1>4. TableSound'
  BY <1>1, SoundParts DEF TableSound, Made
<1>5. SerialsPast'
  BY SerialsMade
<1>6. CacheSound'
  <2>1. \A h \in Buckets : pdx_cache[h].pos \in Positions
    BY PreFacts DEF CachedCalls
  <2>2. \A i \in Positions : table[i].apd # None => table[i].apd \in live
    BY SoundParts DEF TableSound, Made
  <2> QED
    BY <1>1, <2>1, <2>2, SoundParts DEF CacheSound, Names
<1> QED
  BY <1>2, <1>3, <1>4, <1>5, <1>6

LEMMA FindPdRest ==
    ASSUME Pre, FindPd
    PROVE  Rest' /\ GrantsRecent'
<1>1. /\ req.step = "find" /\ req.pd \in Pds /\ req.orig = None /\ req.apd = None /\ ~req.fast
      /\ registered[req.proc] # None
  BY SoundParts, PreFacts DEF FindPd, OrigSound, CallerSound, Requests
<1>2. ASSUME apd_table[req.pd] # None, UNCHANGED <<live, apd, apd_table, thread, apd_serial>>,
             req' = [req EXCEPT !.step = "search", !.orig = apd_table[req.pd]]
      PROVE  Rest' /\ GrantsRecent'
  <2>1. /\ req'.step = "search" /\ req'.orig = apd_table[req.pd] /\ req'.apd = None /\ ~req'.fast
        /\ req'.caller = req.caller /\ req'.src = req.src /\ req'.pd = req.pd
        /\ req'.proc = req.proc
    BY <1>1, <1>2, PreFacts DEF Requests
  <2>2. UNCHANGED <<table, pdx_cache, registered, now, lost>>
    BY DEF FindPd
  <2>3. ParentsWait' /\ PdsUnused' /\ TableSound' /\ SerialsPast'
    BY <1>2, <2>1, <2>2, SoundParts DEF ParentsWait, PdsUnused, TableSound, SerialsPast, Made
  <2>4. CacheSound'
    BY <1>2, <2>2, SoundParts DEF CacheSound, Names
  <2>5. CallerSound'
    BY <1>1, <1>2, <2>1, SoundParts DEF CallerSound
  <2>6. OrigSound'
    BY <1>1, <1>2, <2>1, <2>2, PdxAssumption DEF OrigSound, Names
  <2>7. ApdSound' /\ GrantsRecent'
    BY <2>1 DEF ApdSound, FromDeleted, GrantsRecent
  <2>8. LeftMarked'
    BY <1>1, <1>2, <2>2, SoundParts DEF LeftMarked
  <2> QED
    BY <2>3, <2>4, <2>5, <2>6, <2>7, <2>8 DEF Rest, Frame, CallsSound
<1>3. ASSUME NEW b \in Blocks \ live, apd_serial < MaxSerial, live' = live \cup {b},
             apd_table[req.pd] = None,
             apd' = [apd EXCEPT ![b] =
                           [Blank EXCEPT !.serial = apd_serial, !.vcache = apd_serial]],
             apd_table' = [apd_table EXCEPT ![req.pd] = b],
             apd_serial' = apd_serial + 1,
             req' = [req EXCEPT !.step = "search", !.orig = b],
             UNCHANGED thread
      PROVE  Rest' /\ GrantsRecent'
  <2> DEFINE r == [Blank EXCEPT !.serial = apd_serial, !.vcache = apd_serial]
  <2>1. /\ r \in Apds /\ r.serial = apd_serial /\ r.clist = None /\ r.pool = None
        /\ r.closing = FALSE
    BY PreFacts DEF Blank, Apds
  <2>2. apd' = [apd EXCEPT ![b] = r]
    BY <1>3
  <2> HIDE DEF r
  <2>3. /\ req'.step = "search" /\ req'.orig = b /\ req'.apd = None /\ ~req'.fast
        /\ req'.caller = req.caller /\ req'.src = req.src /\ req'.pd = req.pd
        /\ req'.proc = req.proc
    BY <1>1, <1>3, PreFacts DEF Requests
  <2>4. UNCHANGED <<table, pdx_cache, registered, now, lost>>
    BY DEF FindPd
  <2>5. /\ apd'[b] = r /\ \A a \in live : apd'[a] = apd[a]
        /\ \A a \in Blocks : a # b => apd'[a] = apd[a]
    BY <2>2, PreFacts
  <2>6. /\ apd_table'[req.pd] = b
        /\ \A pd \in Pds : pd # req.pd => apd_table'[pd] = apd_table[pd]
    BY <1>1, <1>3, PreFacts
  <2>7. ParentsWait' /\ TableSound'
    BY <1>3, <2>3, <2>4, <2>5, SoundParts DEF ParentsWait, TableSound, Made
  <2>8. SerialsPast'
    BY <1>3, <2>1, <2>2, <2>4, SerialsMade
  <2>9. PdsUnused'
    <3>1. Users(thread, b) = {}
      BY <1>3, SoundParts DEF HomesAlive
    <3>2. ASSUME NEW pd \in Pds, NEW a, a = apd_table'[pd], a # None
          PROVE  /\ a \in live' /\ apd'[a].clist = None /\ apd'[a].pool = None
                 /\ ~apd'[a].closing /\ Users(thread', a) = {}
      <4>1. CASE pd = req.pd
        <5>1. a = b /\ apd'[a] = r /\ thread' = thread
          BY <1>3, <2>5, <2>6, <3>2, <4>1
        <5>2. ~apd'[a].closing
          BY <2>1, <5>1
        <5>3. a \in live' /\ apd'[a].clist = None /\ apd'[a].pool = None
          BY <1>3, <2>1, <5>1
        <5>4. Users(thread', a) = {}
          BY <3>1, <5>1
        <5> QED
          BY <5>2, <5>3, <5>4
      <4>2. CASE pd # req.pd
        <5>1. a = apd_table[pd]
          BY <2>6, <3>2, <4>2
        <5>2. /\ a \in live /\ apd[a].clist = None /\ apd[a].pool = None
              /\ ~apd[a].closing /\ Users(thread, a) = {}
          BY <3>2, <5>1, SoundParts DEF PdsUnused
        <5> QED
          BY <1>3, <2>5, <5>2
      <4> QED
        BY <4>1, <4>2
    <3> QED
      BY <3>2 DEF PdsUnused
  <2>10. CacheSound'
    <3>1. \A h \in Buckets : pdx_cache[h].pos \in Positions
      BY PreFacts DEF CachedCalls
    <3>2. \A i \in Positions : table[i].apd # None => table[i].apd \in live
      BY SoundParts DEF TableSound, Made
    <3> QED
      BY <1>3, <2>4, <2>5, <2>6, <3>1, <3>2, SoundParts DEF CacheSound, Names
  <2>11. CallerSound'
    BY <1>1, <1>3, <2>3, SoundParts DEF CallerSound
  <2>12. OrigSound'
    BY <1>1, <1>3, <2>3, <2>4, <2>6, PdxAssumption DEF OrigSound, Names
  <2>13. ApdSound' /\ GrantsRecent'
    BY <2>3 DEF ApdSound, FromDeleted, GrantsRecent
  <2>14. LeftMarked'
    BY <1>1, <1>3, <2>1, <2>4, <2>5, SoundParts DEF LeftMarked
  <2> QED
    BY <2>7, <2>8, <2>9, <2>10, <2>11, <2>12, <2>13, <2>14 DEF Rest, Frame, CallsSound
<1>4. ASSUME Fails, apd_serial' \in {apd_serial, apd_serial + 1} \cap Serials,
             UNCHANGED <<live, apd, apd_table>>
      PROVE  Rest' /\ GrantsRecent'
  BY <1>1, <1>4, FailsRest DEF FindPd
<1> QED
  BY <1>2, <1>3, <1>4 DEF FindPd

\* What pdxcache_add does to the buckets.
LEMMA AddsFacts ==
    ASSUME Pre, NEW i \in Positions, NEW n \in Serials, req.step # "none", Adds(i, n)
    PROVE  \A h \in Buckets : \/ pdx_cache'[h] = pdx_cache[h]
                              \/ pdx_cache'[h] = [src |-> req.src, proc |-> req.proc,
                                     pd |-> req.pd, pos |-> i, serial |-> n, verified |-> now,
                                     outlived |-> FALSE]
<1> DEFINE k == Hash(req.src, req.proc, req.pd)
           e == [src |-> req.src, proc |-> req.proc, pd |-> req.pd, pos |-> i,
                 serial |-> n, verified |-> now,
                 outlived |-> FALSE]
<1>1. k \in Buckets
  BY AddsType
<1>2. pdx_cache' = [pdx_cache EXCEPT ![k] = e]
  BY DEF Adds
<1> HIDE DEF k, e
<1>3. \A h \in Buckets : pdx_cache'[h] = pdx_cache[h] \/ pdx_cache'[h] = e
  BY <1>1, <1>2, PreFacts
<1> QED
  BY <1>3 DEF e

LEMMA SerialsAdded ==
    ASSUME Pre, NEW i \in Positions, NEW n \in Serials, req.step # "none", Adds(i, n),
           n # 0, n < apd_serial, UNCHANGED apd_serial,
           \A a \in Blocks : apd'[a].serial < apd_serial
    PROVE  SerialsPast'
<1>1. \A h \in Buckets : pdx_cache'[h].src # None =>
           pdx_cache'[h].serial # 0 /\ pdx_cache'[h].serial < apd_serial
  <2> SUFFICES ASSUME NEW h \in Buckets, pdx_cache'[h].src # None
               PROVE  pdx_cache'[h].serial # 0 /\ pdx_cache'[h].serial < apd_serial
    OBVIOUS
  <2>1. CASE pdx_cache'[h] = pdx_cache[h]
    BY <2>1, SoundParts DEF SerialsPast
  <2>2. CASE pdx_cache'[h] = [src |-> req.src, proc |-> req.proc, pd |-> req.pd, pos |-> i,
                              serial |-> n, verified |-> now,
                              outlived |-> FALSE]
    <3>1. pdx_cache'[h].serial = n
      BY <2>2
    <3> QED
      BY <3>1
  <2> QED
    BY <2>1, <2>2, AddsFacts
<1> QED
  BY <1>1, SoundParts DEF SerialsPast

LEMMA SearchHitsRest ==
    ASSUME Pre, SearchHits
    PROVE  Rest' /\ GrantsRecent'
<1>1. PICK i \in Positions : /\ First(i)
                             /\ req' = [req EXCEPT !.step = "start", !.apd = table[i].apd]
                             /\ Adds(i, apd[table[i].apd].serial)
  BY DEF SearchHits
<1> DEFINE a == table[i].apd
           n == apd[a].serial
<1>2. /\ req.step = "search" /\ ~req.fast /\ Names(req.pd, req.src, req.orig)
  BY SoundParts DEF SearchHits, CallerSound, OrigSound
<1>3. a # None /\ table[i].orig = req.orig /\ table[i].clist = registered[req.proc]
  BY <1>1 DEF First, Matching
<1>4. Made(a, req.orig, registered[req.proc]) /\ table[i].timestamp <= now
  BY <1>1, <1>3, SoundParts DEF TableSound
<1>5. a \in Blocks /\ n \in Serials /\ n # 0 /\ n < apd_serial
  BY <1>4, PreFacts, SoundParts DEF Made, Apds, SerialsPast
<1>6. UNCHANGED <<live, apd, apd_table, table, thread, registered, apd_serial, now, lost>>
  BY DEF SearchHits
<1>7. /\ req'.step = "start" /\ req'.apd = a /\ ~req'.fast /\ req'.orig = req.orig
      /\ req'.caller = req.caller /\ req'.src = req.src /\ req'.pd = req.pd
      /\ req'.proc = req.proc
  BY <1>1, <1>2, PreFacts DEF Requests
<1>8. \A h \in Buckets : \/ pdx_cache'[h] = pdx_cache[h]
                         \/ pdx_cache'[h] = [src |-> req.src, proc |-> req.proc,
                                pd |-> req.pd, pos |-> i, serial |-> n, verified |-> now,
                                outlived |-> FALSE]
  BY <1>1, <1>2, <1>5, AddsFacts
<1>9. SerialsPast'
  <2>1. \A b \in Blocks : apd'[b].serial < apd_serial
    BY <1>6, SoundParts DEF SerialsPast
  <2> QED
    BY <1>1, <1>2, <1>5, <1>6, <2>1, SerialsAdded
<1> HIDE DEF a, n
<1>10. ParentsWait' /\ PdsUnused' /\ TableSound'
  BY <1>6, <1>7, SoundParts DEF ParentsWait, PdsUnused, TableSound, Made
<1>11. CacheSound'
  <2> SUFFICES ASSUME NEW h \in Buckets, NEW e, e = pdx_cache'[h], NEW t, t = table[e.pos],
                      e.src # None, t.apd # None, apd[t.apd].serial = e.serial
               PROVE  /\ t.timestamp <= e.verified /\ (t.clist = registered[e.proc] \/ e.outlived)
                      /\ Names(e.pd, e.src, t.orig)
    BY <1>6 DEF CacheSound, Names
  <2>1. CASE e = pdx_cache[h]
    BY <2>1, SoundParts DEF CacheSound
  <2>2. CASE e = [src |-> req.src, proc |-> req.proc, pd |-> req.pd, pos |-> i,
                  serial |-> n, verified |-> now,
                  outlived |-> FALSE]
    <3>1. e.src = req.src /\ e.proc = req.proc /\ e.pd = req.pd /\ e.pos = i /\ e.verified = now
      BY <2>2
    <3> QED
      BY <1>2, <1>3, <1>4, <3>1
  <2> QED
    BY <1>8, <2>1, <2>2
<1>12. CallerSound'
  BY <1>2, <1>6, <1>7, SoundParts DEF CallerSound
<1>13. OrigSound'
  BY <1>2, <1>6, <1>7 DEF OrigSound, Names
<1>14. ApdSound'
  BY <1>2, <1>4, <1>6, <1>7 DEF ApdSound, FromDeleted, Made, Names
<1>15. LeftMarked'
  BY <1>2, <1>6, SoundParts DEF LeftMarked
<1>16. GrantsRecent'
  BY <1>7 DEF GrantsRecent
<1> QED
  BY <1>9, <1>10, <1>11, <1>12, <1>13, <1>14, <1>15, <1>16 DEF Rest, Frame, CallsSound

\* The step of the call changes, and nothing else.
LEMMA SearchMissesRest ==
    ASSUME Pre, SearchMisses
    PROVE  Rest' /\ GrantsRecent'
<1>1. /\ req.step = "search" /\ ~req.fast
  BY SoundParts DEF SearchMisses, CallerSound
<1>2. UNCHANGED <<live, apd, apd_table, table, pdx_cache, thread, registered, apd_serial,
                  now, lost>>
  BY DEF SearchMisses
<1>3. /\ req'.step = "make" /\ req'.apd = req.apd /\ ~req'.fast /\ req'.orig = req.orig
      /\ req'.caller = req.caller /\ req'.src = req.src /\ req'.pd = req.pd
      /\ req'.proc = req.proc
  BY <1>1, PreFacts DEF SearchMisses, Requests
<1>4. ParentsWait' /\ PdsUnused' /\ TableSound' /\ SerialsPast'
  BY <1>2, <1>3, SoundParts DEF ParentsWait, PdsUnused, TableSound, SerialsPast, Made
<1>5. CacheSound'
  BY <1>2, SoundParts DEF CacheSound, Names
<1>6. CallerSound' /\ OrigSound'
  BY <1>1, <1>2, <1>3, SoundParts DEF CallerSound, OrigSound, Names
<1>7. ApdSound' /\ GrantsRecent'
  BY <1>3 DEF ApdSound, FromDeleted, GrantsRecent
<1>8. LeftMarked'
  BY <1>1, <1>2, SoundParts DEF LeftMarked
<1> QED
  BY <1>4, <1>5, <1>6, <1>7, <1>8 DEF Rest, Frame, CallsSound

\* Closing an APD that was made for PdxCalls leaves the others alone.
LEMMA ClosesRest ==
    ASSUME Pre, NEW a \in live, apd[a].clist # None, Closes(a), UNCHANGED apd_table,
           req'.caller = req.caller
    PROVE  /\ ParentsWait' /\ PdsUnused'
           /\ \A b \in live : b # a => b \in live' /\ apd'[b] = apd[b]
           /\ a \in live' => /\ apd'[a] = [apd[a] EXCEPT !.closing = TRUE]
                             /\ apd[a].users # 0
           /\ apd[a].extra # 0 => a \in live'
           /\ live' \subseteq live
           /\ \A b \in Blocks : apd'[b].serial < apd_serial
           /\ \A s \in Structs : thread[s].state \in {"run", "call", "zombie"} =>
                  thread'[s] = thread[s] /\ thread[s].home \in live'
<1>1. Marks(a) \/ Goes(a)
  BY PreFacts, ClosesFacts
<1>2. \A b : Users(thread', b) = Users(thread, b)
  BY PreFacts, ClosesFacts
<1>3. a \in Blocks /\ live \subseteq Blocks /\ apd \in [Blocks -> Apds]
  BY PreFacts
<1>4. \A b \in Blocks : b # a => apd'[b] = apd[b]
  BY <1>1, <1>3 DEF Marks, Goes
<1>5. \A t \in Structs : \/ thread'[t] = thread[t]
                         \/ thread[t].state = "pooled" /\ thread'[t].state = "freed"
  BY <1>1 DEF Marks, Goes
<1>6. a \in live' => apd'[a] = [apd[a] EXCEPT !.closing = TRUE] /\ apd[a].users # 0
  BY <1>1, <1>3 DEF Marks, Goes
<1>7. /\ live' \subseteq live /\ \A b \in live : b # a => b \in live'
      /\ apd[a].extra # 0 => a \in live'
  BY <1>1 DEF Marks, Goes
<1>8. \A b \in Blocks : apd'[b].serial < apd_serial
  <2>1. apd'[a].serial < apd_serial
    <3>1. CASE Marks(a)
      BY <1>3, <3>1, SoundParts DEF Marks, SerialsPast, Apds
    <3>2. CASE Goes(a)
      <4>1. apd'[a].serial = 0 /\ apd_serial \in Nat /\ apd_serial # 0
        BY <3>2, SoundParts, PreFacts, PdxAssumption DEF Goes, Blank, SerialsPast, Serials
      <4> QED
        BY <4>1
    <3> QED
      BY <1>1, <3>1, <3>2
  <2> QED
    BY <1>4, <2>1, SoundParts DEF SerialsPast
<1>9. \A s \in Structs : thread[s].state \in {"run", "call", "zombie"} =>
                  thread'[s] = thread[s] /\ thread[s].home \in live'
  <2> SUFFICES ASSUME NEW s \in Structs, thread[s].state \in {"run", "call", "zombie"}
               PROVE  thread'[s] = thread[s] /\ thread[s].home \in live'
    OBVIOUS
  <2>1. thread'[s] = thread[s]
    BY <1>5
  <2>2. thread[s].home \in live /\ s \in Users(thread, thread[s].home)
    BY HomeLive
  <2>3. Goes(a) => thread[s].home # a
    BY <2>2 DEF Goes
  <2>4. thread[s].home \in live'
    BY <1>1, <2>2, <2>3 DEF Marks, Goes
  <2> QED
    BY <2>1, <2>4
<1>10. ParentsWait'
  <2>1. \A s \in Structs : thread'[s].state \in {"run", "call"} =>
            thread'[s] = thread[s]
    BY <1>5
  <2>2. \A s \in Structs : thread[s].state = "call" => thread'[s] = thread[s]
    BY <1>5
  <2> QED
    BY <2>1, <2>2, SoundParts DEF ParentsWait
<1>11. PdsUnused'
  BY <1>2, <1>3, <1>4, <1>7, SoundParts DEF PdsUnused
<1> QED
  BY <1>4, <1>6, <1>7, <1>8, <1>9, <1>10, <1>11, <1>3

LEMMA SearchClosesRest ==
    ASSUME Pre, SearchCloses, stop' = "no"
    PROVE  Rest' /\ GrantsRecent'
<1>1. PICK i \in Positions :
         /\ First(i)
         /\ IF apd[table[i].apd].closing
            THEN stop' = "assertion" /\ UNCHANGED <<live, apd, table, thread>>
            ELSE table' = TableWithout(table[i].apd) /\ Closes(table[i].apd)
  BY DEF SearchCloses
<1> DEFINE a == table[i].apd
<1>2. table' = TableWithout(a) /\ Closes(a) /\ ~apd[a].closing
  BY <1>1
<1>3. a # None /\ Made(a, table[i].orig, table[i].clist)
  BY <1>1, SoundParts DEF First, Matching, TableSound
<1>4. a \in live /\ apd[a].clist # None /\ a \in Blocks
  BY <1>3, PdxAssumption, PreFacts DEF Made
<1>5. /\ req.step = "search" /\ ~req.fast
  BY SoundParts DEF SearchCloses, CallerSound
<1>6. UNCHANGED <<apd_table, pdx_cache, registered, apd_serial, now, lost>>
  BY DEF SearchCloses
<1>7. /\ req'.step = "make" /\ req'.apd = req.apd /\ ~req'.fast /\ req'.orig = req.orig
      /\ req'.caller = req.caller /\ req'.src = req.src /\ req'.pd = req.pd
      /\ req'.proc = req.proc
  BY <1>5, PreFacts DEF SearchCloses, Requests
<1>8. \A j \in Positions : \/ table[j].apd = a /\ table'[j] = NoEntry
                           \/ table[j].apd # a /\ table'[j] = table[j]
  BY <1>2 DEF TableWithout, Removed
<1>9. NoEntry.apd = None
  BY DEF NoEntry
<1> HIDE DEF a
<1>10. /\ ParentsWait' /\ PdsUnused'
       /\ \A b \in live : b # a => b \in live' /\ apd'[b] = apd[b]
       /\ a \in live' => apd'[a] = [apd[a] EXCEPT !.closing = TRUE] /\ apd[a].users # 0
       /\ live' \subseteq live
       /\ \A b \in Blocks : apd'[b].serial < apd_serial
       /\ \A s \in Structs : thread[s].state \in {"run", "call", "zombie"} =>
              thread'[s] = thread[s] /\ thread[s].home \in live'
  BY <1>2, <1>4, <1>6, <1>7, ClosesRest
<1>11. SerialsPast'
  BY <1>6, <1>10, SoundParts DEF SerialsPast
<1>12. TableSound'
  BY <1>6, <1>8, <1>9, <1>10, SoundParts DEF TableSound, Made
<1>13. CacheSound'
  <2>1. \A h \in Buckets : pdx_cache[h].pos \in Positions
    BY PreFacts DEF CachedCalls
  <2>2. \A j \in Positions : table[j].apd # None => table[j].apd \in live
    BY SoundParts DEF TableSound, Made
  <2> QED
    BY <1>6, <1>8, <1>9, <1>10, <2>1, <2>2, SoundParts DEF CacheSound, Names
<1>14. CallerSound'
  <2>1. req.caller \in Structs /\ thread[req.caller].state = "call"
        /\ thread[req.caller].home = req.src /\ req.proc \in Procs /\ req.pd \in PdArgs
    BY <1>5, SoundParts DEF CallerSound
  <2>2. thread'[req.caller] = thread[req.caller] /\ req.src \in live'
    BY <1>10, <2>1
  <2> QED
    BY <1>7, <2>1, <2>2 DEF CallerSound
<1>15. OrigSound'
  BY <1>5, <1>6, <1>7, SoundParts DEF OrigSound, Names
<1>16. ApdSound' /\ GrantsRecent'
  BY <1>7 DEF ApdSound, FromDeleted, GrantsRecent
<1>17. LeftMarked'
  <2> SUFFICES ASSUME NEW b \in live', apd'[b].clist # None
               PROVE  \/ \E j \in Positions : table'[j].apd = b
                      \/ b \in lost'
                      \/ apd'[b].closing /\ apd'[b].users # 0
    BY DEF LeftMarked
  <2>1. CASE b = a
    <3>1. apd'[a] = [apd[a] EXCEPT !.closing = TRUE] /\ apd[a].users # 0
      BY <1>10, <2>1
    <3>2. apd[a] \in Apds
      BY <1>4, PreFacts
    <3>3. apd'[a].closing /\ apd'[a].users # 0
      BY <3>1, <3>2 DEF Apds
    <3> QED
      BY <2>1, <3>3
  <2>2. CASE b # a
    <3>1. b \in live /\ apd'[b] = apd[b]
      BY <1>10, <2>2
    <3>2. \/ \E j \in Positions : table[j].apd = b
          \/ b \in lost
          \/ apd[b].closing /\ apd[b].users # 0
      BY <1>5, <3>1, SoundParts DEF LeftMarked
    <3> QED
      BY <1>6, <1>8, <2>2, <3>1, <3>2
  <2> QED
    BY <2>1, <2>2
<1> QED
  BY <1>10, <1>11, <1>12, <1>13, <1>14, <1>15, <1>16, <1>17 DEF Rest, Frame, CallsSound

LEMMA MakeRest ==
    ASSUME Pre, Make
    PROVE  Rest' /\ GrantsRecent'
<1>1. PICK b \in Blocks \ live : /\ live' = live \cup {b} /\ apd' = [apd EXCEPT ![b] = Merged]
                                 /\ req' = [req EXCEPT !.step = "insert", !.apd = b]
  BY DEF Make
<1>2. /\ Merged \in Apds /\ (Merged.closing => Merged.extra # 0)
      /\ Merged.serial = apd_serial /\ Merged.orig = req.orig
      /\ Merged.clist = registered[req.proc] /\ Merged.clist \in Clists
  BY MergedFacts DEF Make
<1> HIDE DEF Merged
<1>3. /\ req.step = "make" /\ ~req.fast /\ Names(req.pd, req.src, req.orig)
      /\ req.caller \in Structs /\ req.proc \in Procs
  BY SoundParts DEF Make, CallerSound, OrigSound
<1>4. /\ req'.step = "insert" /\ req'.apd = b /\ ~req'.fast /\ req'.orig = req.orig
      /\ req'.caller = req.caller /\ req'.src = req.src /\ req'.pd = req.pd
      /\ req'.proc = req.proc
  BY <1>1, <1>3, PreFacts DEF Requests
<1>5. /\ apd_serial < MaxSerial /\ apd_serial' = apd_serial + 1
      /\ UNCHANGED <<apd_table, table, pdx_cache, thread, registered, now, lost>>
  BY DEF Make
<1>6. ParentsWait' /\ PdsUnused' /\ TableSound' /\ SerialsPast' /\ CacheSound'
  BY <1>1, <1>2, <1>4, <1>5, MadeRest
<1>7. apd'[b] = Merged /\ \A a \in live : apd'[a] = apd[a]
  BY <1>1, PreFacts
<1>8. CallerSound'
  BY <1>1, <1>3, <1>4, <1>5, SoundParts DEF CallerSound
<1>9. OrigSound'
  BY <1>3, <1>4, <1>5, SoundParts DEF OrigSound, Names
<1>10. ApdSound'
  <2>1. \A i \in Positions : table[i].apd # b
    BY <1>1, SoundParts, PdxAssumption DEF TableSound, Made
  <2>2. apd_serial # 0 /\ apd_serial \in Nat
    BY SoundParts, PreFacts, PdxAssumption DEF SerialsPast, Serials
  <2>3. \A h \in Buckets : pdx_cache[h].src # None => pdx_cache[h].serial # apd_serial
    BY <2>2, SoundParts DEF SerialsPast
  <2>4. /\ b \in live' /\ registered'[req'.proc] \in Clists
        /\ apd'[b].clist = registered'[req'.proc] /\ apd'[b].orig = req'.orig
        /\ apd'[b].serial # 0 /\ apd'[b].serial = apd_serial
    BY <1>1, <1>2, <1>4, <1>5, <1>7, <2>2
  <2>5. apd'[b].closing => apd'[b].extra # 0
    BY <1>2, <1>7
  <2>6. Names(req.pd, req.src, req.orig)'
    BY <1>3, <1>4, <1>5 DEF Names
  <2> QED
    BY <1>4, <1>5, <2>1, <2>3, <2>4, <2>5, <2>6 DEF ApdSound, FromDeleted, Made, Names
<1>11. LeftMarked'
  BY <1>1, <1>3, <1>4, <1>5, <1>7, SoundParts DEF LeftMarked
<1>12. GrantsRecent'
  BY <1>4 DEF GrantsRecent
<1> QED
  BY <1>6, <1>8, <1>9, <1>10, <1>11, <1>12 DEF Rest, Frame, CallsSound

LEMMA MakeFailsRest ==
    ASSUME Pre, MakeFails
    PROVE  Rest' /\ GrantsRecent'
  BY FailsRest DEF MakeFails

\* What an APD that is put into the table was made from.
LEMMA InsertFacts ==
    ASSUME Pre, req.step = "insert"
    PROVE  /\ Made(req.apd, req.orig, registered[req.proc])
           /\ Names(req.pd, req.src, req.orig)
           /\ \A i \in Positions : table[i].apd # req.apd
           /\ apd[req.apd].serial \in Serials /\ apd[req.apd].serial # 0
           /\ apd[req.apd].serial < apd_serial
           /\ \A h \in Buckets : pdx_cache[h].src # None =>
                  pdx_cache[h].serial # apd[req.apd].serial
           /\ ~req.fast /\ req.apd # None /\ req.apd \in live /\ req.caller \in Structs
           /\ req.src \in live /\ thread[req.caller].state = "call"
           /\ thread[req.caller].home = req.src
<1>1. /\ Made(req.apd, req.orig, registered[req.proc]) /\ Names(req.pd, req.src, req.orig)
      /\ \A i \in Positions : table[i].apd # req.apd
      /\ \A h \in Buckets : pdx_cache[h].src # None =>
             pdx_cache[h].serial # apd[req.apd].serial
  <2>1. ~req.fast
    BY SoundParts DEF CallerSound
  <2>2. apd[req.apd].clist = registered[req.proc] /\ apd[req.apd].orig = req.orig
    BY <2>1, SoundParts DEF ApdSound, FromDeleted
  <2> QED
    BY <2>2, SoundParts DEF ApdSound
<1>2. req.apd \in live /\ req.apd \in Blocks /\ req.apd # None /\ apd[req.apd].serial # 0
  BY <1>1, PreFacts, PdxAssumption DEF Made
<1>3. apd[req.apd].serial \in Serials /\ apd[req.apd].serial < apd_serial
  BY <1>2, PreFacts, SoundParts DEF Apds, SerialsPast
<1>4. /\ ~req.fast /\ req.caller \in Structs
      /\ req.src \in live /\ thread[req.caller].state = "call"
      /\ thread[req.caller].home = req.src
  BY SoundParts DEF CallerSound
<1> QED
  BY <1>1, <1>2, <1>3, <1>4

\* The cached calls after an APD is put into position i of the table, where all other
\* positions keep their entries or lose them.
LEMMA EnteredCache ==
    ASSUME Pre, req.step = "insert", NEW i \in Positions, Inserted(i), table'[i] = Entered,
           \A j \in Positions \ {i} : table'[j].apd # None =>
               /\ table'[j] = table[j] /\ apd'[table[j].apd].serial = apd[table[j].apd].serial,
           apd'[req.apd].serial = apd[req.apd].serial,
           UNCHANGED <<apd_table, registered, now>>
    PROVE  CacheSound'
<1> DEFINE n == apd[req.apd].serial
<1>1. /\ Names(req.pd, req.src, req.orig) /\ n \in Serials
      /\ \A h \in Buckets : pdx_cache[h].src # None => pdx_cache[h].serial # n
      /\ req.apd # None
  BY InsertFacts
<1>2. \A h \in Buckets : \/ pdx_cache'[h] = pdx_cache[h]
                         \/ pdx_cache'[h] = [src |-> req.src, proc |-> req.proc,
                                pd |-> req.pd, pos |-> i, serial |-> n, verified |-> now,
                                outlived |-> FALSE]
  BY <1>1, AddsFacts DEF Inserted
<1>3. /\ table'[i].orig = req.orig /\ table'[i].clist = registered[req.proc]
      /\ table'[i].apd = req.apd /\ table'[i].timestamp = now
  BY DEF Entered
<1>4. now <= now
  BY PreFacts, PdxAssumption
<1> HIDE DEF n
<1> SUFFICES ASSUME NEW h \in Buckets, NEW e, e = pdx_cache'[h], NEW t, t = table'[e.pos],
                    e.src # None, t.apd # None, apd'[t.apd].serial = e.serial
             PROVE  /\ t.timestamp <= e.verified /\ (t.clist = registered[e.proc] \/ e.outlived)
                    /\ Names(e.pd, e.src, t.orig)
  BY DEF CacheSound, Names
<1>5. CASE e = pdx_cache[h]
  <2>1. e.pos \in Positions
    BY <1>5, PreFacts DEF CachedCalls
  <2>2. CASE e.pos = i
    <3>1. t.apd = req.apd /\ e.serial = n
      BY <1>3, <2>2 DEF n
    <3> QED
      BY <1>1, <1>5, <3>1
  <2>3. CASE e.pos # i
    <3>1. t = table[e.pos] /\ apd[t.apd].serial = e.serial
      BY <2>1, <2>3
    <3> QED
      BY <1>5, <3>1, SoundParts DEF CacheSound
  <2> QED
    BY <2>2, <2>3
<1>6. CASE e = [src |-> req.src, proc |-> req.proc, pd |-> req.pd, pos |-> i,
                serial |-> n, verified |-> now,
                outlived |-> FALSE]
  <2>1. /\ e.src = req.src /\ e.proc = req.proc /\ e.pd = req.pd /\ e.pos = i
        /\ e.verified = now
    BY <1>6
  <2> QED
    BY <1>1, <1>3, <1>4, <2>1
<1> QED
  BY <1>2, <1>5, <1>6

LEMMA InsertRest ==
    ASSUME Pre, Insert
    PROVE  Rest' /\ GrantsRecent'
<1>1. PICK i \in FreePositions : table' = [table EXCEPT ![i] = Entered] /\ Inserted(i)
  BY DEF Insert
<1>2. i \in Positions /\ table[i].apd = None
  BY DEF FreePositions
<1>3. UNCHANGED <<live, apd, apd_table, thread, registered, apd_serial, now, lost>>
      /\ req.step = "insert"
  BY DEF Insert
<1>4. table'[i] = Entered /\ \A j \in Positions \ {i} : table'[j] = table[j]
  BY <1>1, <1>2, PreFacts
<1>5. /\ Made(req.apd, req.orig, registered[req.proc])
      /\ Names(req.pd, req.src, req.orig)
      /\ apd[req.apd].serial \in Serials /\ apd[req.apd].serial # 0
      /\ apd[req.apd].serial < apd_serial /\ ~req.fast
  BY <1>3, InsertFacts
<1>6. /\ req'.step = "start" /\ req'.apd = req.apd /\ ~req'.fast /\ req'.orig = req.orig
      /\ req'.caller = req.caller /\ req'.src = req.src /\ req'.pd = req.pd
      /\ req'.proc = req.proc
  BY <1>1, <1>5, PreFacts DEF Inserted, Requests
<1>7. /\ Entered.orig = req.orig /\ Entered.clist = registered[req.proc]
      /\ Entered.apd = req.apd /\ Entered.timestamp = now
  BY DEF Entered
<1>8. CacheSound'
  BY <1>1, <1>2, <1>3, <1>4, EnteredCache
<1>9. SerialsPast'
  <2>1. \A b \in Blocks : apd'[b].serial < apd_serial
    BY <1>3, SoundParts DEF SerialsPast
  <2>2. Adds(i, apd[req.apd].serial)
    BY <1>1 DEF Inserted
  <2> QED
    BY <1>2, <1>3, <1>5, <2>1, <2>2, SerialsAdded
<1>10. ParentsWait' /\ PdsUnused'
  BY <1>3, <1>6, SoundParts DEF ParentsWait, PdsUnused
<1> HIDE DEF Entered
<1>11. TableSound'
  <2>1. now <= now
    BY PreFacts, PdxAssumption
  <2> QED
    BY <1>3, <1>4, <1>5, <1>7, <2>1, SoundParts DEF TableSound, Made
<1>12. CallerSound'
  BY <1>3, <1>6, SoundParts DEF CallerSound
<1>13. OrigSound'
  BY <1>3, <1>5, <1>6 DEF OrigSound, Names
<1>14. ApdSound'
  BY <1>3, <1>5, <1>6 DEF ApdSound, FromDeleted, Made, Names
<1>15. LeftMarked'
  <2> SUFFICES ASSUME NEW b \in live, apd[b].clist # None
               PROVE  \/ \E j \in Positions : table'[j].apd = b
                      \/ b \in lost
                      \/ apd[b].closing /\ apd[b].users # 0
    BY <1>3 DEF LeftMarked
  <2>1. CASE b = req.apd
    BY <1>2, <1>4, <1>7, <2>1
  <2>2. CASE \E j \in Positions : table[j].apd = b
    <3>1. b # None
      BY PdxAssumption, PreFacts
    <3> QED
      BY <1>2, <1>4, <2>2, <3>1
  <2> QED
    BY <1>3, <2>1, <2>2, SoundParts DEF LeftMarked
<1>16. GrantsRecent'
  BY <1>6 DEF GrantsRecent
<1> QED
  BY <1>8, <1>9, <1>10, <1>11, <1>12, <1>13, <1>14, <1>15, <1>16 DEF Rest, Frame, CallsSound

LEMMA InsertFullRest ==
    ASSUME Pre, InsertFull
    PROVE  Rest' /\ GrantsRecent'
<1> DEFINE a == table[TableSize].apd
<1>1. PICK i \in Positions : /\ table' = [TableWithout(a) EXCEPT ![i] = Entered]
                             /\ lost' = lost \cup ({table[i].apd} \ {a})
                             /\ Inserted(i)
  BY DEF InsertFull
<1>2. TableSize \in Positions
  BY PdxAssumption DEF Positions
<1>3. /\ UNCHANGED <<apd_table, registered, apd_serial, now>> /\ Closes(a)
      /\ req.step = "insert"
  BY DEF InsertFull
<1>4. a # None /\ Made(a, table[TableSize].orig, table[TableSize].clist)
  BY <1>2, SoundParts DEF InsertFull, FreePositions, TableSound
<1>5. a \in live /\ apd[a].clist # None /\ a \in Blocks /\ (apd[a].closing => apd[a].extra # 0)
  BY <1>4, PdxAssumption, PreFacts DEF Made
<1>6. /\ Made(req.apd, req.orig, registered[req.proc])
      /\ Names(req.pd, req.src, req.orig)
      /\ \A j \in Positions : table[j].apd # req.apd
      /\ apd[req.apd].serial \in Serials /\ apd[req.apd].serial # 0
      /\ apd[req.apd].serial < apd_serial /\ ~req.fast
      /\ req.apd # None /\ req.apd \in live /\ req.caller \in Structs
      /\ req.src \in live /\ thread[req.caller].state = "call"
      /\ thread[req.caller].home = req.src
  BY <1>3, InsertFacts
<1>7. req.apd # a
  BY <1>2, <1>6
<1>8. /\ req'.step = "start" /\ req'.apd = req.apd /\ ~req'.fast /\ req'.orig = req.orig
      /\ req'.caller = req.caller /\ req'.src = req.src /\ req'.pd = req.pd
      /\ req'.proc = req.proc
  BY <1>1, <1>6, PreFacts DEF Inserted, Requests
<1>9. TableWithout(a) \in [Positions -> Entries]
  BY RemovedType
<1>10. table'[i] = Entered /\ \A j \in Positions \ {i} : table'[j] = TableWithout(a)[j]
  BY <1>1, <1>9
<1>11. NoEntry.apd = None
  BY DEF NoEntry
<1>12. \A j \in Positions : \/ TableWithout(a)[j] = table[j] /\ (table[j].apd = a => apd[a].closing)
                            \/ table[j].apd = a /\ TableWithout(a)[j].apd = None
                               /\ ~apd[a].closing
  BY <1>11 DEF TableWithout, Removed
<1>13. /\ Entered.orig = req.orig /\ Entered.clist = registered[req.proc]
       /\ Entered.apd = req.apd /\ Entered.timestamp = now
  BY DEF Entered
<1> HIDE DEF a, Entered, TableWithout
<1>14. /\ ParentsWait' /\ PdsUnused'
       /\ \A b \in live : b # a => b \in live' /\ apd'[b] = apd[b]
       /\ a \in live' => apd'[a] = [apd[a] EXCEPT !.closing = TRUE] /\ apd[a].users # 0
       /\ apd[a].extra # 0 => a \in live'
       /\ live' \subseteq live
       /\ \A b \in Blocks : apd'[b].serial < apd_serial
       /\ \A s \in Structs : thread[s].state \in {"run", "call", "zombie"} =>
              thread'[s] = thread[s] /\ thread[s].home \in live'
  BY <1>3, <1>5, <1>8, ClosesRest
<1>15. apd[a] \in Apds
  BY <1>5, PreFacts
<1>16. ASSUME apd[a].closing
       PROVE  /\ a \in live' /\ apd'[a].serial = apd[a].serial
              /\ apd'[a].clist = apd[a].clist /\ apd'[a].orig = apd[a].orig
              /\ apd'[a].extra = apd[a].extra /\ apd[a].extra # 0
  <2>1. a \in live' /\ apd[a].extra # 0
    BY <1>5, <1>14, <1>16
  <2>2. apd'[a] = [apd[a] EXCEPT !.closing = TRUE]
    BY <1>14, <2>1
  <2> QED
    BY <1>15, <2>1, <2>2 DEF Apds
<1>17. apd'[req.apd] = apd[req.apd] /\ req.apd \in live'
  BY <1>6, <1>7, <1>14
<1>18. \A j \in Positions \ {i} : table'[j].apd # None =>
           /\ table'[j] = table[j]
           /\ \/ table[j].apd # a
              \/ apd[a].closing
  BY <1>10, <1>12
<1>19. \A j \in Positions : table[j].apd # None =>
           /\ table[j].apd \in live /\ Made(table[j].apd, table[j].orig, table[j].clist)
           /\ table[j].timestamp <= now
  BY SoundParts DEF TableSound, Made
<1>20. CacheSound'
  <2>1. \A j \in Positions \ {i} : table'[j].apd # None =>
            /\ table'[j] = table[j] /\ apd'[table[j].apd].serial = apd[table[j].apd].serial
    BY <1>14, <1>16, <1>18, <1>19
  <2> QED
    BY <1>1, <1>3, <1>10, <1>17, <2>1, EnteredCache
<1>21. SerialsPast'
  <2>1. Adds(i, apd[req.apd].serial)
    BY <1>1 DEF Inserted
  <2> QED
    BY <1>3, <1>6, <1>14, <2>1, SerialsAdded
<1>22. TableSound'
  <2> SUFFICES ASSUME NEW j \in Positions, table'[j].apd # None
               PROVE  (Made(table[j].apd, table[j].orig, table[j].clist)
                       /\ table[j].timestamp <= now)'
    BY DEF TableSound
  <2>1. CASE j = i
    <3>1. now <= now
      BY PreFacts, PdxAssumption
    <3> QED
      BY <1>3, <1>6, <1>10, <1>13, <1>17, <2>1, <3>1 DEF Made
  <2>2. CASE j # i /\ table[j].apd # a
    <3>1. table'[j] = table[j]
      BY <1>18, <2>2
    <3>2. table[j].apd \in live' /\ apd'[table[j].apd] = apd[table[j].apd]
      BY <1>14, <1>19, <2>2, <3>1
    <3> QED
      BY <1>3, <1>19, <3>1, <3>2 DEF Made
  <2>3. CASE j # i /\ table[j].apd = a
    <3>1. table'[j] = table[j] /\ apd[a].closing
      BY <1>18, <2>3
    <3> QED
      BY <1>3, <1>16, <1>19, <2>3, <3>1 DEF Made
  <2> QED
    BY <2>1, <2>2, <2>3
<1>23. CallerSound'
  <2>1. req.proc \in Procs /\ req.pd \in PdArgs
    BY <1>3, SoundParts DEF CallerSound
  <2>2. thread'[req.caller] = thread[req.caller] /\ req.src \in live'
    BY <1>6, <1>14
  <2> QED
    BY <1>6, <1>8, <2>1, <2>2 DEF CallerSound
<1>24. OrigSound'
  BY <1>3, <1>6, <1>8 DEF OrigSound, Names
<1>25. ApdSound'
  BY <1>3, <1>6, <1>8, <1>17 DEF ApdSound, FromDeleted, Made, Names
<1>26. LeftMarked'
  <2> SUFFICES ASSUME NEW b \in live', apd'[b].clist # None
               PROVE  \/ \E j \in Positions : table'[j].apd = b
                      \/ b \in lost'
                      \/ apd'[b].closing /\ apd'[b].users # 0
    BY DEF LeftMarked
  <2>1. CASE b = a
    <3>1. apd'[a] = [apd[a] EXCEPT !.closing = TRUE] /\ apd[a].users # 0
      BY <1>14, <2>1
    <3>2. apd'[a].closing /\ apd'[a].users # 0
      BY <1>15, <3>1 DEF Apds
    <3> QED
      BY <2>1, <3>2
  <2>2. CASE b = req.apd
    BY <1>10, <1>13, <2>2
  <2>3. CASE b # a /\ b # req.apd
    <3>1. b \in live /\ apd'[b] = apd[b] /\ b # None
      BY <1>14, <2>3, PreFacts, PdxAssumption
    <3>2. CASE \E j \in Positions : table[j].apd = b
      <4>1. PICK j \in Positions : table[j].apd = b
        BY <3>2
      <4>2. CASE j = i
        BY <1>1, <2>3, <4>1, <4>2
      <4>3. CASE j # i
        BY <1>10, <1>12, <2>3, <4>1, <4>3
      <4> QED
        BY <4>2, <4>3
    <3>3. CASE b \in lost
      BY <1>1, <3>3
    <3> QED
      BY <1>3, <2>3, <3>1, <3>2, <3>3, SoundParts DEF LeftMarked
  <2> QED
    BY <2>1, <2>2, <2>3
<1>27. GrantsRecent'
  BY <1>8 DEF GrantsRecent
<1> QED
  BY <1>14, <1>20, <1>21, <1>22, <1>23, <1>24, <1>25, <1>26, <1>27 DEF Rest, Frame, CallsSound

\* A thread starts in the APD of the call.
LEMMA StartsRest ==
    ASSUME Pre, req.step = "start", NEW s \in Structs,
           thread[s].state \notin {"run", "call", "zombie"},
           thread'[s].state = "run", thread'[s].parent = req.caller,
           thread'[s].home = req.apd, \A t \in Structs \ {s} : thread'[t] = thread[t],
           \A b \in Blocks : b # req.apd => apd'[b] = apd[b],
           apd'[req.apd].serial = apd[req.apd].serial, apd'[req.apd].clist = apd[req.apd].clist,
           apd'[req.apd].orig = apd[req.apd].orig, apd'[req.apd].extra = apd[req.apd].extra,
           apd'[req.apd].closing = apd[req.apd].closing, apd'[req.apd].users # 0,
           req' = Idle,
           UNCHANGED <<live, apd_table, table, pdx_cache, registered, apd_serial, now, lost>>
    PROVE  Rest' /\ GrantsRecent'
<1> DEFINE a == req.apd
           c == req.caller
<1>1. a \in live /\ a \in Blocks /\ c \in Structs /\ thread[c].state = "call"
  BY StartApd, SoundParts DEF CallerSound
<1>2. apd[a].clist # None
  BY SoundParts, PdxAssumption DEF ApdSound, FromDeleted, Made
<1>3. /\ \A b \in Blocks : b # a => apd'[b] = apd[b]
      /\ apd'[a].serial = apd[a].serial /\ apd'[a].clist = apd[a].clist
      /\ apd'[a].orig = apd[a].orig /\ apd'[a].extra = apd[a].extra
      /\ apd'[a].closing = apd[a].closing /\ apd'[a].users # 0
      /\ thread'[s].home = a /\ thread'[s].parent = c
  OBVIOUS
<1>4. \A b : b # a => Users(thread', b) = Users(thread, b)
  BY <1>3 DEF Users
<1>5. req'.step = "none" /\ req'.caller = None
  BY DEF Idle
<1>6. /\ \A t \in Structs : (thread[t].state \in {"run", "call"} /\ thread[t].pdx) =>
             /\ thread[t].parent \in Structs /\ thread[thread[t].parent].state = "call"
             /\ thread[t].parent # c
      /\ \A t, u \in Structs :
             (/\ thread[t].state \in {"run", "call"} /\ thread[t].pdx
              /\ thread[u].state \in {"run", "call"} /\ thread[u].pdx
              /\ thread[t].parent = thread[u].parent) => t = u
  BY SoundParts DEF ParentsWait
<1> HIDE DEF a, c
<1>7. s # c /\ thread'[c] = thread[c]
  BY <1>1
<1>8. ParentsWait'
  <2>1. ASSUME NEW t \in Structs, thread'[t].state \in {"run", "call"}, thread'[t].pdx
        PROVE  /\ thread'[t].parent \in Structs
               /\ thread'[thread'[t].parent].state = "call"
               /\ thread'[t].parent # None
    <3>1. CASE t = s
      BY <1>1, <1>3, <1>7, <3>1, PdxAssumption
    <3>2. CASE t # s
      BY <1>6, <2>1, <3>2, PdxAssumption
    <3> QED
      BY <3>1, <3>2
  <2>2. ASSUME NEW t \in Structs, NEW u \in Structs,
               thread'[t].state \in {"run", "call"}, thread'[t].pdx,
               thread'[u].state \in {"run", "call"}, thread'[u].pdx,
               thread'[t].parent = thread'[u].parent
        PROVE  t = u
    <3>1. CASE t = s /\ u # s
      BY <1>3, <1>6, <2>2, <3>1
    <3>2. CASE t # s /\ u = s
      BY <1>3, <1>6, <2>2, <3>2
    <3>3. CASE t # s /\ u # s
      BY <1>6, <2>2, <3>3
    <3> QED
      BY <3>1, <3>2, <3>3
  <2> QED
    BY <1>5, <2>1, <2>2 DEF ParentsWait
<1>9. PdsUnused'
  <2> SUFFICES ASSUME NEW pd \in Pds, apd_table[pd] # None
               PROVE  LET b == apd_table[pd]
                      IN  /\ b \in live /\ apd'[b].clist = None /\ apd'[b].pool = None
                          /\ ~apd'[b].closing /\ Users(thread', b) = {}
    BY DEF PdsUnused
  <2>1. LET b == apd_table[pd]
        IN  /\ b \in live /\ apd[b].clist = None /\ apd[b].pool = None
            /\ ~apd[b].closing /\ Users(thread, b) = {}
    BY SoundParts DEF PdsUnused
  <2>2. apd_table[pd] # a /\ apd_table[pd] \in Blocks
    BY <1>2, <2>1, PreFacts
  <2> QED
    BY <1>3, <1>4, <2>1, <2>2
<1>10. TableSound'
  BY <1>3, SoundParts, PreFacts DEF TableSound, Made
<1>11. SerialsPast'
  BY <1>3, SoundParts, PreFacts DEF SerialsPast
<1>12. CacheSound'
  <2>1. \A h \in Buckets : pdx_cache[h].pos \in Positions
    BY PreFacts DEF CachedCalls
  <2>2. \A j \in Positions : table[j].apd # None => table[j].apd \in Blocks
    BY PreFacts DEF Entries
  <2> QED
    BY <1>3, <2>1, <2>2, SoundParts DEF CacheSound, Names
<1>13. CallerSound' /\ OrigSound' /\ ApdSound' /\ GrantsRecent'
  BY <1>5 DEF CallerSound, OrigSound, ApdSound, FromDeleted, GrantsRecent
<1>14. LeftMarked'
  <2> SUFFICES ASSUME NEW b \in live, apd'[b].clist # None
               PROVE  \/ \E j \in Positions : table[j].apd = b
                      \/ b \in lost
                      \/ apd'[b].closing /\ apd'[b].users # 0
    BY DEF LeftMarked
  <2>1. b \in Blocks
    BY PreFacts
  <2>2. apd[b].clist # None
    BY <1>3, <2>1
  <2>3. \/ \E j \in Positions : table[j].apd = b
        \/ b \in lost
        \/ apd[b].closing /\ apd[b].users # 0
    BY <2>2, SoundParts DEF LeftMarked
  <2> QED
    BY <1>3, <2>1, <2>3
<1> QED
  BY <1>8, <1>9, <1>10, <1>11, <1>12, <1>13, <1>14 DEF Rest, Frame, CallsSound

LEMMA StartPooledRest ==
    ASSUME Pre, StartPooled, stop' = "no"
    PROVE  Rest' /\ GrantsRecent'
<1> DEFINE a == req.apd
           s == apd[a].pool
           n == thread[s].next
<1>1. a \in Blocks /\ apd[a] \in Apds /\ s \in Structs /\ thread[s] \in Threads
      /\ thread[s].state = "pooled" /\ thread[s].home = a /\ req.step = "start"
  BY StartApd, PreFacts DEF StartPooled, Apds
<1>2. /\ thread' = [thread EXCEPT ![s].state = "run", ![s].in_apd = a,
                                  ![s].parent = req.caller, ![s].pdx = TRUE]
      /\ apd' = [apd EXCEPT ![a].users = @ + 1, ![a].pool = n]
      /\ req' = Idle
      /\ UNCHANGED <<live, apd_table, table, pdx_cache, registered, apd_serial, now, lost>>
  BY DEF StartPooled, WithUser
<1> HIDE DEF a, s, n
<1>3. /\ thread'[s].state = "run" /\ thread'[s].parent = req.caller /\ thread'[s].home = a
      /\ \A t \in Structs \ {s} : thread'[t] = thread[t]
  BY <1>1, <1>2, PreFacts DEF Threads
<1>4. \A b \in Blocks : b # a => apd'[b] = apd[b]
  BY <1>1, <1>2, PreFacts
<1>5. apd'[a] = [apd[a] EXCEPT !.users = @ + 1, !.pool = n]
  BY <1>1, <1>2, PreFacts
<1>6. /\ apd'[a].serial = apd[a].serial /\ apd'[a].clist = apd[a].clist
      /\ apd'[a].orig = apd[a].orig /\ apd'[a].extra = apd[a].extra
      /\ apd'[a].users = apd[a].users + 1
  BY <1>1, <1>5 DEF Apds
<1>7. apd'[a].closing = apd[a].closing
  BY <1>1, <1>5 DEF Apds
<1>8. apd'[a].users # 0
  BY <1>1, <1>6 DEF Apds
<1> QED
  BY <1>1, <1>2, <1>3, <1>4, <1>6, <1>7, <1>8, StartsRest DEF a

LEMMA StartNewRest ==
    ASSUME Pre, StartNew
    PROVE  Rest' /\ GrantsRecent'
<1> DEFINE a == req.apd
<1>1. a \in Blocks /\ apd[a] \in Apds /\ req.step = "start"
  BY StartApd DEF StartNew
<1>2. PICK s \in Structs :
         /\ thread[s].state \in {"unused", "freed"}
         /\ thread' = [thread EXCEPT ![s] =
                     [state |-> "run", home |-> a, in_apd |-> a, parent |-> req.caller,
                      pdx |-> TRUE, next |-> None]]
  BY DEF StartNew
<1>3. /\ apd' = [apd EXCEPT ![a].users = @ + 1] /\ req' = Idle
      /\ UNCHANGED <<live, apd_table, table, pdx_cache, registered, apd_serial, now, lost>>
  BY DEF StartNew, WithUser
<1> HIDE DEF a
<1>4. /\ thread'[s].state = "run" /\ thread'[s].parent = req.caller /\ thread'[s].home = a
      /\ \A t \in Structs \ {s} : thread'[t] = thread[t]
  BY <1>2, PreFacts
<1>5. \A b \in Blocks : b # a => apd'[b] = apd[b]
  BY <1>1, <1>3, PreFacts
<1>6. apd'[a] = [apd[a] EXCEPT !.users = @ + 1]
  BY <1>1, <1>3, PreFacts
<1>7. /\ apd'[a].serial = apd[a].serial /\ apd'[a].clist = apd[a].clist
      /\ apd'[a].orig = apd[a].orig /\ apd'[a].extra = apd[a].extra
      /\ apd'[a].users = apd[a].users + 1
  BY <1>1, <1>6 DEF Apds
<1>8. apd'[a].closing = apd[a].closing
  BY <1>1, <1>6 DEF Apds
<1>9. apd'[a].users # 0
  BY <1>1, <1>7 DEF Apds
<1> QED
  BY <1>1, <1>2, <1>3, <1>4, <1>5, <1>7, <1>8, <1>9, StartsRest DEF a

LEMMA StartFailsRest ==
    ASSUME Pre, StartFails
    PROVE  Rest' /\ GrantsRecent'
<1> DEFINE a == req.apd
<1>1. a \in Blocks /\ apd[a] \in Apds /\ req.step = "start"
  BY StartApd DEF StartFails
<1>2. /\ apd' = [apd EXCEPT ![a].users = @ + 1, ![a].extra = @ + 1]
      /\ Fails
      /\ UNCHANGED <<live, apd_table, table, pdx_cache, registered, apd_serial, now, lost>>
  BY DEF StartFails, WithUser
<1> HIDE DEF a
<1>3. \A b \in Blocks : b # a => apd'[b] = apd[b]
  BY <1>1, <1>2, PreFacts
<1>4. apd'[a] = [apd[a] EXCEPT !.users = @ + 1, !.extra = @ + 1]
  BY <1>1, <1>2, PreFacts
<1>5. /\ apd'[a].serial = apd[a].serial /\ apd'[a].clist = apd[a].clist
      /\ apd'[a].orig = apd[a].orig /\ apd'[a].pool = apd[a].pool
      /\ apd'[a].users = apd[a].users + 1 /\ apd'[a].extra = apd[a].extra + 1
  BY <1>1, <1>4 DEF Apds
<1>6. apd'[a].closing = apd[a].closing
  BY <1>1, <1>4 DEF Apds
<1>7. apd'[a].users # 0 /\ apd'[a].extra # 0
  BY <1>1, <1>5 DEF Apds
<1>8. \A b \in Blocks : /\ apd'[b].serial = apd[b].serial
                        /\ apd'[b].clist = apd[b].clist /\ apd'[b].orig = apd[b].orig
                        /\ apd'[b].closing = apd[b].closing /\ apd'[b].pool = apd[b].pool
  BY <1>3, <1>5, <1>6
<1>9. \A b \in live : /\ apd[b].extra # 0 => apd'[b].extra # 0
                      /\ apd[b].users # 0 => apd'[b].users # 0
  BY <1>3, <1>7, PreFacts
<1>10. \A pd \in Pds : apd_table[pd] # None =>
               apd'[apd_table[pd]].pool = apd[apd_table[pd]].pool
  BY <1>8, PreFacts
<1> QED
  BY <1>1, <1>2, <1>8, <1>9, <1>10, FailsRest

\* A thread ends without returning.
LEMMA EndsRest ==
    ASSUME Pre, NEW s \in Structs, thread[s].state = "run",
           thread' = [thread EXCEPT ![s].state = "zombie"],
           \A b \in Blocks : /\ apd'[b].serial = apd[b].serial
                             /\ apd'[b].clist = apd[b].clist /\ apd'[b].orig = apd[b].orig
                             /\ apd'[b].closing = apd[b].closing
                             /\ apd'[b].pool = apd[b].pool /\ apd'[b].users = apd[b].users
                             /\ apd'[b].extra = apd[b].extra,
           GrantsRecent,
           UNCHANGED <<live, apd_table, table, pdx_cache, registered, req, apd_serial, now,
                       lost>>
    PROVE  Rest' /\ GrantsRecent'
<1>1. /\ \A t \in Structs \ {s} : thread'[t] = thread[t]
      /\ thread'[s].state = "zombie"
      /\ \A t \in Structs : thread'[t].home = thread[t].home
  BY PreFacts DEF Threads
<1>2. \A b : Users(thread', b) = Users(thread, b)
  BY <1>1 DEF Users
<1>3. \A t \in Structs : thread[t].state = "call" => thread'[t] = thread[t]
  BY <1>1
<1>4. \A t \in Structs : thread'[t].state \in {"run", "call"} => thread'[t] = thread[t]
  BY <1>1
<1>5. ParentsWait'
  BY <1>3, <1>4, SoundParts DEF ParentsWait
<1>6. PdsUnused'
  BY <1>2, SoundParts, PreFacts DEF PdsUnused
<1>7. TableSound'
  BY SoundParts, PreFacts DEF TableSound, Made
<1>8. SerialsPast'
  BY SoundParts DEF SerialsPast
<1>9. CacheSound'
  <2>1. \A h \in Buckets : pdx_cache[h].pos \in Positions
    BY PreFacts DEF CachedCalls
  <2>2. \A j \in Positions : table[j].apd # None => table[j].apd \in Blocks
    BY PreFacts DEF Entries
  <2> QED
    BY <2>1, <2>2, SoundParts DEF CacheSound, Names
<1>10. CallerSound'
  BY <1>3, SoundParts DEF CallerSound
<1>11. OrigSound'
  BY SoundParts DEF OrigSound, Names
<1>12. ApdSound'
  BY SoundParts, PreFacts DEF ApdSound, FromDeleted, Made, Names
<1>13. LeftMarked'
  BY SoundParts, PreFacts DEF LeftMarked
<1>14. GrantsRecent'
  BY DEF GrantsRecent
<1> QED
  BY <1>5, <1>6, <1>7, <1>8, <1>9, <1>10, <1>11, <1>12, <1>13, <1>14
  DEF Rest, Frame, CallsSound

LEMMA ExitRest ==
    ASSUME Pre, GrantsRecent, NEW s \in Structs, Exit(s)
    PROVE  Rest' /\ GrantsRecent'
  BY EndsRest DEF Exit

LEMMA KillRest ==
    ASSUME Pre, GrantsRecent, NEW s \in Structs, Kill(s)
    PROVE  Rest' /\ GrantsRecent'
<1> DEFINE a == thread[s].home
<1>1. a \in Blocks
  BY PreFacts DEF Threads
<1>2. apd' = [apd EXCEPT ![a].held = @ + 1]
  BY DEF Kill
<1> HIDE DEF a
<1>3. \A b \in Blocks : /\ apd'[b].serial = apd[b].serial
                        /\ apd'[b].clist = apd[b].clist /\ apd'[b].orig = apd[b].orig
                        /\ apd'[b].pool = apd[b].pool /\ apd'[b].users = apd[b].users
                        /\ apd'[b].extra = apd[b].extra
  BY <1>1, <1>2, PreFacts DEF Apds
<1>4. \A b \in Blocks : apd'[b].closing = apd[b].closing
  BY <1>1, <1>2, PreFacts DEF Apds
<1>5. /\ thread[s].state = "run" /\ thread' = [thread EXCEPT ![s].state = "zombie"]
      /\ UNCHANGED <<live, apd_table, table, pdx_cache, registered, req, apd_serial, now,
                     lost>>
  BY DEF Kill
<1> QED
  BY <1>3, <1>4, <1>5, EndsRest

\* What an APD is once a thread has left it.
LEMMA LeftFacts ==
    ASSUME Pre, NEW s, NEW th, Leaves(s, th)
    PROVE  LET a == thread[s].home
           IN  /\ a \in live /\ s \in Users(thread, a)
               /\ \A b \in live : b # a => b \in live' /\ apd'[b] = apd[b]
               /\ a \in live' =>
                      /\ apd'[a].serial = apd[a].serial /\ apd'[a].clist = apd[a].clist
                      /\ apd'[a].orig = apd[a].orig /\ apd'[a].extra = apd[a].extra
                      /\ apd'[a].closing = apd[a].closing
                      /\ (apd[a].closing => apd'[a].users # 0)
               /\ a \notin live' => apd[a].closing /\ apd[a].extra = 0
               /\ live' \subseteq live
               /\ \A b \in Blocks : apd'[b].serial < apd_serial
               /\ \A b \in Blocks \ {a} : Users(thread', b) = Users(thread, b)
               /\ \A t \in Structs : (thread'[t].state \in {"run", "call"} /\ thread'[t].pdx) =>
                      t # s /\ thread'[t] = th[t]
               /\ \A t \in Structs \ {s} : th[t].state = "call" => thread'[t] = th[t]
<1> DEFINE a == thread[s].home
<1>1. /\ LastLeaves(s, th) \/ OneLeaves(s, th)
      /\ \A b \in Blocks \ {a} : Users(thread', b) = Users(thread, b)
  BY LeavesFacts, PreFacts
<1>2. /\ a \in live /\ s \in Users(thread, a)
      /\ InPool(s, th)[s] = [Unused EXCEPT !.state = "pooled", !.home = a, !.next = apd[a].pool]
      /\ \A t \in Structs \ {s} : InPool(s, th)[t] = th[t]
  <2> DEFINE new == InPool(s, th)
  <2>1. TypeOK /\ Uses
    BY PreFacts
  <2>2. /\ a \in live /\ new \in [Structs -> Threads]
        /\ new[s] = [Unused EXCEPT !.state = "pooled", !.home = a, !.next = apd[a].pool]
        /\ \A t \in Structs \ {s} : new[t] = th[t]
        /\ s \in Users(thread, a) /\ Users(new, a) = Users(thread, a) \ {s}
        /\ s \notin Pooled(thread, a) /\ Pooled(new, a) = Pooled(thread, a) \cup {s}
        /\ \A b \in Blocks \ {a} : Users(new, b) = Users(thread, b)
                                  /\ Pooled(new, b) = Pooled(thread, b)
        /\ Exact(new, s, a)
        /\ apd[a].users \in Nat /\ apd[a].extra \in Nat /\ apd[a].users # 0
        /\ apd[a].users - 1 = apd[a].extra + Cardinality(Users(new, a))
        /\ apd[a].users = 1 => apd[a].extra = 0 /\ Users(new, a) = {}
    BY <2>1, InPoolFacts
  <2> HIDE DEF new
  <2>3. /\ a \in live /\ s \in Users(thread, a)
        /\ new[s] = [Unused EXCEPT !.state = "pooled", !.home = a, !.next = apd[a].pool]
        /\ \A t \in Structs \ {s} : new[t] = th[t]
    BY <2>2
  <2> QED
    BY <2>3 DEF new
<1>3. a \in Blocks /\ live \subseteq Blocks /\ apd[a] \in Apds
  BY <1>2, PreFacts
<1> HIDE DEF a
<1>4. CASE LastLeaves(s, th)
  <2>1. /\ apd[a].closing /\ apd[a].extra = 0 /\ live' = live \ {a} /\ apd'[a] = Blank
        /\ \A b \in Blocks : b # a => apd'[b] = apd[b]
        /\ \A t \in Structs : \/ thread'[t].state \in {"freed", "pooled"} /\ ~thread'[t].pdx
                              \/ t # s /\ thread'[t] = th[t]
        /\ \A t \in Structs : th[t].state \in {"run", "call", "zombie"} /\ t # s =>
                                  thread'[t] = th[t]
    BY <1>4 DEF LastLeaves, a
  <2>2. \A b \in Blocks : apd'[b].serial < apd_serial
    <3>1. apd'[a].serial < apd_serial
      BY <2>1, SoundParts, PreFacts, PdxAssumption DEF Blank, SerialsPast, Serials
    <3> QED
      BY <2>1, <3>1, SoundParts DEF SerialsPast
  <2>3. \A t \in Structs : (thread'[t].state \in {"run", "call"} /\ thread'[t].pdx) =>
                      t # s /\ thread'[t] = th[t]
    BY <2>1
  <2>4. \A t \in Structs \ {s} : th[t].state = "call" => thread'[t] = th[t]
    BY <2>1
  <2> QED
    BY <1>1, <1>2, <1>3, <2>1, <2>2, <2>3, <2>4 DEF a
<1>5. CASE OneLeaves(s, th)
  <2>1. /\ live' = live /\ apd[a].users \in Nat /\ apd[a].users # 0
        /\ ~(apd[a].closing /\ apd[a].users = 1)
        /\ apd' = [apd EXCEPT ![a].pool = s, ![a].users = @ - 1]
        /\ thread' = InPool(s, th)
    BY <1>5 DEF OneLeaves, a
  <2>2. \A b \in Blocks : b # a => apd'[b] = apd[b]
    BY <1>3, <2>1, PreFacts
  <2>3. apd'[a] = [apd[a] EXCEPT !.pool = s, !.users = @ - 1]
    BY <1>3, <2>1, PreFacts
  <2>4. /\ apd'[a].serial = apd[a].serial /\ apd'[a].clist = apd[a].clist
        /\ apd'[a].orig = apd[a].orig /\ apd'[a].extra = apd[a].extra
        /\ apd'[a].users = apd[a].users - 1
    BY <1>3, <2>3 DEF Apds
  <2>5. apd'[a].closing = apd[a].closing
    BY <1>3, <2>3 DEF Apds
  <2>6. apd[a].closing => apd'[a].users # 0
    <3>1. apd[a].users # 1 => apd[a].users - 1 # 0
      BY <2>1
    <3> QED
      BY <2>1, <2>4, <3>1
  <2>7. \A b \in Blocks : apd'[b].serial < apd_serial
    BY <2>2, <2>4, SoundParts DEF SerialsPast
  <2>8. thread'[s].state = "pooled" /\ ~thread'[s].pdx
    BY <1>2, <2>1 DEF Unused
  <2>9. \A t \in Structs \ {s} : thread'[t] = th[t]
    BY <1>2, <2>1
  <2>10. \A t \in Structs : (thread'[t].state \in {"run", "call"} /\ thread'[t].pdx) =>
                      t # s /\ thread'[t] = th[t]
    BY <2>8, <2>9
  <2> QED
    BY <1>1, <1>2, <1>3, <2>1, <2>2, <2>4, <2>5, <2>6, <2>7, <2>9, <2>10 DEF a
<1> QED
  BY <1>1, <1>4, <1>5

LEMMA LeavesRest ==
    ASSUME Pre, NEW s, NEW th, Leaves(s, th), req = Idle,
           UNCHANGED <<apd_table, table, pdx_cache, registered, req, apd_serial, now, lost>>
    PROVE  /\ PdsUnused' /\ TableSound' /\ SerialsPast' /\ CallsSound' /\ GrantsRecent'
<1> DEFINE a == thread[s].home
<1>1. /\ a \in live /\ s \in Users(thread, a)
      /\ \A b \in live : b # a => b \in live' /\ apd'[b] = apd[b]
      /\ a \in live' =>
             /\ apd'[a].serial = apd[a].serial /\ apd'[a].clist = apd[a].clist
             /\ apd'[a].orig = apd[a].orig /\ apd'[a].extra = apd[a].extra
             /\ apd'[a].closing = apd[a].closing
             /\ (apd[a].closing => apd'[a].users # 0)
      /\ a \notin live' => apd[a].closing /\ apd[a].extra = 0
      /\ live' \subseteq live
      /\ \A b \in Blocks : apd'[b].serial < apd_serial
      /\ \A b \in Blocks \ {a} : Users(thread', b) = Users(thread, b)
  BY LeftFacts
<1>2. a \in Blocks /\ live \subseteq Blocks
  BY <1>1, PreFacts
<1>3. req.step = "none" /\ req' = req
  BY DEF Idle
<1> HIDE DEF a
<1>4. PdsUnused'
  <2> SUFFICES ASSUME NEW pd \in Pds, apd_table[pd] # None
               PROVE  LET b == apd_table[pd]
                      IN  /\ b \in live' /\ apd'[b].clist = None /\ apd'[b].pool = None
                          /\ ~apd'[b].closing /\ Users(thread', b) = {}
    BY DEF PdsUnused
  <2>1. LET b == apd_table[pd]
        IN  /\ b \in live /\ apd[b].clist = None /\ apd[b].pool = None
            /\ ~apd[b].closing /\ Users(thread, b) = {}
    BY SoundParts DEF PdsUnused
  <2>2. apd_table[pd] # a /\ apd_table[pd] \in Blocks
    BY <1>1, <1>2, <2>1
  <2> QED
    BY <1>1, <2>1, <2>2
<1>5. \A j \in Positions : table[j].apd # None =>
          /\ Made(table[j].apd, table[j].orig, table[j].clist)
          /\ table[j].timestamp <= now /\ table[j].apd \in live
          /\ (table[j].apd = a => a \in live')
  BY <1>1, SoundParts DEF TableSound, Made
<1>6. TableSound'
  <2> SUFFICES ASSUME NEW j \in Positions, table[j].apd # None
               PROVE  (Made(table[j].apd, table[j].orig, table[j].clist)
                       /\ table[j].timestamp <= now)'
    BY DEF TableSound
  <2>1. CASE table[j].apd = a
    BY <1>1, <1>5, <2>1 DEF Made
  <2>2. CASE table[j].apd # a
    <3>1. table[j].apd \in live' /\ apd'[table[j].apd] = apd[table[j].apd]
      BY <1>1, <1>5, <2>2
    <3> QED
      BY <1>5, <3>1 DEF Made
  <2> QED
    BY <2>1, <2>2
<1>7. SerialsPast'
  BY <1>1, SoundParts DEF SerialsPast
<1>8. CacheSound'
  <2>1. \A h \in Buckets : pdx_cache[h].pos \in Positions
    BY PreFacts DEF CachedCalls
  <2>2. \A j \in Positions : table[j].apd # None =>
            apd'[table[j].apd].serial = apd[table[j].apd].serial
    BY <1>1, <1>5
  <2> QED
    BY <2>1, <2>2, SoundParts DEF CacheSound, Names
<1>9. CallerSound' /\ OrigSound' /\ ApdSound' /\ GrantsRecent'
  BY <1>3 DEF CallerSound, OrigSound, ApdSound, FromDeleted, GrantsRecent
<1>10. LeftMarked'
  <2> SUFFICES ASSUME NEW b \in live', apd'[b].clist # None
               PROVE  \/ \E j \in Positions : table[j].apd = b
                      \/ b \in lost
                      \/ apd'[b].closing /\ apd'[b].users # 0
    BY DEF LeftMarked
  <2>1. b \in live /\ apd[b].clist # None /\ apd'[b].closing = apd[b].closing
    BY <1>1
  <2>2. \/ \E j \in Positions : table[j].apd = b
        \/ b \in lost
        \/ apd[b].closing /\ apd[b].users # 0
    BY <1>3, <2>1, SoundParts DEF LeftMarked
  <2>3. ASSUME apd[b].closing /\ apd[b].users # 0 PROVE apd'[b].closing /\ apd'[b].users # 0
    BY <1>1, <2>1, <2>3
  <2> QED
    BY <2>2, <2>3
<1> QED
  BY <1>4, <1>6, <1>7, <1>8, <1>9, <1>10 DEF CallsSound

LEMMA ReturnRest ==
    ASSUME Pre, NEW s \in Structs, Return(s)
    PROVE  Rest' /\ GrantsRecent'
<1> DEFINE p  == thread[s].parent
           th == GoesOn(s)
<1>1. Leaves(s, th) /\ req = Idle /\ thread[s].state = "run" /\ thread[s].pdx
      /\ UNCHANGED <<apd_table, table, pdx_cache, registered, req, apd_serial, now, lost>>
  BY ReturnLeaves DEF Return
<1>2. PdsUnused' /\ TableSound' /\ SerialsPast' /\ CallsSound' /\ GrantsRecent'
  BY <1>1, LeavesRest
<1>3. /\ \A t \in Structs : (thread'[t].state \in {"run", "call"} /\ thread'[t].pdx) =>
             t # s /\ thread'[t] = th[t]
      /\ \A t \in Structs \ {s} : th[t].state = "call" => thread'[t] = th[t]
  BY <1>1, LeftFacts
<1>4. p \in Structs /\ thread[p].state = "call"
  BY <1>1, SoundParts DEF ParentsWait
<1>5. th = [thread EXCEPT ![p].state = "run"]
  BY DEF GoesOn
<1> HIDE DEF th, p
<1>6. /\ \A t \in Structs : th[t].pdx = thread[t].pdx /\ th[t].parent = thread[t].parent
      /\ \A t \in Structs : t # p => th[t] = thread[t]
  BY <1>4, <1>5, PreFacts DEF Threads
<1>7. req'.caller = None
  BY <1>1 DEF Idle
<1>8. /\ \A t \in Structs : (thread[t].state \in {"run", "call"} /\ thread[t].pdx) =>
             thread[t].parent \in Structs /\ thread[thread[t].parent].state = "call"
      /\ \A t, u \in Structs :
             (/\ thread[t].state \in {"run", "call"} /\ thread[t].pdx
              /\ thread[u].state \in {"run", "call"} /\ thread[u].pdx
              /\ thread[t].parent = thread[u].parent) => t = u
  BY SoundParts DEF ParentsWait
<1>9. \A t \in Structs : (thread'[t].state \in {"run", "call"} /\ thread'[t].pdx) =>
          /\ t # s /\ thread[t].state \in {"run", "call"} /\ thread[t].pdx
          /\ thread'[t].parent = thread[t].parent
  BY <1>3, <1>4, <1>6
<1>10. ASSUME NEW t \in Structs, thread'[t].state \in {"run", "call"}, thread'[t].pdx
       PROVE  /\ thread'[t].parent \in Structs
              /\ thread'[thread'[t].parent].state = "call" /\ thread'[t].parent # None
  <2>1. /\ t # s /\ thread[t].state \in {"run", "call"} /\ thread[t].pdx
        /\ thread'[t].parent = thread[t].parent
    BY <1>9, <1>10
  <2>2. thread[t].parent \in Structs /\ thread[thread[t].parent].state = "call"
    BY <1>8, <2>1
  <2>3. thread[t].parent # p
    BY <1>1, <1>8, <2>1 DEF p
  <2>4. th[thread[t].parent].state = "call" /\ thread[t].parent # s
    BY <1>1, <1>6, <2>2, <2>3
  <2>5. thread'[thread[t].parent].state = "call"
    BY <1>3, <2>2, <2>4
  <2> QED
    BY <2>1, <2>2, <2>5, PdxAssumption
<1>11. ASSUME NEW t \in Structs, NEW u \in Structs,
              thread'[t].state \in {"run", "call"}, thread'[t].pdx,
              thread'[u].state \in {"run", "call"}, thread'[u].pdx,
              thread'[t].parent = thread'[u].parent
       PROVE  t = u
  BY <1>8, <1>9, <1>11
<1>12. ParentsWait'
  BY <1>7, <1>10, <1>11 DEF ParentsWait
<1> QED
  BY <1>2, <1>12 DEF Rest, Frame

LEMMA ReapRest ==
    ASSUME Pre, NEW r \in Structs, NEW z \in Structs, Reap(r, z)
    PROVE  Rest' /\ GrantsRecent'
<1>1. Leaves(z, thread) /\ req = Idle /\ thread[z].state = "zombie"
      /\ UNCHANGED <<apd_table, table, pdx_cache, registered, req, apd_serial, now, lost>>
  BY ReapLeaves DEF Reap
<1>2. PdsUnused' /\ TableSound' /\ SerialsPast' /\ CallsSound' /\ GrantsRecent'
  BY <1>1, LeavesRest
<1>3. /\ \A t \in Structs : (thread'[t].state \in {"run", "call"} /\ thread'[t].pdx) =>
             t # z /\ thread'[t] = thread[t]
      /\ \A t \in Structs \ {z} : thread[t].state = "call" => thread'[t] = thread[t]
  BY <1>1, LeftFacts
<1>4. \A t \in Structs : thread[t].state = "call" => thread'[t] = thread[t]
  BY <1>1, <1>3
<1>5. ParentsWait'
  BY <1>1, <1>3, <1>4, SoundParts DEF ParentsWait
<1> QED
  BY <1>2, <1>5 DEF Rest, Frame

LEMMA RegisterRest ==
    ASSUME Pre, GrantsRecent, NEW p \in Procs, NEW l \in Clists \cup {None}, Register(p, l)
    PROVE  Rest' /\ GrantsRecent'
<1>1. /\ req = Idle /\ registered' = [registered EXCEPT ![p] = l]
      /\ pdx_cache' = IF registered[p] = None THEN pdx_cache ELSE Flushed
      /\ UNCHANGED <<live, apd, apd_table, table, thread, req, apd_serial, now, lost>>
  BY DEF Register
<1>2. req.step = "none" /\ req' = req
  BY <1>1 DEF Idle
<1>3. \A h \in Buckets : Flushed[h].src = None
  BY DEF Flushed, NoCall
<1>4. \A h \in Buckets : pdx_cache'[h].src # None =>
          registered[p] = None /\ pdx_cache'[h] = pdx_cache[h]
  BY <1>1, <1>3
<1>5. ParentsWait' /\ PdsUnused' /\ TableSound'
  BY <1>1, SoundParts DEF ParentsWait, PdsUnused, TableSound, Made
<1>6. SerialsPast'
  BY <1>1, <1>4, SoundParts DEF SerialsPast
<1>7. CacheSound'
  <2> SUFFICES ASSUME NEW h \in Buckets, NEW e, e = pdx_cache'[h], NEW t, t = table[e.pos],
                      e.src # None, t.apd # None, apd[t.apd].serial = e.serial
               PROVE  /\ t.timestamp <= e.verified /\ (t.clist = registered'[e.proc] \/ e.outlived)
                      /\ Names(e.pd, e.src, t.orig)
    BY <1>1 DEF CacheSound, Names
  <2>1. e = pdx_cache[h] /\ registered[p] = None
    BY <1>4
  <2>2. e.pos \in Positions /\ e.proc \in Procs \cup {None}
    BY <2>1, PreFacts DEF CachedCalls
  <2>3. /\ t.timestamp <= e.verified /\ (t.clist = registered[e.proc] \/ e.outlived)
        /\ Names(e.pd, e.src, t.orig)
    BY <2>1, SoundParts DEF CacheSound
  <2>4. t.clist \in Clists
    BY <2>2, SoundParts DEF TableSound, Made
  <2>5. e.proc # p \/ e.outlived
    BY <2>1, <2>3, <2>4, PdxAssumption
  <2> QED
    BY <1>1, <2>2, <2>3, <2>5, PreFacts
<1>8. CallerSound' /\ OrigSound' /\ ApdSound' /\ GrantsRecent'
  BY <1>1, <1>2 DEF CallerSound, OrigSound, ApdSound, FromDeleted, GrantsRecent
<1>9. LeftMarked'
  BY <1>1, SoundParts DEF LeftMarked
<1> QED
  BY <1>5, <1>6, <1>7, <1>8, <1>9 DEF Rest, Frame, CallsSound

LEMMA DeleteObjectRest ==
    ASSUME Pre, GrantsRecent, NEW p \in Procs, DeleteObject(p)
    PROVE  Rest' /\ GrantsRecent'
<1>1. /\ req = Idle /\ registered' = [registered EXCEPT ![p] = None]
      /\ pdx_cache' = Deleted(p)
      /\ UNCHANGED <<live, apd, apd_table, table, thread, req, apd_serial, now, lost>>
  BY DEF DeleteObject
<1>2. req.step = "none" /\ req' = req
  BY <1>1 DEF Idle
<1>3. \A h \in Buckets : /\ pdx_cache'[h].src = pdx_cache[h].src
                         /\ pdx_cache'[h].proc = pdx_cache[h].proc
                         /\ pdx_cache'[h].pd = pdx_cache[h].pd
                         /\ pdx_cache'[h].pos = pdx_cache[h].pos
                         /\ pdx_cache'[h].serial = pdx_cache[h].serial
                         /\ pdx_cache'[h].verified = pdx_cache[h].verified
                         /\ pdx_cache'[h].outlived =
                                (pdx_cache[h].proc = p \/ pdx_cache[h].outlived)
  <2> SUFFICES ASSUME NEW h \in Buckets
               PROVE  /\ pdx_cache'[h].src = pdx_cache[h].src
                      /\ pdx_cache'[h].proc = pdx_cache[h].proc
                      /\ pdx_cache'[h].pd = pdx_cache[h].pd
                      /\ pdx_cache'[h].pos = pdx_cache[h].pos
                      /\ pdx_cache'[h].serial = pdx_cache[h].serial
                      /\ pdx_cache'[h].verified = pdx_cache[h].verified
                      /\ pdx_cache'[h].outlived =
                             (pdx_cache[h].proc = p \/ pdx_cache[h].outlived)
    OBVIOUS
  <2>1. pdx_cache[h] \in CachedCalls
    BY PreFacts
  <2> QED
    BY <1>1, <2>1 DEF Deleted, CachedCalls
<1>4. ParentsWait' /\ PdsUnused' /\ TableSound'
  BY <1>1, SoundParts DEF ParentsWait, PdsUnused, TableSound, Made
<1>5. SerialsPast'
  BY <1>1, <1>3, SoundParts DEF SerialsPast
<1>6. CacheSound'
  <2> SUFFICES ASSUME NEW h \in Buckets, NEW e, e = pdx_cache[h], NEW t, t = table[e.pos],
                      e.src # None, t.apd # None, apd[t.apd].serial = e.serial
               PROVE  /\ t.timestamp <= e.verified
                      /\ t.clist = registered'[e.proc] \/ pdx_cache'[h].outlived
                      /\ Names(e.pd, e.src, t.orig)
    BY <1>1, <1>3 DEF CacheSound, Names
  <2>1. e.proc \in Procs \cup {None}
    BY PreFacts DEF CachedCalls
  <2>2. /\ t.timestamp <= e.verified /\ (t.clist = registered[e.proc] \/ e.outlived)
        /\ Names(e.pd, e.src, t.orig)
    BY SoundParts DEF CacheSound
  <2>3. CASE e.proc = p
    BY <1>3, <2>2, <2>3
  <2>4. CASE e.proc # p
    <3>1. registered'[e.proc] = registered[e.proc]
      BY <1>1, <2>1, <2>4, PreFacts
    <3>2. e.outlived => pdx_cache'[h].outlived
      BY <1>3
    <3> QED
      BY <2>2, <3>1, <3>2
  <2> QED
    BY <2>3, <2>4
<1>7. CallerSound' /\ OrigSound' /\ ApdSound' /\ GrantsRecent'
  BY <1>1, <1>2 DEF CallerSound, OrigSound, ApdSound, FromDeleted, GrantsRecent
<1>8. LeftMarked'
  BY <1>1, SoundParts DEF LeftMarked
<1> QED
  BY <1>4, <1>5, <1>6, <1>7, <1>8 DEF Rest, Frame, CallsSound

LEMMA TickRest ==
    ASSUME Pre, Tick
    PROVE  Rest' /\ GrantsRecent'
<1>1. /\ req = Idle /\ now' = now + 1
      /\ UNCHANGED <<live, apd, apd_table, table, pdx_cache, thread, registered, req,
                     apd_serial, lost>>
  BY DEF Tick
<1>2. req.step = "none" /\ req' = req
  BY <1>1 DEF Idle
<1>3. ParentsWait' /\ PdsUnused' /\ SerialsPast'
  BY <1>1, SoundParts DEF ParentsWait, PdsUnused, SerialsPast
<1>4. TableSound'
  <2>1. \A i \in Positions : table[i].timestamp <= now => table[i].timestamp <= now + 1
    <3> SUFFICES ASSUME NEW i \in Positions, table[i].timestamp <= now
                 PROVE  table[i].timestamp <= now + 1
      OBVIOUS
    <3>1. table[i].timestamp \in Nat /\ now \in Nat
      BY PreFacts, PdxAssumption DEF Entries
    <3> QED
      BY <3>1
  <2> QED
    BY <1>1, <2>1, SoundParts DEF TableSound, Made
<1>5. CacheSound'
  BY <1>1, SoundParts DEF CacheSound, Names
<1>6. CallerSound' /\ OrigSound' /\ ApdSound' /\ GrantsRecent'
  BY <1>1, <1>2 DEF CallerSound, OrigSound, ApdSound, FromDeleted, GrantsRecent
<1>7. LeftMarked'
  BY <1>1, SoundParts DEF LeftMarked
<1> QED
  BY <1>3, <1>4, <1>5, <1>6, <1>7 DEF Rest, Frame, CallsSound

-----------------------------------------------------------------------------
(* The inductive invariant *)

LEMMA InvInit == Init => IInv
<1> SUFFICES ASSUME Init PROVE IInv
  OBVIOUS
<1>1. TypeOK
  BY TypeInit
<1>2. /\ live = {Home} /\ Home \in Blocks /\ Root \in Structs /\ Child \in Structs
      /\ Root # Child /\ Root # None
  BY PdxAssumption DEF Init
<1>3. /\ apd[Home].users = 2 /\ apd[Home].extra = 0 /\ apd[Home].pool = None
      /\ apd[Home].clist = None
      /\ \A b \in Blocks : apd[b].serial = 0
  BY <1>2 DEF Init, Blank
<1>4. \A s \in Structs : /\ thread[s].home = Home
                         /\ thread[s].state = IF s \in {Root, Child} THEN "run" ELSE "unused"
  BY <1>2 DEF Init, Unused
<1>5. \A s \in Structs : ~thread[s].pdx
  BY <1>2 DEF Init, Unused
<1>6. \A a : Pooled(thread, a) = {}
  BY <1>4 DEF Pooled
<1>7. Users(thread, Home) = {Root, Child} /\ \A a : a # Home => Users(thread, a) = {}
  BY <1>2, <1>4 DEF Users
<1>8. Cardinality(Users(thread, Home)) = 2
  <2>1. IsFiniteSet({Root}) /\ Cardinality({Root}) = 1
    BY FS_Singleton
  <2>4. Child \notin {Root}
    BY <1>2
  <2>5. Cardinality({Root} \cup {Child}) =
            IF Child \in {Root} THEN Cardinality({Root}) ELSE Cardinality({Root}) + 1
    BY <2>1, FS_AddElement
  <2>2. Cardinality({Root} \cup {Child}) = 2
    BY <2>1, <2>4, <2>5
  <2>3. Users(thread, Home) = {Root} \cup {Child}
    BY <1>7
  <2> QED
    BY <2>2, <2>3
<1>9. HomesAlive /\ Counted
  BY <1>2, <1>3, <1>6, <1>7, <1>8 DEF HomesAlive, Counted
<1>10. PoolsSound
  BY <1>2, <1>3, <1>6 DEF PoolsSound, Exact, Holds
<1>11. ParentsWait
  BY <1>5 DEF ParentsWait
<1>12. /\ \A pd \in Pds : apd_table[pd] = None
       /\ \A i \in Positions : table[i].apd = None
       /\ \A h \in Buckets : pdx_cache[h].src = None
       /\ req = Idle /\ req.step = "none" /\ apd_serial = 1
  BY DEF Init, NoEntry, NoCall, Idle
<1>13. PdsUnused /\ TableSound /\ CacheSound
  BY <1>12 DEF PdsUnused, TableSound, CacheSound
<1>14. SerialsPast
  BY <1>3, <1>12 DEF SerialsPast
<1>15. CallerSound /\ OrigSound /\ ApdSound /\ GrantsRecent
  BY <1>12 DEF CallerSound, OrigSound, ApdSound, FromDeleted, GrantsRecent
<1>16. LeftMarked
  BY <1>2, <1>3 DEF LeftMarked
<1> QED
  BY <1>1, <1>9, <1>10, <1>11, <1>13, <1>14, <1>15, <1>16 DEF IInv, Sound

\* A step that does what each action was shown to do keeps the invariant.
LEMMA KeptSound ==
    ASSUME Kept, stop' = "no" => Rest', GrantsRecent'
    PROVE  IInv'
<1>1. ASSUME stop' = "no" PROVE Sound'
  <2>1. Uses' /\ Rest'
    BY <1>1 DEF Kept
  <2> QED
    BY <2>1 DEF Uses, Rest, Frame, CallsSound, Sound
<1> QED
  BY <1>1 DEF Kept, IInv

LEMMA SearchStep ==
    ASSUME Pre, SearchHits \/ SearchMisses \/ SearchCloses
    PROVE  IInv'
<1>1. CASE SearchHits
  BY <1>1, SearchHitsKept, SearchHitsRest, KeptSound
<1>2. CASE SearchMisses
  BY <1>2, SearchMissesKept, SearchMissesRest, KeptSound
<1>3. CASE SearchCloses
  <2>1. req'.step = "make"
    BY <1>3, PreFacts DEF SearchCloses, Requests
  <2>2. GrantsRecent'
    BY <2>1 DEF GrantsRecent
  <2> QED
    BY <1>3, <2>2, SearchClosesKept, SearchClosesRest, KeptSound
<1> QED
  BY <1>1, <1>2, <1>3

LEMMA MakeStep ==
    ASSUME Pre, Make \/ MakeFails \/ Insert \/ InsertFull \/ InsertFullHalts
    PROVE  IInv'
<1>1. CASE Make
  BY <1>1, MakeKept, MakeRest, KeptSound
<1>2. CASE MakeFails
  BY <1>2, MakeFailsKept, MakeFailsRest, KeptSound
<1>3. CASE Insert
  BY <1>3, InsertKept, InsertRest, KeptSound
<1>4. CASE InsertFull
  BY <1>4, InsertFullKept, InsertFullRest, KeptSound
<1>5. CASE InsertFullHalts
  <2>1. req'.step = "insert" /\ stop' = "assertion"
    BY <1>5 DEF InsertFullHalts
  <2>2. GrantsRecent'
    BY <2>1 DEF GrantsRecent
  <2> QED
    BY <1>5, <2>1, <2>2, InsertFullHaltsKept, KeptSound
<1> QED
  BY <1>1, <1>2, <1>3, <1>4, <1>5

LEMMA StartStep ==
    ASSUME Pre, StartPooled \/ StartNew \/ StartFails
    PROVE  IInv'
<1>1. CASE StartPooled
  <2>1. req'.step = "none"
    BY <1>1 DEF StartPooled, Idle
  <2>2. GrantsRecent'
    BY <2>1 DEF GrantsRecent
  <2> QED
    BY <1>1, <2>2, StartPooledKept, StartPooledRest, KeptSound
<1>2. CASE StartNew
  BY <1>2, StartNewKept, StartNewRest, KeptSound
<1>3. CASE StartFails
  BY <1>3, StartFailsKept, StartFailsRest, KeptSound
<1> QED
  BY <1>1, <1>2, <1>3

LEMMA InvNext == IInv /\ [Next]_vars => IInv'
<1> SUFFICES ASSUME IInv, [Next]_vars PROVE IInv'
  OBVIOUS
<1>1. CASE UNCHANGED vars
  <2>1. TypeOK'
    BY <1>1 DEF IInv, TypeOK, vars
  <2>2. GrantsRecent'
    BY <1>1 DEF IInv, GrantsRecent, vars
  <2>3. ASSUME stop = "no" PROVE Sound'
    <3>1. Sound
      BY <2>3 DEF IInv
    <3>2. (HomesAlive /\ Counted /\ PoolsSound)'
      BY <1>1, <3>1 DEF Sound, HomesAlive, Counted, PoolsSound, vars
    <3>3. (ParentsWait /\ PdsUnused /\ TableSound /\ SerialsPast)'
      BY <1>1, <3>1 DEF Sound, ParentsWait, PdsUnused, TableSound, SerialsPast, Made, vars
    <3>4. CacheSound'
      BY <1>1, <3>1 DEF Sound, CacheSound, Names, vars
    <3>5. (CallerSound /\ OrigSound /\ ApdSound /\ LeftMarked)'
      BY <1>1, <3>1 DEF Sound, CallerSound, OrigSound, ApdSound, FromDeleted, LeftMarked, Made, Names, vars
    <3> QED
      BY <3>2, <3>3, <3>4, <3>5 DEF Sound
  <2> QED
    BY <1>1, <2>1, <2>2, <2>3 DEF IInv, vars
<1>2. CASE Next
  <2>1. stop = "no"
    BY <1>2 DEF Next, Call, FindPd, SearchHits, SearchMisses, SearchCloses, Make, MakeFails,
                Insert, InsertFull, InsertFullHalts, StartPooled, StartNew, StartFails,
                Return, Exit, Kill, Reap, Register, DeleteObject, Tick
  <2>2. Pre /\ GrantsRecent
    BY <2>1 DEF IInv, Pre
  <2>3. ASSUME NEW c \in Structs, NEW p \in Procs, NEW pd \in PdArgs, Call(c, p, pd)
        PROVE  IInv'
    BY <2>2, <2>3, CallKept, CallRest, KeptSound
  <2>4. CASE FindPd
    BY <2>2, <2>4, FindPdKept, FindPdRest, KeptSound
  <2>5. CASE SearchHits \/ SearchMisses \/ SearchCloses
    BY <2>2, <2>5, SearchStep
  <2>6. CASE Make \/ MakeFails \/ Insert \/ InsertFull \/ InsertFullHalts
    BY <2>2, <2>6, MakeStep
  <2>7. CASE StartPooled \/ StartNew \/ StartFails
    BY <2>2, <2>7, StartStep
  <2>8. ASSUME NEW s \in Structs, Return(s) PROVE IInv'
    BY <2>2, <2>8, ReturnKept, ReturnRest, KeptSound
  <2>9. ASSUME NEW s \in Structs, Exit(s) PROVE IInv'
    BY <2>2, <2>9, ExitKept, ExitRest, KeptSound
  <2>10. ASSUME NEW s \in Structs, Kill(s) PROVE IInv'
    BY <2>2, <2>10, KillKept, KillRest, KeptSound
  <2>11. ASSUME NEW r \in Structs, NEW z \in Structs, Reap(r, z) PROVE IInv'
    BY <2>2, <2>11, ReapKept, ReapRest, KeptSound
  <2>12. ASSUME NEW p \in Procs, NEW l \in Clists \cup {None}, Register(p, l) PROVE IInv'
    BY <2>2, <2>12, RegisterKept, RegisterRest, KeptSound
  <2>13. CASE Tick
    BY <2>2, <2>13, TickKept, TickRest, KeptSound
  <2>14. ASSUME NEW p \in Procs, DeleteObject(p) PROVE IInv'
    BY <2>2, <2>14, DeleteObjectKept, DeleteObjectRest, KeptSound
  <2> QED
    BY <1>2, <2>3, <2>4, <2>5, <2>6, <2>7, <2>8, <2>9, <2>10, <2>11, <2>12, <2>13, <2>14
       DEF Next
<1> QED
  BY <1>1, <1>2

\* In every reachable state the use count of an APD is that of its threads and of the users
\* that nobody gives back, and both caches name what they were filled with.
THEOREM Invariant == Spec => []IInv
  BY InvInit, InvNext, PTL DEF Spec

\* Type correctness.
THEOREM TypeCorrect == Spec => []TypeOK
<1>1. IInv => TypeOK
  BY DEF IInv
<1> QED
  BY <1>1, Invariant, PTL

\* No PdxCall goes on from the PDX cache later than the timeout after its validation, or for
\* another procedure or PD, or for a caller's APD at another address: what pdxcache_lookup
\* and apd_pdx_cache_check_id promise, however buckets collide.  An APD allocated where a
\* freed one was passes for it.
THEOREM CachedGrantsRecent == Spec => []GrantsRecent
<1>1. IInv => GrantsRecent
  BY DEF IInv
<1> QED
  BY <1>1, Invariant, PTL

\* No APD is freed by apd_close or thread_release while a thread, the table or the PdxCall
\* in progress leads to it.
THEOREM NothingLeadsToFreed == Spec => []InUseAlive
<1>1. ASSUME IInv PROVE InUseAlive
  <2> SUFFICES ASSUME stop = "no"
               PROVE  /\ \A s \in Active : thread[s].home \in live
                      /\ \A i \in Positions : table[i].apd \in live \cup {None}
                      /\ {req.src, req.orig, req.apd} \subseteq live \cup {None}
    BY DEF InUseAlive
  <2>1. Pre
    BY <1>1 DEF IInv, Pre
  <2>2. \A s \in Active : thread[s].home \in live
    BY <2>1, HomeLive DEF Active
  <2>3. \A i \in Positions : table[i].apd \in live \cup {None}
    BY <2>1, SoundParts DEF TableSound, Made
  <2>4. CASE req = Idle
    BY <2>2, <2>3, <2>4 DEF Idle
  <2>5. CASE req.step # "none"
    <3>1. req.src \in live /\ req.pd \in PdArgs
      BY <2>1, <2>5, SoundParts DEF CallerSound
    <3>2. req.step \in Steps
      BY <2>1, PreFacts DEF Requests
    <3>3. req.orig = None \/ Names(req.pd, req.src, req.orig)
      BY <2>1, <2>5, <3>2, SoundParts DEF OrigSound, Steps
    <3>4. req.orig \in live \cup {None}
      BY <2>1, <3>1, <3>3, SoundParts DEF Names, PdArgs, PdsUnused
    <3>5. req.apd \in live \cup {None}
      BY <2>1, <2>5, <3>2, SoundParts DEF OrigSound, ApdSound, FromDeleted, Made, Steps
    <3> QED
      BY <2>2, <2>3, <3>1, <3>4, <3>5
  <2> QED
    BY <2>1, <2>4, <2>5, SoundParts DEF CallerSound
<1> QED
  BY <1>1, Invariant, PTL

\* An APD made for PdxCalls that has no users is in the table, or is gone, or was pushed out
\* of a full table: thread_release frees the ones that apd_close could only mark.
THEOREM NoneLeftBehind == Spec => []UnusedCached
<1>1. IInv => UnusedCached
  BY DEF IInv, Sound, LeftMarked, UnusedCached
<1> QED
  BY <1>1, Invariant, PTL

\* The APD that a PdxCall starts in was made from the domain that the call names and from
\* the Clist that is registered for the procedure, whichever cache it came from, unless the
\* call goes on by a validation from before the procedure's object was deleted, which
\* object_delete leaves in the PDX cache.
THEOREM DomainIsAsked == Spec => []DomainAsked
<1>1. IInv => DomainAsked
  BY DEF IInv, Sound, ApdSound, FromDeleted, Made, Names, DomainAsked
<1> QED
  BY <1>1, Invariant, PTL

=============================================================================
