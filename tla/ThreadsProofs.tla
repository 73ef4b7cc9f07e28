-------------------------- MODULE ThreadsProofs --------------------------
(***************************************************************************)
(* Proofs about Threads.  A structure has one place, a tid is given once,  *)
(* and the links between waiters and what they wait for, and between       *)
(* zombies and their parents, hold on both ends; what a queue holds of     *)
(* threads that others have reaped is told apart by the tid.               *)
(***************************************************************************)
EXTENDS Threads, TLAPS, FiniteSetTheorems, WellFoundedInduction

\* What waits in a queue.
Members(q) == {q[i].thread : i \in DOMAIN q}

Distinct(q) == \A i, j \in DOMAIN q : q[i].thread = q[j].thread => i = j

\* The same, with the tids they had when they were queued.
Entry(z) == <<z.thread, z.tid>>

Entries(q) == {Entry(q[i]) : i \in DOMAIN q}

SingleEntries(q) == \A i, j \in DOMAIN q : Entry(q[i]) = Entry(q[j]) => i = j

InUse(th, t) == th[t].state # "unused"

\* Structures in use have a tid and an L4 thread.  A tid is given once: the structure
\* that has the tid of a thread's creator is the thread's parent.
Names(th, n) ==
    \A t \in Threads :
        /\ InUse(th, t) => th[t].tid # NullTid /\ th[t].lthread # 0
        /\ ~InUse(th, t) => th[t].tid = NullTid /\ th[t].lthread = 0
        /\ th[t].tid < n /\ th[t].creator < n
        /\ InUse(th, t) => th[t].creator < th[t].tid
        /\ \A u \in Threads : InUse(th, u) =>
              /\ th[t].tid = th[u].tid => t = u
              /\ th[t].creator = th[u].tid => th[t].parent = u

\* A structure in use is in the table or in the pool of its APD, in one place.
Placed(th, h, p) ==
    /\ \A t \in Threads : InUse(th, t) <=> t \in h \/ t \in Elements(p[th[t].apd])
    /\ \A a \in Apds :
          /\ \A i \in DOMAIN p[a] : p[a][i] \notin h /\ th[p[a][i]].apd = a
          /\ \A i, j \in DOMAIN p[a] : p[a][i] = p[a][j] => i = j

Residents(th, h, a) == {t \in h : th[t].apd = a}

Counted(th, h, n) == \A a \in Apds : n[a] = Cardinality(Residents(th, h, a))

\* A L4 thread knows a structure that has it; if it runs or waits for a PDX procedure,
\* the structure serves a thread that does not wait. So does the one mpager handles a fault
\* of, as long as its L4 thread is in the fault.
L4s(th, h, s, ls, f) ==
    /\ \A i \in L4Ids : s[i] # None => <<th[s[i]].apd, th[s[i]].lthread>> = i
    /\ \A i \in L4Ids : s[i] # None /\ ls[i] \in {"run", "pdx"} =>
          s[i] \in h /\ th[s[i]].state = "ok"
    /\ \A i \in L4Ids : f # None /\ <<th[f].apd, th[f].lthread>> = i /\ ls[i] = "fault" =>
          s[i] = f /\ f \in h /\ th[f].state = "ok"

\* mpager knows structures that have a L4 thread.
FaultKnown(th, f) == f # None => f \in Threads /\ InUse(th, f)

Alive(th, t) == th[t].state \in {"ok", "waiting"}

\* Thread w is in the queue of the thread it asked for, which lives.
Known(th, h, w) ==
    LET t == th[w].waiting
    IN  t \in h /\ Alive(th, t) /\ th[t].tid = th[w].asked /\ w \in Members(th[t].waiters)

\* A thread that waits is known, or waits for a PDX procedure that has returned; who is
\* in the queue of a thread waits for it.
Waiting(th, h, rt) ==
    /\ \A w \in h :
          IF th[w].state # "waiting" THEN th[w].waiting = None
          ELSE th[w].waiting \in Threads /\ (th[w].asked \in rt \/ Known(th, h, w))
    /\ \A t \in Threads : Distinct(th[t].waiters)
    /\ \A t \in h : \A w \in Members(th[t].waiters) :
          w \in h /\ th[w].waiting = t /\ th[w].asked = th[t].tid

\* The PDX procedures that have returned: no thread has their tids.
Gone(th, h, n, rt) ==
    /\ \A t \in h : th[t].tid \notin rt
    /\ \A x \in rt : x < n

\* Who is in a queue of zombies, with the tid it was queued with, is a zombie of that
\* parent.  A zombie, with its exit status, is in that queue if its creator is there.
Zombies(th, h, n) ==
    /\ \A p \in h :
          /\ SingleEntries(th[p].zombies)
          /\ \A t \in Threads : \A x \in Tids : <<t, x>> \in Entries(th[p].zombies) =>
                /\ x < n
                /\ t \in h /\ th[t].tid = x => th[t].state = "zombie" /\ th[t].parent = p
    /\ \A t \in h : th[t].state = "zombie" => th[t].lasterror \in {0, th[t].tid}
    /\ \A t \in h :
          LET p == th[t].parent
          IN  th[t].state = "zombie" /\ p \in h /\ th[p].tid = th[t].creator =>
                  <<t, th[t].tid>> \in Entries(th[p].zombies)

Kept ==
    /\ Names(thread, next_tid)
    /\ Placed(thread, hash, pool) /\ Counted(thread, hash, users)
    /\ L4s(thread, hash, slot, l4, fault) /\ FaultKnown(thread, fault)
    /\ Waiting(thread, hash, returned) /\ Gone(thread, hash, next_tid, returned)
    /\ Zombies(thread, hash, next_tid)

IInv == TypeOK /\ AnswersTrue /\ (stop = "no" => Kept)

Structs == [Threads -> Structures]

-----------------------------------------------------------------------------
(* Queues *)

\* The blocks that stay, and where they were.
LEMMA UnlinkedBlocks ==
    ASSUME NEW q \in Seq(QueueItems), NEW i \in DOMAIN q
    PROVE  LET r == Unlinked(q, i)
               k(j) == IF j < i THEN j ELSE j + 1
           IN  /\ r \in Seq(QueueItems)
               /\ \A j \in DOMAIN r : /\ k(j) \in DOMAIN q \ {i}
                                      /\ r[j].thread = q[k(j)].thread
                                      /\ r[j].tid = q[k(j)].tid
               /\ \A j, l \in DOMAIN r : k(j) = k(l) => j = l
               /\ \A m \in DOMAIN q \ {i} : \E j \in DOMAIN r : k(j) = m
<1> DEFINE r == Unlinked(q, i)
           k(j) == IF j < i THEN j ELSE j + 1
<1>1. Len(q) \in Nat /\ DOMAIN q = 1 .. Len(q) /\ i \in 1 .. Len(q)
      /\ \A j \in 1 .. Len(q) : q[j] \in QueueItems
  OBVIOUS
<1>2. \A j \in 1 .. Len(q) - 1 : k(j) \in 1 .. Len(q) /\ k(j) # i
  BY <1>1
<1>3. \A j \in 1 .. Len(q) - 1 :
         r[j] \in QueueItems /\ r[j].thread = q[k(j)].thread /\ r[j].tid = q[k(j)].tid
  <2> SUFFICES ASSUME NEW j \in 1 .. Len(q) - 1
               PROVE  /\ r[j] \in QueueItems
                      /\ r[j].thread = q[k(j)].thread /\ r[j].tid = q[k(j)].tid
    OBVIOUS
  <2>1. CASE j < i
    BY <1>1, <1>2, <2>1 DEF Unlinked
  <2>2. CASE ~(j < i)
    <3>1. r[j] = [q[j + 1] EXCEPT !.stale = @ \/ j = i]
      BY <2>2 DEF Unlinked
    <3>2. q[j + 1] \in [thread : Threads, tid : Tids, stale : BOOLEAN]
      BY <1>1 DEF QueueItems
    <3>3. (q[j + 1].stale \/ j = i) \in BOOLEAN
      OBVIOUS
    <3>4. r[j] \in QueueItems /\ r[j].thread = q[j + 1].thread /\ r[j].tid = q[j + 1].tid
      BY <3>1, <3>2, <3>3 DEF QueueItems
    <3> QED
      BY <2>2, <3>4
  <2> QED
    BY <2>1, <2>2
<1>4. DOMAIN r = 1 .. Len(q) - 1
  BY DEF Unlinked
<1>5. r \in Seq(QueueItems)
  <2>1. r \in [1 .. Len(q) - 1 -> QueueItems]
    BY <1>3, <1>4 DEF Unlinked
  <2>2. CASE Len(q) - 1 \in Nat
    BY <2>1, <2>2
  <2>3. Len(q) - 1 \in Nat
    BY <1>1
  <2> QED
    BY <2>2, <2>3
<1> HIDE DEF r
<1>6. \A j, l \in DOMAIN r : k(j) = k(l) => j = l
  BY <1>1, <1>4
<1>7. \A m \in DOMAIN q \ {i} : \E j \in DOMAIN r : k(j) = m
  <2> SUFFICES ASSUME NEW m \in DOMAIN q \ {i} PROVE \E j \in DOMAIN r : k(j) = m
    OBVIOUS
  <2>1. CASE m < i
    BY <1>1, <1>4, <2>1
  <2>2. CASE m > i
    <3>1. m - 1 \in DOMAIN r /\ k(m - 1) = m
      BY <1>1, <1>4, <2>2
    <3> QED
      BY <3>1
  <2> QED
    BY <1>1, <2>1, <2>2
<1> QED
  BY <1>1, <1>2, <1>3, <1>4, <1>5, <1>6, <1>7 DEF r

LEMMA UnlinkedFacts ==
    ASSUME NEW q \in Seq(QueueItems), Distinct(q), NEW i \in DOMAIN q
    PROVE  /\ Unlinked(q, i) \in Seq(QueueItems)
           /\ Distinct(Unlinked(q, i))
           /\ Members(Unlinked(q, i)) = Members(q) \ {q[i].thread}
<1> DEFINE r == Unlinked(q, i)
           k(j) == IF j < i THEN j ELSE j + 1
<1>1. /\ r \in Seq(QueueItems)
      /\ \A j \in DOMAIN r : k(j) \in DOMAIN q \ {i} /\ r[j].thread = q[k(j)].thread
      /\ \A j, l \in DOMAIN r : k(j) = k(l) => j = l
      /\ \A m \in DOMAIN q \ {i} : \E j \in DOMAIN r : k(j) = m
  BY UnlinkedBlocks
<1> HIDE DEF r, k
<1>2. Distinct(r)
  BY <1>1 DEF Distinct
<1>3. Members(r) \subseteq Members(q) \ {q[i].thread}
  BY <1>1 DEF Distinct, Members
<1>4. ASSUME NEW m \in DOMAIN q \ {i} PROVE q[m].thread \in Members(r)
  BY <1>1 DEF Members
<1>5. Members(q) \ {q[i].thread} \subseteq Members(r)
  BY <1>4 DEF Members
<1> QED
  BY <1>1, <1>2, <1>3, <1>5 DEF r

LEMMA UnlinkedEntries ==
    ASSUME NEW q \in Seq(QueueItems), SingleEntries(q), NEW i \in DOMAIN q
    PROVE  /\ Unlinked(q, i) \in Seq(QueueItems)
           /\ SingleEntries(Unlinked(q, i))
           /\ Entries(Unlinked(q, i)) = Entries(q) \ {Entry(q[i])}
<1> DEFINE r == Unlinked(q, i)
           k(j) == IF j < i THEN j ELSE j + 1
<1>1. /\ r \in Seq(QueueItems)
      /\ \A j \in DOMAIN r : k(j) \in DOMAIN q \ {i} /\ Entry(r[j]) = Entry(q[k(j)])
      /\ \A j, l \in DOMAIN r : k(j) = k(l) => j = l
      /\ \A m \in DOMAIN q \ {i} : \E j \in DOMAIN r : k(j) = m
  BY UnlinkedBlocks DEF Entry
<1> HIDE DEF r, k
<1>2. SingleEntries(r)
  BY <1>1 DEF SingleEntries
<1>3. Entries(r) \subseteq Entries(q) \ {Entry(q[i])}
  BY <1>1 DEF SingleEntries, Entries
<1>4. ASSUME NEW m \in DOMAIN q \ {i} PROVE Entry(q[m]) \in Entries(r)
  BY <1>1 DEF Entries
<1>5. Entries(q) \ {Entry(q[i])} \subseteq Entries(r)
  BY <1>4 DEF Entries
<1> QED
  BY <1>1, <1>2, <1>3, <1>5 DEF r

\* waitq_cancel takes the thread out.
LEMMA CancelledOnce ==
    ASSUME NEW q \in Seq(QueueItems), NEW t, NEW i \in DOMAIN q, Positions(q, t) = {i}
    PROVE  q[i].thread = t /\ Cancelled(q, t) = Unlinked(q, i)
<1>1. i \in Positions(q, t)
  OBVIOUS
<1>2. Min({i}) = i
  BY DEF Min
<1> QED
  BY <1>1, <1>2 DEF Cancelled, Positions

LEMMA CancelledFacts ==
    ASSUME NEW q \in Seq(QueueItems), Distinct(q), NEW t \in Threads
    PROVE  /\ Cancelled(q, t) \in Seq(QueueItems)
           /\ Distinct(Cancelled(q, t))
           /\ Members(Cancelled(q, t)) = Members(q) \ {t}
<1>1. CASE Positions(q, t) = {}
  BY <1>1 DEF Cancelled, Positions, Members
<1>2. CASE Positions(q, t) # {}
  <2>1. PICK i \in DOMAIN q : Positions(q, t) = {i}
    BY <1>2 DEF Positions, Distinct
  <2>2. q[i].thread = t /\ Cancelled(q, t) = Unlinked(q, i)
    BY <2>1, CancelledOnce
  <2>3. /\ Unlinked(q, i) \in Seq(QueueItems)
        /\ Distinct(Unlinked(q, i))
        /\ Members(Unlinked(q, i)) = Members(q) \ {q[i].thread}
    BY UnlinkedFacts
  <2> QED
    BY <2>2, <2>3
<1> QED
  BY <1>1, <1>2

\* A thread that is in the queue at most once leaves it, the others stay.
LEMMA CancelledEntries ==
    ASSUME NEW q \in Seq(QueueItems), SingleEntries(q), NEW t \in Threads,
           Cardinality(Positions(q, t)) <= 1
    PROVE  /\ Cancelled(q, t) \in Seq(QueueItems)
           /\ SingleEntries(Cancelled(q, t))
           /\ Entries(Cancelled(q, t)) \subseteq Entries(q)
           /\ \A u \in Threads \ {t} : \A x \in Tids :
                 <<u, x>> \in Entries(q) => <<u, x>> \in Entries(Cancelled(q, t))
<1>1. CASE Positions(q, t) = {}
  BY <1>1 DEF Cancelled
<1>2. CASE Positions(q, t) # {}
  <2>1. PICK i \in Positions(q, t) : TRUE
    BY <1>2
  <2>2. IsFiniteSet(Positions(q, t))
    <3>1. IsFiniteSet(1 .. Len(q)) /\ DOMAIN q = 1 .. Len(q)
      BY FS_Interval
    <3>2. Positions(q, t) \subseteq 1 .. Len(q)
      BY <3>1 DEF Positions
    <3> QED
      BY <3>1, <3>2, FS_Subset
  <2>3. Positions(q, t) = {i}
    <3>1. ASSUME NEW j \in Positions(q, t) \ {i} PROVE FALSE
      <4> DEFINE T == {i} \cup {j}
      <4>1. T \subseteq Positions(q, t)
        BY <2>1, <3>1
      <4>2. IsFiniteSet({i}) /\ Cardinality({i}) = 1
        BY FS_Singleton
      <4>3. Cardinality(T) = Cardinality({i}) + 1
        BY <3>1, <4>2, FS_AddElement
      <4>4. Cardinality(T) <= Cardinality(Positions(q, t))
        BY <2>2, <4>1, FS_Subset
      <4>5. Cardinality(Positions(q, t)) \in Nat
        BY <2>2, FS_CardinalityType
      <4> HIDE DEF T
      <4> QED
        BY <4>2, <4>3, <4>4, <4>5
    <3> QED
      BY <2>1, <3>1
  <2>4. i \in DOMAIN q
    BY <2>1 DEF Positions
  <2>5. q[i].thread = t /\ Cancelled(q, t) = Unlinked(q, i)
    BY <2>3, <2>4, CancelledOnce
  <2>6. \A u \in Threads \ {t} : \A x \in Tids : <<u, x>> # Entry(q[i])
    BY <2>5 DEF Entry
  <2> QED
    BY <2>4, <2>5, <2>6, UnlinkedEntries
<1> QED
  BY <1>1, <1>2

\* waitq_add.
LEMMA AppendBlocks ==
    ASSUME NEW q \in Seq(QueueItems), NEW t \in Threads, NEW n \in Tids
    PROVE  LET r == Append(q, Item(t, n))
           IN  /\ r \in Seq(QueueItems) /\ DOMAIN r = DOMAIN q \cup {Len(q) + 1}
               /\ Len(q) + 1 \notin DOMAIN q
               /\ \A i \in DOMAIN q : r[i] = q[i]
               /\ r[Len(q) + 1].thread = t /\ Entry(r[Len(q) + 1]) = <<t, n>>
<1>1. Item(t, n) \in QueueItems /\ Item(t, n).thread = t /\ Item(t, n).tid = n
  BY DEF Item, QueueItems
<1> DEFINE r == Append(q, Item(t, n))
<1>2. /\ r \in Seq(QueueItems) /\ DOMAIN r = 1 .. Len(q) + 1 /\ DOMAIN q = 1 .. Len(q)
      /\ Len(q) \in Nat
      /\ \A i \in 1 .. Len(q) : r[i] = q[i]
      /\ r[Len(q) + 1] = Item(t, n)
  BY <1>1
<1> HIDE DEF r
<1>3. DOMAIN r = DOMAIN q \cup {Len(q) + 1} /\ Len(q) + 1 \notin DOMAIN q
  BY <1>2
<1> QED
  BY <1>1, <1>2, <1>3 DEF r, Entry

LEMMA AppendFacts ==
    ASSUME NEW q \in Seq(QueueItems), Distinct(q), NEW t \in Threads, t \notin Members(q),
           NEW n \in Tids
    PROVE  /\ Append(q, Item(t, n)) \in Seq(QueueItems)
           /\ Distinct(Append(q, Item(t, n)))
           /\ Members(Append(q, Item(t, n))) = Members(q) \cup {t}
<1> DEFINE r == Append(q, Item(t, n))
<1>1. /\ r \in Seq(QueueItems) /\ DOMAIN r = DOMAIN q \cup {Len(q) + 1}
      /\ \A i \in DOMAIN q : r[i] = q[i]
      /\ r[Len(q) + 1].thread = t
  BY AppendBlocks
<1> HIDE DEF r
<1>2. Distinct(r) /\ Members(r) = Members(q) \cup {t}
  BY <1>1 DEF Distinct, Members
<1> QED
  BY <1>1, <1>2 DEF r

LEMMA AppendEntries ==
    ASSUME NEW q \in Seq(QueueItems), SingleEntries(q), NEW t \in Threads, NEW n \in Tids,
           <<t, n>> \notin Entries(q)
    PROVE  /\ Append(q, Item(t, n)) \in Seq(QueueItems)
           /\ SingleEntries(Append(q, Item(t, n)))
           /\ Entries(Append(q, Item(t, n))) = Entries(q) \cup {<<t, n>>}
<1> DEFINE r == Append(q, Item(t, n))
<1>1. /\ r \in Seq(QueueItems) /\ DOMAIN r = DOMAIN q \cup {Len(q) + 1}
      /\ \A i \in DOMAIN q : r[i] = q[i]
      /\ Entry(r[Len(q) + 1]) = <<t, n>>
  BY AppendBlocks
<1> HIDE DEF r
<1>2. SingleEntries(r) /\ Entries(r) = Entries(q) \cup {<<t, n>>}
  BY <1>1 DEF SingleEntries, Entries
<1> QED
  BY <1>1, <1>2 DEF r

\* A thread is once in a queue that it is in.
LEMMA OnceFacts ==
    ASSUME NEW q, Distinct(q), NEW t, t \in Members(q)
    PROVE  Cardinality(Positions(q, t)) = 1
<1>1. PICK i \in DOMAIN q : Positions(q, t) = {i}
  BY DEF Positions, Distinct, Members
<1> QED
  BY <1>1, FS_Singleton

LEMMA EmptyQueue ==
    /\ <<>> \in Seq(QueueItems) /\ Distinct(<<>>) /\ Members(<<>>) = {}
    /\ SingleEntries(<<>>) /\ Entries(<<>>) = {}
  BY DEF Distinct, Members, SingleEntries, Entries

-----------------------------------------------------------------------------
(* Places and names *)

\* What only the start of a thread changes.
SameNames(th, th2) ==
    \A t \in Threads :
        /\ th2[t].tid = th[t].tid /\ th2[t].creator = th[t].creator
        /\ th2[t].parent = th[t].parent /\ th2[t].pdx = th[t].pdx
        /\ th2[t].apd = th[t].apd /\ th2[t].lthread = th[t].lthread
        /\ InUse(th2, t) <=> InUse(th, t)

LEMMA NamesKept ==
    ASSUME NEW th, NEW th2, NEW n, SameNames(th, th2), Names(th, n)
    PROVE  Names(th2, n)
  BY DEF SameNames, Names

LEMMA KnownKept ==
    ASSUME NEW th, NEW th2, NEW f, SameNames(th, th2), FaultKnown(th, f)
    PROVE  FaultKnown(th2, f)
  BY DEF SameNames, FaultKnown

LEMMA GoneKept ==
    ASSUME NEW th, NEW th2, NEW h \in SUBSET Threads, NEW g, g \subseteq h, NEW n, NEW rt,
           SameNames(th, th2), Gone(th, h, n, rt)
    PROVE  Gone(th2, g, n, rt)
  BY DEF SameNames, Gone

LEMMA PlacedKept ==
    ASSUME NEW th, NEW th2, NEW h \in SUBSET Threads, NEW p \in [Apds -> Seq(Threads)],
           SameNames(th, th2), Placed(th, h, p)
    PROVE  Placed(th2, h, p)
<1>1. \A a \in Apds : \A i \in DOMAIN p[a] : p[a][i] \in Threads
  OBVIOUS
<1>2. \A t \in Threads : InUse(th2, t) <=> t \in h \/ t \in Elements(p[th2[t].apd])
  BY DEF SameNames, Placed
<1> QED
  BY <1>1, <1>2 DEF SameNames, Placed

LEMMA CountedKept ==
    ASSUME NEW th, NEW th2, NEW h \in SUBSET Threads, NEW n,
           SameNames(th, th2), Counted(th, h, n)
    PROVE  Counted(th2, h, n)
<1>1. \A a \in Apds : Residents(th2, h, a) = Residents(th, h, a)
  BY DEF SameNames, Residents
<1> QED
  BY <1>1 DEF Counted

\* Residents are few enough to be counted.
LEMMA ResidentsFinite ==
    ASSUME NEW th, NEW h \in SUBSET Threads, NEW a
    PROVE  /\ IsFiniteSet(Residents(th, h, a))
           /\ Cardinality(Residents(th, h, a)) \in 0 .. Cardinality(Threads)
<1>1. Residents(th, h, a) \in SUBSET Threads
  BY DEF Residents
<1>2. IsFiniteSet(Threads)
  BY ThreadsAssumption
<1>3. IsFiniteSet(Residents(th, h, a))
      /\ Cardinality(Residents(th, h, a)) <= Cardinality(Threads)
  BY <1>1, <1>2, FS_Subset
<1>4. Cardinality(Residents(th, h, a)) \in Nat /\ Cardinality(Threads) \in Nat
  BY <1>2, <1>3, FS_CardinalityType
<1> QED
  BY <1>3, <1>4

\* One thread leaves the table.
LEMMA CountedLess ==
    ASSUME NEW th, NEW h \in SUBSET Threads, NEW n, NEW t \in h, th[t].apd \in Apds,
           Counted(th, h, n),
           n \in [Apds -> 0 .. Cardinality(Threads)]
    PROVE  LET n2 == [n EXCEPT ![th[t].apd] = @ - 1]
           IN  Counted(th, h \ {t}, n2) /\ n2 \in [Apds -> 0 .. Cardinality(Threads)]
<1> DEFINE n2 == [n EXCEPT ![th[t].apd] = @ - 1]
<1>1. Counted(th, h \ {t}, n2)
  <2> SUFFICES ASSUME NEW a \in Apds
               PROVE  n2[a] = Cardinality(Residents(th, h \ {t}, a))
    BY DEF Counted
  <2>1. CASE a = th[t].apd
    <3>1. Residents(th, h \ {t}, a) = Residents(th, h, a) \ {t} /\ t \in Residents(th, h, a)
      BY <2>1 DEF Residents
    <3>2. Cardinality(Residents(th, h, a) \ {t}) = Cardinality(Residents(th, h, a)) - 1
      BY <3>1, ResidentsFinite, FS_RemoveElement
    <3> QED
      BY <2>1, <3>1, <3>2 DEF Counted
  <2>2. CASE a # th[t].apd
    <3>1. Residents(th, h \ {t}, a) = Residents(th, h, a)
      BY <2>2 DEF Residents
    <3> QED
      BY <2>2, <3>1 DEF Counted
  <2> QED
    BY <2>1, <2>2
<1>2. DOMAIN n2 = Apds
  OBVIOUS
<1>3. \A a \in Apds : n2[a] \in 0 .. Cardinality(Threads)
  BY <1>1, ResidentsFinite DEF Counted
<1>4. n2 = [a \in Apds |-> n2[a]]
  OBVIOUS
<1> QED
  BY <1>1, <1>3, <1>4

SameApds(th, th2, h) == \A u \in h : th2[u].apd = th[u].apd

\* One thread enters it.
LEMMA CountedMore ==
    ASSUME NEW th, NEW th2, NEW h \in SUBSET Threads, NEW n,
           NEW t \in Threads \ h, NEW a \in Apds, th2[t].apd = a,
           SameApds(th, th2, h),
           Counted(th, h, n),
           n \in [Apds -> 0 .. Cardinality(Threads)]
    PROVE  LET n2 == [n EXCEPT ![a] = @ + 1]
           IN  Counted(th2, h \cup {t}, n2) /\ n2 \in [Apds -> 0 .. Cardinality(Threads)]
<1> DEFINE n2 == [n EXCEPT ![a] = @ + 1]
<1>1. Counted(th2, h \cup {t}, n2)
  <2> SUFFICES ASSUME NEW b \in Apds
               PROVE  n2[b] = Cardinality(Residents(th2, h \cup {t}, b))
    BY DEF Counted
  <2>1. CASE b = a
    <3>1. Residents(th2, h \cup {t}, b) = Residents(th, h, b) \cup {t}
          /\ t \notin Residents(th, h, b)
      BY <2>1 DEF Residents, SameApds
    <3>2. Cardinality(Residents(th, h, b) \cup {t}) = Cardinality(Residents(th, h, b)) + 1
      BY <3>1, ResidentsFinite, FS_AddElement
    <3> QED
      BY <2>1, <3>1, <3>2 DEF Counted
  <2>2. CASE b # a
    <3>1. Residents(th2, h \cup {t}, b) = Residents(th, h, b)
      BY <2>2 DEF Residents, SameApds
    <3> QED
      BY <2>2, <3>1 DEF Counted
  <2> QED
    BY <2>1, <2>2
<1>2. h \cup {t} \in SUBSET Threads
  OBVIOUS
<1>3. \A b \in Apds : n2[b] \in 0 .. Cardinality(Threads)
  BY <1>1, <1>2, ResidentsFinite DEF Counted
<1>4. n2 = [b \in Apds |-> n2[b]]
  OBVIOUS
<1> QED
  BY <1>1, <1>3, <1>4

\* A structure joins a sequence at the front.
LEMMA PushFacts ==
    ASSUME NEW q \in Seq(Threads), NEW t \in Threads
    PROVE  /\ <<t>> \o q \in Seq(Threads)
           /\ Elements(<<t>> \o q) = Elements(q) \cup {t}
           /\ (\A i, j \in DOMAIN q : q[i] = q[j] => i = j) /\ t \notin Elements(q) =>
                 \A i, j \in DOMAIN (<<t>> \o q) : (<<t>> \o q)[i] = (<<t>> \o q)[j] => i = j
<1> DEFINE r == <<t>> \o q
<1>1. /\ r \in Seq(Threads) /\ DOMAIN r = 1 .. Len(q) + 1 /\ DOMAIN q = 1 .. Len(q)
      /\ Len(q) \in Nat /\ r[1] = t
      /\ \A i \in 2 .. Len(q) + 1 : r[i] = q[i - 1]
  OBVIOUS
<1> HIDE DEF r
<1>2. Elements(r) = Elements(q) \cup {t}
  <2>1. \A i \in DOMAIN r : r[i] \in Elements(q) \cup {t}
    <3> SUFFICES ASSUME NEW i \in DOMAIN r PROVE r[i] \in Elements(q) \cup {t}
      OBVIOUS
    <3>1. i = 1 \/ (i \in 2 .. Len(q) + 1 /\ i - 1 \in DOMAIN q)
      BY <1>1
    <3> QED
      BY <1>1, <3>1 DEF Elements
  <2>2. \A i \in DOMAIN q : i + 1 \in DOMAIN r /\ r[i + 1] = q[i]
    BY <1>1
  <2>3. 1 \in DOMAIN r
    BY <1>1
  <2> QED
    BY <1>1, <2>1, <2>2, <2>3 DEF Elements
<1>3. ASSUME \A i, j \in DOMAIN q : q[i] = q[j] => i = j, t \notin Elements(q),
             NEW i \in DOMAIN r, NEW j \in DOMAIN r, r[i] = r[j]
      PROVE  i = j
  <2>1. \A k \in DOMAIN r : k = 1 \/ (k - 1 \in DOMAIN q /\ r[k] = q[k - 1] /\ k \in Nat)
    BY <1>1
  <2>2. \A k \in DOMAIN q : q[k] # t
    BY <1>3 DEF Elements
  <2>3. CASE i = 1 \/ j = 1
    BY <1>1, <1>3, <2>1, <2>2, <2>3
  <2>4. CASE i # 1 /\ j # 1
    <3>1. i - 1 = j - 1 /\ i \in Nat /\ j \in Nat
      BY <1>3, <2>1, <2>4
    <3> QED
      BY <3>1
  <2> QED
    BY <2>3, <2>4
<1> QED
  BY <1>1, <1>2, <1>3 DEF r

\* thread_release puts the structure into the pool.
LEMMA PlacedReleased ==
    ASSUME NEW th \in Structs, NEW h \in SUBSET Threads, NEW p \in [Apds -> Seq(Threads)],
           Placed(th, h, p), NEW t \in h
    PROVE  LET p2 == [p EXCEPT ![th[t].apd] = <<t>> \o @]
           IN  Placed(th, h \ {t}, p2) /\ p2 \in [Apds -> Seq(Threads)]
<1> DEFINE a == th[t].apd
           p2 == [p EXCEPT ![th[t].apd] = <<t>> \o @]
<1>1. a \in Apds /\ t \in Threads
  BY DEF Structs, Structures
<1>2. p[a] \in Seq(Threads) /\ t \notin Elements(p[a])
  BY <1>1 DEF Placed, Elements
<1>3. /\ p2[a] \in Seq(Threads)
      /\ Elements(p2[a]) = Elements(p[a]) \cup {t}
      /\ \A i, j \in DOMAIN p2[a] : p2[a][i] = p2[a][j] => i = j
  <2>1. p2[a] = <<t>> \o p[a]
    BY <1>1
  <2>2. \A i, j \in DOMAIN p[a] : p[a][i] = p[a][j] => i = j
    BY <1>1 DEF Placed
  <2> QED
    BY <1>1, <1>2, <2>1, <2>2, PushFacts
<1>4. \A b \in Apds : b # a => p2[b] = p[b]
  OBVIOUS
<1>5. p2 \in [Apds -> Seq(Threads)]
  <2>1. <<t>> \o p[a] \in Seq(Threads)
    BY <1>1, <1>2, PushFacts
  <2> QED
    BY <2>1
<1> HIDE DEF a
<1>6. th[t].apd = a
  BY DEF a
<1>7. \A u \in Threads : InUse(th, u) <=> u \in h \ {t} \/ u \in Elements(p2[th[u].apd])
  <2> SUFFICES ASSUME NEW u \in Threads
               PROVE  InUse(th, u) <=> u \in h \ {t} \/ u \in Elements(p2[th[u].apd])
    OBVIOUS
  <2>1. th[u].apd \in Apds
    BY DEF Structs, Structures
  <2>2. InUse(th, u) <=> u \in h \/ u \in Elements(p[th[u].apd])
    BY DEF Placed
  <2>3. CASE th[u].apd = a
    BY <1>3, <1>6, <2>2, <2>3
  <2>4. CASE th[u].apd # a
    BY <1>4, <1>6, <2>1, <2>2, <2>4
  <2> QED
    BY <2>3, <2>4
<1>8. \A b \in Apds : \A i \in DOMAIN p2[b] : p2[b][i] \notin h \ {t} /\ th[p2[b][i]].apd = b
  <2> SUFFICES ASSUME NEW b \in Apds, NEW i \in DOMAIN p2[b]
               PROVE  p2[b][i] \notin h \ {t} /\ th[p2[b][i]].apd = b
    OBVIOUS
  <2>1. CASE b = a
    <3>1. p2[a][i] \in Elements(p[a]) \cup {t}
      BY <1>3, <2>1 DEF Elements
    <3>2. \A u \in Elements(p[a]) : u \notin h /\ th[u].apd = a
      BY <1>1 DEF Placed, Elements
    <3> QED
      BY <1>6, <2>1, <3>1, <3>2
  <2>2. CASE b # a
    BY <1>4, <2>2 DEF Placed
  <2> QED
    BY <2>1, <2>2
<1>9. \A b \in Apds : \A i, j \in DOMAIN p2[b] : p2[b][i] = p2[b][j] => i = j
  BY <1>3, <1>4 DEF Placed
<1> QED
  BY <1>5, <1>7, <1>8, <1>9 DEF Placed
-----------------------------------------------------------------------------
(* The start of a thread *)

LEMMA CallerFacts ==
    ASSUME TypeOK, Kept, NEW c \in Threads, Calls(c)
    PROVE  /\ stop = "no" /\ c \in hash /\ thread[c].state = "ok" /\ thread[c].waiting = None
           /\ Id(c) \in L4Ids /\ slot[Id(c)] = c /\ l4[Id(c)] = "run"
<1>1. PICK i \in L4Ids : slot[i] = c /\ l4[i] = "run"
  BY DEF Calls
<1>2. Id(c) = i /\ c \in hash /\ thread[c].state = "ok"
  BY <1>1, ThreadsAssumption DEF Kept, L4s, Id
<1>3. thread[c].waiting = None
  BY <1>2 DEF Kept, Waiting
<1> QED
  BY <1>1, <1>2, <1>3 DEF Calls

LEMMA UsedIds ==
    ASSUME TypeOK, Kept, NEW t \in Threads, InUse(thread, t)
    PROVE  Id(t) \in L4Ids
<1>1. thread[t] \in Structures /\ thread[t].lthread # 0
  BY DEF TypeOK, Kept, Names
<1>2. Cardinality(Threads) \in Nat
  BY ThreadsAssumption, FS_CardinalityType
<1> QED
  BY <1>1, <1>2 DEF Structures, L4Ids, Id

LEMMA LiveIds ==
    ASSUME TypeOK, Kept, NEW t \in hash
    PROVE  t \in Threads /\ InUse(thread, t) /\ Id(t) \in L4Ids
<1>1. t \in Threads /\ InUse(thread, t)
  BY DEF TypeOK, Kept, Placed
<1> QED
  BY <1>1, UsedIds

\* A nonempty set of naturals has a least member.
LEMMA LeastNat ==
    ASSUME NEW T, T \subseteq Nat, T # {}
    PROVE  \E x \in T : \A y \in T : x <= y
<1>1. PICK x \in T : \A y \in T : ~(<<y, x>> \in OpToRel(<, Nat))
  BY NatLessThanWellFounded, WFMin
<1>2. \A y \in T : ~(y < x)
  BY <1>1 DEF OpToRel
<1> QED
  BY <1>2

\* Fewer L4 threads of an APD are taken than there are structures, if one is not in use.
LEMMA FreeSlot ==
    ASSUME TypeOK, Kept, NEW t \in Threads, ~InUse(thread, t), NEW a \in Apds
    PROVE  \E n \in 1 .. Cardinality(Threads) : slot[<<a, n>>] = None
<1> DEFINE N == Cardinality(Threads)
<1>1. N \in Nat /\ IsFiniteSet(Threads)
  BY ThreadsAssumption, FS_CardinalityType
<1>2. IsFiniteSet(1 .. N) /\ Cardinality(1 .. N) = N
  BY <1>1, FS_Interval
<1>3. IsFiniteSet(Threads \ {t}) /\ Cardinality(Threads \ {t}) = N - 1
  BY <1>1, FS_RemoveElement
<1> SUFFICES ASSUME \A n \in 1 .. N : slot[<<a, n>>] # None PROVE FALSE
  OBVIOUS
<1> DEFINE f == [n \in 1 .. N |-> slot[<<a, n>>]]
<1>4. ASSUME NEW n \in 1 .. N
      PROVE  /\ slot[<<a, n>>] \in Threads \ {t}
             /\ thread[slot[<<a, n>>]].lthread = n
  <2>1. <<a, n>> \in L4Ids
    BY DEF L4Ids
  <2>2. slot[<<a, n>>] \in Threads
    BY <2>1 DEF TypeOK
  <2>3. thread[slot[<<a, n>>]].lthread = n
    BY <2>1 DEF Kept, L4s
  <2>4. thread[t].lthread = 0 /\ n # 0
    BY DEF Kept, Names
  <2> QED
    BY <2>2, <2>3, <2>4
<1>5. f \in [1 .. N -> Threads \ {t}]
  BY <1>4
<1>6. Cardinality(Threads \ {t}) < Cardinality(1 .. N)
  BY <1>1, <1>2, <1>3
<1>7. \E x, y \in 1 .. N : x # y /\ f[x] = f[y]
  <2> DEFINE S == 1 .. N
             T == Threads \ {t}
  <2>1. IsFiniteSet(S) /\ IsFiniteSet(T) /\ Cardinality(T) < Cardinality(S) /\ f \in [S -> T]
    BY <1>2, <1>3, <1>5, <1>6
  <2> HIDE DEF S, T, f
  <2>2. \E x, y \in S : x # y /\ f[x] = f[y]
    BY <2>1, FS_PigeonHole
  <2> QED
    BY <2>2 DEF S
<1> QED
  BY <1>4, <1>7

\* What thread_get_mthread finds is free, and l4task_thread_add gives it a L4 thread.
LEMMA AvailableFacts ==
    ASSUME TypeOK, Kept, NEW a \in Apds, NEW t \in Available(a)
    PROVE  /\ t \in Threads \ hash
           /\ Lthread(t, a) \in 1 .. Cardinality(Threads)
           /\ InUse(thread, t) => thread[t].apd = a /\ thread[t].lthread = Lthread(t, a)
           /\ InUse(thread, t) <=> pool[a] # <<>>
           /\ pool[a] # <<>> => t = Head(pool[a])
<1>1. pool[a] \in Seq(Threads)
  BY DEF TypeOK
<1>2. /\ t \in Threads \ hash /\ (InUse(thread, t) => thread[t].apd = a)
      /\ InUse(thread, t) <=> pool[a] # <<>>
      /\ pool[a] # <<>> => t = Head(pool[a])
  <2>1. CASE pool[a] # <<>>
    <3>1. t = pool[a][1] /\ 1 \in DOMAIN pool[a]
      BY <1>1, <2>1 DEF Available
    <3>2. t \in Threads /\ t \notin hash /\ thread[t].apd = a
      BY <1>1, <3>1 DEF Kept, Placed
    <3>3. t \in Elements(pool[thread[t].apd])
      BY <3>1, <3>2 DEF Elements
    <3> QED
      BY <2>1, <3>2, <3>3 DEF Kept, Placed, Available
  <2>2. CASE pool[a] = <<>>
    BY <2>2 DEF Available, InUse, Kept, Placed
  <2> QED
    BY <2>1, <2>2
<1>3. /\ Lthread(t, a) \in 1 .. Cardinality(Threads)
      /\ InUse(thread, t) => thread[t].lthread = Lthread(t, a)
  <2>1. CASE InUse(thread, t)
    <3>1. thread[t].lthread # 0 /\ thread[t].lthread \in 0 .. Cardinality(Threads)
      BY <1>2, <2>1 DEF Kept, Names, TypeOK, Structures
    <3> QED
      BY <2>1, <3>1 DEF Lthread
  <2>2. CASE ~InUse(thread, t)
    <3> DEFINE T == {n \in 1 .. Cardinality(Threads) : slot[<<a, n>>] = None}
    <3>1. thread[t].lthread = 0
      BY <1>2, <2>2 DEF Kept, Names
    <3>2. T # {}
      BY <1>2, <2>2, FreeSlot
    <3>3. PICK x \in T : \A y \in T : x <= y
      <4>1. T \subseteq Nat
        OBVIOUS
      <4> HIDE DEF T
      <4> QED
        BY <3>2, <4>1, LeastNat
    <3>4. Min(T) \in T
      BY <3>3 DEF Min
    <3>5. Lthread(t, a) = Min(T)
      BY <3>1 DEF Lthread
    <3> QED
      BY <2>2, <3>4, <3>5
  <2> QED
    BY <2>1, <2>2
<1> QED
  BY <1>2, <1>3

\* The structures after the start of t, for the caller c.
Started(th2, t, a, c) ==
    /\ th2 \in Structs
    /\ th2[t].tid = next_tid /\ th2[t].state = "ok" /\ th2[t].creator = thread[c].tid
    /\ th2[t].parent = c /\ th2[t].waiting = None /\ th2[t].apd = a
    /\ th2[t].lthread = Lthread(t, a)
    /\ th2[t].waiters = <<>> /\ th2[t].zombies = <<>>
    /\ \A u \in Threads \ {t} :
          /\ th2[u].tid = thread[u].tid /\ th2[u].state = thread[u].state
          /\ th2[u].creator = thread[u].creator /\ th2[u].parent = thread[u].parent
          /\ th2[u].waiting = thread[u].waiting /\ th2[u].apd = thread[u].apd
          /\ th2[u].lthread = thread[u].lthread /\ th2[u].pdx = thread[u].pdx
          /\ th2[u].waiters = thread[u].waiters /\ th2[u].zombies = thread[u].zombies
          /\ th2[u].lasterror = thread[u].lasterror
          /\ u # c => th2[u].asked = thread[u].asked

LEMMA StartedFacts ==
    ASSUME TypeOK, Kept, NEW c \in Threads, Calls(c), NEW a \in Apds, NEW t \in Available(a),
           NEW proc \in BOOLEAN, Start(t, a, c, proc)
    PROVE  Started(thread', t, a, c) /\ next_tid \in Tids /\ next_tid' = next_tid + 1
<1> DEFINE n == Lthread(t, a)
           b == [Blank(a) EXCEPT !.tid = next_tid, !.state = "ok", !.lthread = n,
                                 !.parent = c, !.pdx = IF proc THEN c ELSE None,
                                 !.creator = thread[c].tid]
<1>1. t \in Threads /\ t # c /\ n \in 0 .. Cardinality(Threads)
  BY AvailableFacts, CallerFacts
<1>2. next_tid \in Tids /\ next_tid' = next_tid + 1 /\ NullTid \in Tids
  BY ThreadsAssumption DEF Start, TypeOK, Tids, NullTid
<1>3. thread' = [thread EXCEPT ![t] = b, ![c].asked = IF proc THEN next_tid ELSE @]
  BY DEF Start
<1>4. thread[c].tid \in Tids
  BY DEF TypeOK, Structures
<1>5. /\ b \in Structures
      /\ b.tid = next_tid /\ b.state = "ok" /\ b.creator = thread[c].tid
      /\ b.parent = c /\ b.waiting = None /\ b.apd = a /\ b.lthread = n
      /\ b.waiters = <<>> /\ b.zombies = <<>>
  <2>1. <<>> \in Seq(QueueItems)
    OBVIOUS
  <2> HIDE DEF n
  <2> QED
    BY <1>1, <1>2, <1>4, <2>1 DEF Blank, Structures, States, Tids, NullTid
<1> HIDE DEF b
<1> DEFINE d == [thread[c] EXCEPT !.asked = IF proc THEN next_tid ELSE @]
<1>6. thread[c] \in Structures
  BY DEF TypeOK
<1>7. d \in Structures
  BY <1>2, <1>6 DEF Structures
<1>8. thread' = [thread EXCEPT ![t] = b, ![c] = d]
  BY <1>1, <1>3 DEF TypeOK
<1>9. /\ d.tid = thread[c].tid /\ d.state = thread[c].state
      /\ d.creator = thread[c].creator /\ d.parent = thread[c].parent
      /\ d.waiting = thread[c].waiting /\ d.apd = thread[c].apd
      /\ d.lthread = thread[c].lthread /\ d.pdx = thread[c].pdx
      /\ d.waiters = thread[c].waiters /\ d.zombies = thread[c].zombies
      /\ d.lasterror = thread[c].lasterror
  BY <1>6 DEF Structures
<1> HIDE DEF d, n
<1>10. thread' \in Structs /\ thread'[t] = b
  BY <1>1, <1>5, <1>7, <1>8 DEF TypeOK, Structs
<1>11. \A u \in Threads \ {t} : thread'[u] = IF u = c THEN d ELSE thread[u]
  BY <1>1, <1>8 DEF TypeOK
<1> QED
  BY <1>2, <1>5, <1>9, <1>10, <1>11 DEF Started, n

LEMMA NamesStarted ==
    ASSUME TypeOK, Kept, NEW c \in hash, NEW a \in Apds, NEW t \in Threads \ hash, NEW th2,
           Lthread(t, a) # 0, Started(th2, t, a, c)
    PROVE  Names(th2, next_tid + 1)
<1>1. c \in Threads /\ c # t /\ InUse(thread, c)
  BY LiveIds
<1>2. /\ next_tid \in Nat /\ next_tid # NullTid
      /\ \A u \in Threads : thread[u].tid \in Nat /\ thread[u].creator \in Nat
  BY DEF TypeOK, Structures, Tids, NullTid
<1>3. Names(thread, next_tid)
  BY DEF Kept
<1>4. InUse(th2, t) /\ \A u \in Threads \ {t} : InUse(th2, u) <=> InUse(thread, u)
  BY DEF Started, InUse
<1>5. \A u \in Threads \ {t} :
        /\ th2[u].tid = thread[u].tid /\ th2[u].creator = thread[u].creator
        /\ th2[u].parent = thread[u].parent /\ th2[u].lthread = thread[u].lthread
  BY DEF Started
<1>6. th2[t].tid = next_tid /\ th2[t].creator = thread[c].tid /\ th2[t].parent = c
      /\ th2[t].lthread # 0
  BY DEF Started
<1>7. thread[c].tid < next_tid
  BY <1>1, <1>3 DEF Names
<1> SUFFICES ASSUME NEW v \in Threads
    PROVE  /\ InUse(th2, v) => th2[v].tid # NullTid /\ th2[v].lthread # 0
           /\ ~InUse(th2, v) => th2[v].tid = NullTid /\ th2[v].lthread = 0
           /\ th2[v].tid < next_tid + 1 /\ th2[v].creator < next_tid + 1
           /\ InUse(th2, v) => th2[v].creator < th2[v].tid
           /\ \A u \in Threads : InUse(th2, u) =>
                 /\ th2[v].tid = th2[u].tid => v = u
                 /\ th2[v].creator = th2[u].tid => th2[v].parent = u
  BY DEF Names
<1>8. CASE v = t
  BY <1>1, <1>2, <1>3, <1>4, <1>5, <1>6, <1>7, <1>8 DEF Names
<1>9. CASE v # t
  BY <1>1, <1>2, <1>3, <1>4, <1>5, <1>6, <1>7, <1>9 DEF Names
<1> QED
  BY <1>8, <1>9

LEMMA TailFacts ==
    ASSUME NEW q \in Seq(Threads), q # <<>>, \A i, j \in DOMAIN q : q[i] = q[j] => i = j
    PROVE  /\ Tail(q) \in Seq(Threads)
           /\ \A i, j \in DOMAIN Tail(q) : Tail(q)[i] = Tail(q)[j] => i = j
           /\ Elements(Tail(q)) = Elements(q) \ {Head(q)}
<1>1. /\ Tail(q) \in Seq(Threads) /\ DOMAIN Tail(q) = 1 .. Len(q) - 1
      /\ DOMAIN q = 1 .. Len(q) /\ Len(q) \in Nat /\ Len(q) >= 1 /\ Head(q) = q[1]
      /\ \A i \in 1 .. Len(q) - 1 : Tail(q)[i] = q[i + 1]
  OBVIOUS
<1> DEFINE r == Tail(q)
<1> HIDE DEF r
<1>2. \A i, j \in DOMAIN r : r[i] = r[j] => i = j
  <2> SUFFICES ASSUME NEW i \in DOMAIN r, NEW j \in DOMAIN r, r[i] = r[j] PROVE i = j
    OBVIOUS
  <2>1. i + 1 \in DOMAIN q /\ j + 1 \in DOMAIN q /\ q[i + 1] = q[j + 1]
    BY <1>1 DEF r
  <2>2. i + 1 = j + 1
    BY <2>1
  <2> QED
    BY <1>1, <2>2 DEF r
<1>3. Elements(r) = Elements(q) \ {Head(q)}
  <2>1. \A i \in DOMAIN r : i + 1 \in DOMAIN q /\ i + 1 # 1 /\ r[i] = q[i + 1]
    BY <1>1 DEF r
  <2>2. \A i \in DOMAIN q : i # 1 => i - 1 \in DOMAIN r /\ r[i - 1] = q[i]
    BY <1>1 DEF r
  <2>3. \A i \in DOMAIN q : q[i] = q[1] => i = 1
    BY <1>1
  <2> QED
    BY <1>1, <2>1, <2>2, <2>3 DEF Elements
<1> QED
  BY <1>1, <1>2, <1>3 DEF r

LEMMA PlacedStarted ==
    ASSUME TypeOK, Kept, NEW c \in hash, NEW a \in Apds, NEW t \in Available(a), NEW th2,
           Started(th2, t, a, c),
           NEW p2, p2 = [pool EXCEPT ![a] = IF @ = <<>> THEN @ ELSE Tail(@)]
    PROVE  Placed(th2, hash \cup {t}, p2) /\ p2 \in [Apds -> Seq(Threads)]
<1>1. /\ t \in Threads \ hash /\ (InUse(thread, t) <=> pool[a] # <<>>)
      /\ pool[a] # <<>> => t = Head(pool[a])
      /\ InUse(thread, t) => thread[t].apd = a
  BY AvailableFacts
<1>2. pool \in [Apds -> Seq(Threads)] /\ Placed(thread, hash, pool) /\ thread \in Structs
  BY DEF TypeOK, Kept, Structs
<1>3. \A b \in Apds : \A i, j \in DOMAIN pool[b] : pool[b][i] = pool[b][j] => i = j
  BY <1>2 DEF Placed
<1>4. \A b \in Apds : /\ \A u \in Elements(pool[b]) : u \in Threads \ hash /\ thread[u].apd = b
                      /\ InUse(thread, t) \/ t \notin Elements(pool[b])
  BY <1>1, <1>2 DEF Placed, Elements
<1>5. p2[a] = IF pool[a] = <<>> THEN pool[a] ELSE Tail(pool[a])
  BY <1>2
<1>6. /\ p2[a] \in Seq(Threads) /\ Elements(p2[a]) = Elements(pool[a]) \ {t}
      /\ \A i, j \in DOMAIN p2[a] : p2[a][i] = p2[a][j] => i = j
  <2>1. CASE pool[a] = <<>>
    BY <1>2, <1>3, <1>5, <2>1 DEF Elements
  <2>2. CASE pool[a] # <<>>
    <3>1. pool[a] \in Seq(Threads) /\ p2[a] = Tail(pool[a]) /\ t = Head(pool[a])
      BY <1>1, <1>2, <1>5, <2>2
    <3> QED
      BY <1>3, <2>2, <3>1, TailFacts
  <2> QED
    BY <2>1, <2>2
<1>7. \A b \in Apds \ {a} : p2[b] = pool[b] /\ t \notin Elements(pool[b])
  BY <1>1, <1>2, <1>4
<1>8. p2 \in [Apds -> Seq(Threads)]
  BY <1>2, <1>5, <1>6, <1>7
<1>9. \A b \in Apds : Elements(p2[b]) = Elements(pool[b]) \ {t}
  BY <1>6, <1>7
<1>10. \A u \in Threads \ {t} : th2[u].apd = thread[u].apd /\ (InUse(th2, u) <=> InUse(thread, u))
  BY DEF Started, InUse
<1>11. InUse(th2, t)
  BY DEF Started, InUse
<1>12. \A u \in Threads : thread[u].apd \in Apds
  BY <1>2 DEF Structs, Structures
<1>13. \A u \in Threads :
          InUse(th2, u) <=> u \in hash \cup {t} \/ u \in Elements(p2[th2[u].apd])
  BY <1>2, <1>9, <1>10, <1>11, <1>12 DEF Placed
<1>14. \A b \in Apds : \A i \in DOMAIN p2[b] :
          p2[b][i] \notin hash \cup {t} /\ th2[p2[b][i]].apd = b
  <2> SUFFICES ASSUME NEW b \in Apds, NEW i \in DOMAIN p2[b]
               PROVE  p2[b][i] \notin hash \cup {t} /\ th2[p2[b][i]].apd = b
    OBVIOUS
  <2>1. p2[b][i] \in Elements(pool[b]) \ {t}
    BY <1>9 DEF Elements
  <2> QED
    BY <1>4, <1>10, <2>1
<1>15. \A b \in Apds : \A i, j \in DOMAIN p2[b] : p2[b][i] = p2[b][j] => i = j
  BY <1>3, <1>6, <1>7
<1> QED
  BY <1>8, <1>13, <1>14, <1>15 DEF Placed

LEMMA QueuesStarted ==
    ASSUME TypeOK, Kept, NEW c \in hash, thread[c].state = "ok", NEW a \in Apds,
           NEW t \in Threads \ hash, NEW th2, Started(th2, t, a, c)
    PROVE  /\ Waiting(th2, hash \cup {t}, returned) /\ Zombies(th2, hash \cup {t}, next_tid + 1)
           /\ Gone(th2, hash \cup {t}, next_tid + 1, returned)
<1>1. hash \subseteq Threads /\ None \notin Threads /\ t # c /\ returned \subseteq Tids
  BY ThreadsAssumption DEF TypeOK
<1>2. /\ Waiting(thread, hash, returned) /\ Zombies(thread, hash, next_tid)
      /\ Gone(thread, hash, next_tid, returned)
  BY DEF Kept
<1>3. \A u \in hash :
          /\ th2[u].tid = thread[u].tid /\ th2[u].state = thread[u].state
          /\ th2[u].creator = thread[u].creator /\ th2[u].parent = thread[u].parent
          /\ th2[u].waiting = thread[u].waiting /\ th2[u].pdx = thread[u].pdx
          /\ th2[u].waiters = thread[u].waiters /\ th2[u].zombies = thread[u].zombies
          /\ th2[u].lasterror = thread[u].lasterror
          /\ u # c => th2[u].asked = thread[u].asked
  BY <1>1 DEF Started
<1>4. /\ th2[t].state = "ok" /\ th2[t].waiting = None /\ th2[t].tid = next_tid
      /\ th2[t].waiters = <<>> /\ th2[t].zombies = <<>>
  BY DEF Started
<1>5. /\ \A u \in hash : thread[u].creator < next_tid /\ thread[u].creator \in Nat
      /\ next_tid \in Nat /\ \A x \in Tids : x \in Nat
  BY <1>1 DEF Kept, Names, TypeOK, Structures, Tids
<1>6. thread[c].waiting = None
  BY <1>2 DEF Waiting
<1>7. Waiting(th2, hash \cup {t}, returned)
  <2>1. ASSUME NEW w \in hash, thread[w].state = "waiting", Known(thread, hash, w)
        PROVE  Known(th2, hash \cup {t}, w)
    <3>1. w # c
      BY <2>1
    <3> QED
      BY <1>3, <2>1, <3>1 DEF Known, Alive
  <2>2. \A w \in hash \cup {t} :
          IF th2[w].state # "waiting" THEN th2[w].waiting = None
          ELSE th2[w].waiting \in Threads
               /\ (th2[w].asked \in returned \/ Known(th2, hash \cup {t}, w))
    <3> SUFFICES ASSUME NEW w \in hash \cup {t}
                 PROVE  IF th2[w].state # "waiting" THEN th2[w].waiting = None
                        ELSE th2[w].waiting \in Threads
                             /\ (th2[w].asked \in returned \/ Known(th2, hash \cup {t}, w))
      OBVIOUS
    <3>1. CASE w = t
      BY <1>4, <3>1
    <3>2. CASE w # t
      BY <1>2, <1>3, <2>1, <3>2 DEF Waiting
    <3> QED
      BY <3>1, <3>2
  <2>3. \A u \in Threads : Distinct(th2[u].waiters)
    BY <1>2, <1>4, EmptyQueue DEF Waiting, Started
  <2>4. ASSUME NEW u \in hash \cup {t}, NEW w \in Members(th2[u].waiters)
        PROVE  w \in hash \cup {t} /\ th2[w].waiting = u /\ th2[w].asked = th2[u].tid
    <3>1. u \in hash /\ w \in Members(thread[u].waiters)
      BY <1>3, <1>4, <2>4, EmptyQueue
    <3>2. w \in hash /\ thread[w].waiting = u /\ thread[w].asked = thread[u].tid
      BY <1>2, <3>1 DEF Waiting
    <3>3. w # c
      BY <1>1, <1>6, <3>1, <3>2
    <3> QED
      BY <1>3, <3>1, <3>2, <3>3
  <2> QED
    BY <2>2, <2>3, <2>4 DEF Waiting
<1>8. Zombies(th2, hash \cup {t}, next_tid + 1)
  <2>1. ASSUME NEW p \in hash \cup {t}
        PROVE  /\ SingleEntries(th2[p].zombies)
               /\ \A u \in Threads : \A x \in Tids : <<u, x>> \in Entries(th2[p].zombies) =>
                     /\ x < next_tid + 1
                     /\ u \in hash \cup {t} /\ th2[u].tid = x =>
                           th2[u].state = "zombie" /\ th2[u].parent = p
    <3>1. CASE p = t
      BY <1>4, <3>1, EmptyQueue
    <3>2. CASE p # t
      <4>1. p \in hash /\ th2[p].zombies = thread[p].zombies
        BY <1>3, <3>2
      <4>2. \A u \in Threads : \A x \in Tids : <<u, x>> \in Entries(th2[p].zombies) =>
              /\ x < next_tid
              /\ u \in hash /\ thread[u].tid = x => thread[u].state = "zombie" /\ thread[u].parent = p
        BY <1>2, <4>1 DEF Zombies
      <4>3. SingleEntries(th2[p].zombies)
        BY <1>2, <4>1 DEF Zombies
      <4>4. \A x \in Tids : x < next_tid => x < next_tid + 1 /\ x # next_tid
        BY <1>5
      <4> QED
        BY <1>3, <1>4, <4>2, <4>3, <4>4
    <3> QED
      BY <3>1, <3>2
  <2>2. \A u \in hash \cup {t} :
          th2[u].state = "zombie" => th2[u].lasterror \in {0, th2[u].tid}
    BY <1>2, <1>3, <1>4 DEF Zombies
  <2>3. \A u \in hash \cup {t} :
          LET p == th2[u].parent
          IN  th2[u].state = "zombie" /\ p \in hash \cup {t} /\ th2[p].tid = th2[u].creator =>
                  <<u, th2[u].tid>> \in Entries(th2[p].zombies)
    BY <1>2, <1>3, <1>4, <1>5 DEF Zombies
  <2> QED
    BY <2>1, <2>2, <2>3 DEF Zombies
<1>9. Gone(th2, hash \cup {t}, next_tid + 1, returned)
  <2>1. \A x \in returned : x < next_tid + 1 /\ x # next_tid
    BY <1>1, <1>2, <1>5 DEF Gone
  <2> QED
    BY <1>2, <1>3, <1>4, <2>1 DEF Gone
<1> QED
  BY <1>7, <1>8, <1>9
-----------------------------------------------------------------------------
(* The end of a thread *)

\* A thread that is deleted leaves the queue it waits in.
LEMMA LeftFacts ==
    ASSUME TypeOK, Kept, NEW t \in hash, Alive(thread, t)
    PROVE  LET th == LeftQueue(t)
           IN  /\ th \in Structs /\ SameNames(thread, th)
               /\ th[t].state = "ok" /\ th[t].waiting = None
               /\ \A u \in Threads \ {t} : th[u].state = thread[u].state
               /\ Waiting(th, hash, returned) /\ Zombies(th, hash, next_tid)
<1> DEFINE x == thread[t].waiting
           th == LeftQueue(t)
<1>1. /\ t \in Threads /\ hash \subseteq Threads /\ thread \in Structs
      /\ thread[t] \in Structures /\ None \notin Threads
  BY ThreadsAssumption DEF TypeOK, Structs
<1>2. Waiting(thread, hash, returned) /\ Zombies(thread, hash, next_tid)
  BY DEF Kept
<1>3. CASE x = None
  <2>1. th = thread
    BY <1>3 DEF LeftQueue
  <2>2. thread[t].state = "ok"
    <3>1. thread[t].state # "waiting"
      BY <1>1, <1>2, <1>3 DEF Waiting
    <3> QED
      BY <3>1 DEF Alive
  <2> QED
    BY <1>1, <1>2, <1>3, <2>1, <2>2 DEF SameNames
<1>4. CASE x # None
  <2>1. thread[t].state = "waiting" /\ x \in Threads
    BY <1>1, <1>2, <1>4 DEF Waiting
  <2> DEFINE q == Cancelled(thread[x].waiters, t)
  <2>2. q \in Seq(QueueItems) /\ Distinct(q) /\ Members(q) = Members(thread[x].waiters) \ {t}
    <3>1. thread[x].waiters \in Seq(QueueItems) /\ Distinct(thread[x].waiters)
      BY <1>1, <1>2, <2>1 DEF Waiting, Structs, Structures
    <3> QED
      BY <1>1, <3>1, CancelledFacts
  <2>3. th = [thread EXCEPT ![x].waiters = q, ![t].state = "ok", ![t].waiting = None]
    BY <1>1, <1>4, <2>1 DEF LeftQueue, Structs
  <2> HIDE DEF q, th
  <2>4. DOMAIN thread = Threads /\ \A u \in Threads : thread[u] \in Structures
    BY <1>1 DEF Structs
  <2>5. /\ th \in Structs
        /\ th[t].state = "ok" /\ th[t].waiting = None
        /\ th[x].waiters = q
        /\ \A u \in Threads \ {t} : th[u].state = thread[u].state
                                    /\ th[u].waiting = thread[u].waiting
        /\ \A u \in Threads \ {x} : th[u].waiters = thread[u].waiters
        /\ \A u \in Threads :
              /\ th[u].tid = thread[u].tid /\ th[u].creator = thread[u].creator
              /\ th[u].parent = thread[u].parent /\ th[u].pdx = thread[u].pdx
              /\ th[u].apd = thread[u].apd /\ th[u].lthread = thread[u].lthread
              /\ th[u].zombies = thread[u].zombies /\ th[u].asked = thread[u].asked
              /\ th[u].lasterror = thread[u].lasterror
    <3> DEFINE a == [thread EXCEPT ![x].waiters = q]
               b == [thread[t] EXCEPT !.state = "ok", !.waiting = None]
               c == [thread[x] EXCEPT !.waiters = q]
               d == [thread[t] EXCEPT !.waiters = q, !.state = "ok", !.waiting = None]
    <3>1. b \in Structures /\ c \in Structures /\ d \in Structures
      BY <1>1, <2>1, <2>2, <2>4 DEF Structures, States
    <3>2. CASE x = t
      <4>1. th = [thread EXCEPT ![t] = d]
        BY <2>1, <2>3, <2>4, <3>2
      <4>2. /\ d.state = "ok" /\ d.waiting = None /\ d.waiters = q
            /\ d.tid = thread[t].tid /\ d.creator = thread[t].creator
            /\ d.parent = thread[t].parent /\ d.pdx = thread[t].pdx
            /\ d.apd = thread[t].apd /\ d.lthread = thread[t].lthread
            /\ d.zombies = thread[t].zombies /\ d.asked = thread[t].asked
            /\ d.lasterror = thread[t].lasterror
        BY <1>1 DEF Structures
      <4> HIDE DEF d
      <4>3. th \in Structs /\ \A u \in Threads : th[u] = IF u = t THEN d ELSE thread[u]
        BY <1>1, <2>4, <3>1, <4>1 DEF Structs
      <4>4. th[t] = d /\ \A u \in Threads \ {t} : th[u] = thread[u]
        BY <1>1, <4>3
      <4>5. \A u \in Threads \ {x} : th[u].waiters = thread[u].waiters
        BY <3>2, <4>4
      <4>6. \A u \in Threads :
              /\ th[u].tid = thread[u].tid /\ th[u].creator = thread[u].creator
              /\ th[u].parent = thread[u].parent /\ th[u].pdx = thread[u].pdx
              /\ th[u].apd = thread[u].apd /\ th[u].lthread = thread[u].lthread
              /\ th[u].zombies = thread[u].zombies /\ th[u].asked = thread[u].asked
              /\ th[u].lasterror = thread[u].lasterror
        BY <4>2, <4>4
      <4>7. th[t].state = "ok" /\ th[t].waiting = None /\ th[x].waiters = q
        BY <3>2, <4>2, <4>4
      <4>8. \A u \in Threads \ {t} : th[u].state = thread[u].state
                                     /\ th[u].waiting = thread[u].waiting
        BY <4>4
      <4> QED
        BY <4>3, <4>5, <4>6, <4>7, <4>8
    <3>3. CASE x # t
      <4>1. th = [thread EXCEPT ![x] = c, ![t] = b]
        BY <2>1, <2>3, <2>4, <3>3
      <4>2. /\ b.state = "ok" /\ b.waiting = None /\ b.waiters = thread[t].waiters
            /\ b.tid = thread[t].tid /\ b.creator = thread[t].creator
            /\ b.parent = thread[t].parent /\ b.pdx = thread[t].pdx
            /\ b.apd = thread[t].apd /\ b.lthread = thread[t].lthread
            /\ b.zombies = thread[t].zombies /\ b.asked = thread[t].asked
            /\ b.lasterror = thread[t].lasterror
        BY <1>1 DEF Structures
      <4>3. /\ c.state = thread[x].state /\ c.waiting = thread[x].waiting /\ c.waiters = q
            /\ c.tid = thread[x].tid /\ c.creator = thread[x].creator
            /\ c.parent = thread[x].parent /\ c.pdx = thread[x].pdx
            /\ c.apd = thread[x].apd /\ c.lthread = thread[x].lthread
            /\ c.zombies = thread[x].zombies /\ c.asked = thread[x].asked
            /\ c.lasterror = thread[x].lasterror
        BY <2>1, <2>4 DEF Structures
      <4> HIDE DEF b, c, d, a
      <4>4. th \in Structs
        BY <1>1, <3>1, <4>1 DEF Structs
      <4>5. th[t] = b /\ th[x] = c /\ \A u \in Threads : u # t /\ u # x => th[u] = thread[u]
        BY <1>1, <2>1, <2>4, <3>3, <4>1
      <4>6. th[t].state = "ok" /\ th[t].waiting = None /\ th[x].waiters = q
        BY <4>2, <4>3, <4>5
      <4>7. \A u \in Threads \ {t} : th[u].state = thread[u].state
                                     /\ th[u].waiting = thread[u].waiting
        BY <4>3, <4>5
      <4>8. \A u \in Threads \ {x} : th[u].waiters = thread[u].waiters
        BY <4>2, <4>5
      <4>9. \A u \in Threads :
              /\ th[u].tid = thread[u].tid /\ th[u].creator = thread[u].creator
              /\ th[u].parent = thread[u].parent /\ th[u].pdx = thread[u].pdx
              /\ th[u].apd = thread[u].apd /\ th[u].lthread = thread[u].lthread
              /\ th[u].zombies = thread[u].zombies /\ th[u].asked = thread[u].asked
              /\ th[u].lasterror = thread[u].lasterror
        BY <4>2, <4>3, <4>5
      <4> QED
        BY <4>4, <4>6, <4>7, <4>8, <4>9
    <3> QED
      BY <3>2, <3>3
  <2>6. SameNames(thread, th)
    BY <2>1, <2>5, <1>1 DEF SameNames, InUse
  <2>7. Waiting(th, hash, returned)
    <3>1. \A u \in Threads : \A w \in Members(thread[u].waiters) \ {t} :
             w \in Members(th[u].waiters)
      BY <2>2, <2>5
    <3>2. \A u \in Threads : Alive(thread, u) => Alive(th, u)
      BY <1>1, <2>5 DEF Alive
    <3>3. ASSUME NEW w \in hash, w # t, thread[w].state = "waiting", Known(thread, hash, w)
          PROVE  Known(th, hash, w)
      <4> DEFINE u == thread[w].waiting
      <4>1. u \in hash /\ Alive(thread, u) /\ thread[u].tid = thread[w].asked
            /\ w \in Members(thread[u].waiters)
        BY <3>3 DEF Known
      <4>2. th[w].waiting = u /\ th[w].asked = thread[w].asked
        BY <1>1, <2>5, <3>3
      <4> HIDE DEF u
      <4>3. u \in hash /\ Alive(th, u) /\ th[u].tid = th[w].asked /\ w \in Members(th[u].waiters)
        BY <1>1, <2>5, <3>1, <3>2, <3>3, <4>1, <4>2
      <4> QED
        BY <4>2, <4>3 DEF Known
    <3>4. \A w \in hash :
            IF th[w].state # "waiting" THEN th[w].waiting = None
            ELSE th[w].waiting \in Threads /\ (th[w].asked \in returned \/ Known(th, hash, w))
      <4> SUFFICES ASSUME NEW w \in hash
                   PROVE  IF th[w].state # "waiting" THEN th[w].waiting = None
                          ELSE th[w].waiting \in Threads
                               /\ (th[w].asked \in returned \/ Known(th, hash, w))
        OBVIOUS
      <4>1. CASE w = t
        BY <2>5, <4>1
      <4>2. CASE w # t
        BY <1>1, <1>2, <2>5, <3>3, <4>2 DEF Waiting
      <4> QED
        BY <4>1, <4>2
    <3>5. \A u \in Threads : Distinct(th[u].waiters)
      BY <1>2, <2>2, <2>5 DEF Waiting
    <3>6. ASSUME NEW u \in hash, NEW w \in Members(th[u].waiters)
          PROVE  w \in hash /\ th[w].waiting = u /\ th[w].asked = th[u].tid
      <4>1. w \in Members(thread[u].waiters)
        BY <1>1, <2>2, <2>5, <3>6
      <4>2. w \in hash /\ thread[w].waiting = u /\ thread[w].asked = thread[u].tid
        BY <1>2, <4>1 DEF Waiting
      <4>3. w # t
        <5>1. CASE u = x
          BY <2>2, <2>5, <3>6, <5>1
        <5>2. CASE u # x
          BY <4>2, <5>2
        <5> QED
          BY <5>1, <5>2
      <4> QED
        BY <1>1, <2>5, <4>2, <4>3
    <3> QED
      BY <3>4, <3>5, <3>6 DEF Waiting
  <2>8. Zombies(th, hash, next_tid)
    <3>1. \A u \in hash : th[u].state = "zombie" <=> thread[u].state = "zombie"
      BY <1>1, <2>1, <2>5
    <3> QED
      BY <1>1, <1>2, <2>5, <3>1 DEF Zombies
  <2> QED
    BY <2>5, <2>6, <2>7, <2>8 DEF th
<1> QED
  BY <1>3, <1>4

\* What the notification of a waiter or of nobody leaves as it is.
SameLinks(th, th2) ==
    \A u \in Threads :
        /\ th2[u].tid = th[u].tid /\ th2[u].creator = th[u].creator
        /\ th2[u].parent = th[u].parent /\ th2[u].pdx = th[u].pdx
        /\ th2[u].apd = th[u].apd /\ th2[u].lthread = th[u].lthread
        /\ th2[u].asked = th[u].asked

LEMMA LinksCompose ==
    ASSUME NEW a, NEW b, NEW c, SameLinks(a, b), SameLinks(b, c)
    PROVE  SameLinks(a, c)
  BY DEF SameLinks

\* Thread t ends with status e.
Ended(th, thd, t, e) ==
    /\ thd \in Structs /\ SameLinks(th, thd)
    /\ thd[t].state = "zombie" /\ thd[t].lasterror = e
    /\ \A u \in Threads \ {t} : thd[u].state = th[u].state /\ thd[u].lasterror = th[u].lasterror
    /\ \A u \in Threads : /\ thd[u].zombies = th[u].zombies
                          /\ thd[u].waiters = th[u].waiters /\ thd[u].waiting = th[u].waiting

\* notify_waiters, when nobody waits: thread t is a zombie of p.
Unwaited(th, th2, t, p, e) ==
    /\ th2 \in Structs /\ SameLinks(th, th2)
    /\ th2[t].state = "zombie" /\ th2[t].lasterror = e
    /\ p # None => th2[p].zombies = Append(th[p].zombies, Item(t, th[t].tid))
    /\ \A u \in Threads \ {t} : th2[u].state = th[u].state /\ th2[u].lasterror = th[u].lasterror
    /\ \A u \in Threads \ {p} : th2[u].zombies = th[u].zombies
    /\ \A u \in Threads : th2[u].waiters = th[u].waiters /\ th2[u].waiting = th[u].waiting

LEMMA EndedFields ==
    ASSUME NEW th \in Structs, NEW t \in Threads, NEW e \in {0, th[t].tid},
           NEW thd, thd = [th EXCEPT ![t].state = "zombie", ![t].lasterror = e]
    PROVE  Ended(th, thd, t, e)
<1> DEFINE b == [th[t] EXCEPT !.state = "zombie", !.lasterror = e]
<1>1. th[t] \in Structures /\ DOMAIN th = Threads /\ \A u \in Threads : th[u] \in Structures
  BY DEF Structs
<1>2. e \in Tids
  BY <1>1, ThreadsAssumption DEF Structures, Tids
<1>3. b \in Structures
  BY <1>1, <1>2 DEF Structures, States
<1>4. thd = [th EXCEPT ![t] = b]
  BY <1>1
<1>5. /\ b.tid = th[t].tid /\ b.creator = th[t].creator /\ b.pdx = th[t].pdx
      /\ b.apd = th[t].apd /\ b.lthread = th[t].lthread /\ b.parent = th[t].parent
      /\ b.waiters = th[t].waiters /\ b.asked = th[t].asked
      /\ b.waiting = th[t].waiting /\ b.zombies = th[t].zombies
      /\ b.state = "zombie" /\ b.lasterror = e
  BY <1>1 DEF Structures
<1> HIDE DEF b
<1>6. thd \in Structs
  BY <1>1, <1>3, <1>4 DEF Structs
<1>7. thd[t] = b /\ \A u \in Threads \ {t} : thd[u] = th[u]
  BY <1>1, <1>4
<1>8. SameLinks(th, thd)
  BY <1>5, <1>7 DEF SameLinks
<1>9. \A u \in Threads : thd[u].zombies = th[u].zombies
         /\ thd[u].waiters = th[u].waiters /\ thd[u].waiting = th[u].waiting
  BY <1>5, <1>7
<1>10. thd[t].state = "zombie" /\ thd[t].lasterror = e
  BY <1>5, <1>7
<1>11. \A u \in Threads \ {t} : thd[u].state = th[u].state /\ thd[u].lasterror = th[u].lasterror
  BY <1>7
<1> QED
  BY <1>6, <1>8, <1>9, <1>10, <1>11 DEF Ended

LEMMA UnwaitedFields ==
    ASSUME NEW th \in Structs, NEW t \in Threads, NEW e, NEW thd, Ended(th, thd, t, e),
           NEW th2, th2 = IF thd[t].parent = None THEN thd
                          ELSE [thd EXCEPT ![thd[t].parent].zombies = Append(@, Item(t, thd[t].tid))]
    PROVE  Unwaited(th, th2, t, th[t].parent, e)
<1> DEFINE p == th[t].parent
<1>1. /\ None \notin Threads /\ DOMAIN thd = Threads /\ thd \in Structs
      /\ \A u \in Threads : thd[u] \in Structures
      /\ p \in Threads \cup {None} /\ thd[t].parent = p
  BY ThreadsAssumption DEF Ended, SameLinks, Structs, Structures
<1>2. SameLinks(th, thd) /\ thd[t].state = "zombie" /\ thd[t].lasterror = e
  BY DEF Ended
<1>3. \A u \in Threads : thd[u].zombies = th[u].zombies
         /\ thd[u].waiters = th[u].waiters /\ thd[u].waiting = th[u].waiting
  BY DEF Ended
<1>4. \A u \in Threads \ {t} : thd[u].state = th[u].state /\ thd[u].lasterror = th[u].lasterror
  BY DEF Ended
<1>5. CASE p = None
  <2>1. th2 = thd
    BY <1>1, <1>5
  <2> HIDE DEF p
  <2>2. Unwaited(th, thd, t, p, e)
    BY <1>1, <1>2, <1>3, <1>4, <1>5 DEF Unwaited
  <2> QED
    BY <2>1, <2>2 DEF p
<1>6. CASE p # None
  <2> DEFINE z == Append(thd[p].zombies, Item(t, thd[t].tid))
             d == [thd[p] EXCEPT !.zombies = z]
  <2> HIDE DEF p
  <2>1. thd[p] \in Structures /\ p \in Threads
    BY <1>1, <1>6
  <2>2. Item(t, thd[t].tid) \in QueueItems /\ thd[t].tid = th[t].tid
    BY <1>1, <1>2 DEF Item, QueueItems, Structures, SameLinks
  <2>3. thd[p].zombies \in Seq(QueueItems)
    BY <2>1 DEF Structures
  <2>4. z \in Seq(QueueItems) /\ z = Append(th[p].zombies, Item(t, th[t].tid))
    BY <1>3, <2>1, <2>2, <2>3
  <2>5. th2 = [thd EXCEPT ![p] = d]
    BY <1>1, <1>6, <2>1
  <2> HIDE DEF z
  <2>6. d \in Structures
    BY <2>1, <2>4 DEF Structures
  <2>7. /\ d.tid = thd[p].tid /\ d.creator = thd[p].creator
        /\ d.parent = thd[p].parent /\ d.pdx = thd[p].pdx
        /\ d.apd = thd[p].apd /\ d.lthread = thd[p].lthread
        /\ d.waiters = thd[p].waiters /\ d.asked = thd[p].asked
        /\ d.waiting = thd[p].waiting /\ d.zombies = z
        /\ d.state = thd[p].state /\ d.lasterror = thd[p].lasterror
    BY <2>1 DEF Structures
  <2> HIDE DEF d
  <2>8. th2 \in Structs
    BY <1>1, <2>1, <2>5, <2>6 DEF Structs
  <2>9. th2[p] = d /\ \A u \in Threads \ {p} : th2[u] = thd[u]
    BY <1>1, <2>1, <2>5
  <2>10. SameLinks(thd, th2)
    BY <2>7, <2>9 DEF SameLinks
  <2>11. SameLinks(th, th2)
    BY <1>2, <2>10, LinksCompose
  <2>12. th2[t].state = "zombie" /\ th2[t].lasterror = e /\ th2[p].zombies = z
    BY <1>2, <2>7, <2>9
  <2>13. \A u \in Threads \ {t} : th2[u].state = th[u].state /\ th2[u].lasterror = th[u].lasterror
    BY <1>4, <2>7, <2>9
  <2>14. \A u \in Threads \ {p} : th2[u].zombies = th[u].zombies
    BY <1>3, <2>9
  <2>15. \A u \in Threads : th2[u].waiters = th[u].waiters /\ th2[u].waiting = th[u].waiting
    BY <1>3, <2>7, <2>9
  <2>16. Unwaited(th, th2, t, p, e)
    BY <2>4, <2>8, <2>11, <2>12, <2>13, <2>14, <2>15 DEF Unwaited
  <2> QED
    BY <2>16 DEF p
<1> QED
  BY <1>5, <1>6

EndsUnwaited(th, th2, t, e) ==
    /\ th[t].state = "ok" /\ th[t].waiting = None /\ th[t].waiters = <<>>
    /\ e \in {0, th[t].tid} /\ Unwaited(th, th2, t, th[t].parent, e)

LEMMA DiesUnwaited ==
    ASSUME NEW th \in Structs, NEW h \in SUBSET Threads, NEW t \in h,
           NEW e, NEW th2, EndsUnwaited(th, th2, t, e),
           NEW rt, NEW n, Waiting(th, h, rt), Zombies(th, h, n), Names(th, n)
    PROVE  SameNames(th, th2) /\ Waiting(th2, h, rt) /\ Zombies(th2, h, n)
<1> DEFINE p == th[t].parent
           k == th[t].tid
<1>1. t \in Threads /\ h \subseteq Threads /\ None \notin Threads /\ k \in Tids
      /\ \A u \in Threads : th[u].zombies \in Seq(QueueItems)
  BY ThreadsAssumption DEF Structs, Structures
<1>0. /\ th[t].state = "ok" /\ th[t].waiting = None /\ th[t].waiters = <<>>
      /\ e \in {0, th[t].tid} /\ Unwaited(th, th2, t, th[t].parent, e)
  BY DEF EndsUnwaited
<1>2. SameLinks(th, th2) /\ th2[t].state = "zombie" /\ th2[t].lasterror = e
  BY <1>0 DEF Unwaited
<1>3. SameNames(th, th2)
  <2>1. \A u \in Threads : InUse(th2, u) <=> InUse(th, u)
    BY <1>0, <1>1, <1>2 DEF Unwaited, InUse
  <2> QED
    BY <1>2, <2>1 DEF SameNames, SameLinks
<1>4. \A u \in Threads :
        /\ th2[u].tid = th[u].tid /\ th2[u].creator = th[u].creator
        /\ th2[u].parent = th[u].parent /\ th2[u].asked = th[u].asked
        /\ th2[u].waiters = th[u].waiters /\ th2[u].waiting = th[u].waiting
  BY <1>0, <1>1 DEF Unwaited, SameLinks
<1>5. \A u \in Threads \ {t} : th2[u].state = th[u].state /\ th2[u].lasterror = th[u].lasterror
  BY <1>0, <1>1 DEF Unwaited
<1>6. \A u \in h : u # p => th2[u].zombies = th[u].zombies
  BY <1>0, <1>1 DEF Unwaited
<1>7. p \in h => th2[p].zombies = Append(th[p].zombies, Item(t, k))
  BY <1>0, <1>1 DEF Unwaited
<1> HIDE DEF p, k
<1>8. th[t].parent = p /\ th[t].tid = k /\ k < n
  BY <1>1 DEF p, k, Names
<1>9. Waiting(th2, h, rt)
  <2>1. ASSUME NEW w \in h, Known(th, h, w) PROVE Known(th2, h, w)
    <3>1. th[w].waiting # t
      BY <1>0, <2>1, EmptyQueue DEF Known
    <3> QED
      BY <1>1, <1>4, <1>5, <2>1, <3>1 DEF Known, Alive
  <2>2. \A w \in h : IF th2[w].state # "waiting" THEN th2[w].waiting = None
                     ELSE th2[w].waiting \in Threads /\ (th2[w].asked \in rt \/ Known(th2, h, w))
    BY <1>0, <1>1, <1>2, <1>4, <1>5, <2>1 DEF Waiting
  <2>3. \A u \in Threads : Distinct(th2[u].waiters)
    BY <1>4 DEF Waiting
  <2>4. \A u \in h : \A w \in Members(th2[u].waiters) :
           w \in h /\ th2[w].waiting = u /\ th2[w].asked = th2[u].tid
    BY <1>1, <1>4 DEF Waiting
  <2> QED
    BY <2>2, <2>3, <2>4 DEF Waiting
<1>10. Zombies(th2, h, n)
  <2>1. \A u \in h : <<t, k>> \notin Entries(th[u].zombies)
    BY <1>0, <1>1, <1>8 DEF Zombies
  <2>2. ASSUME p \in h
        PROVE  /\ SingleEntries(th2[p].zombies)
               /\ Entries(th2[p].zombies) = Entries(th[p].zombies) \cup {<<t, k>>}
    <3> DEFINE q == th[p].zombies
    <3>1. q \in Seq(QueueItems) /\ SingleEntries(q) /\ <<t, k>> \notin Entries(q)
      BY <1>1, <2>1, <2>2 DEF Zombies
    <3>2. th2[p].zombies = Append(q, Item(t, k))
      BY <1>7, <2>2
    <3> HIDE DEF q
    <3>3. /\ SingleEntries(Append(q, Item(t, k)))
          /\ Entries(Append(q, Item(t, k))) = Entries(q) \cup {<<t, k>>}
      BY <1>1, <3>1, AppendEntries
    <3> QED
      BY <3>2, <3>3 DEF q
  <2>3. ASSUME NEW u \in h
        PROVE  /\ SingleEntries(th2[u].zombies)
               /\ \A v \in Threads : \A x \in Tids : <<v, x>> \in Entries(th2[u].zombies) =>
                     /\ x < n
                     /\ v \in h /\ th2[v].tid = x => th2[v].state = "zombie" /\ th2[v].parent = u
    <3>1. \A v \in Threads : \A x \in Tids : <<v, x>> \in Entries(th[u].zombies) =>
             /\ x < n
             /\ v \in h /\ th2[v].tid = x => th2[v].state = "zombie" /\ th2[v].parent = u
      <4> SUFFICES ASSUME NEW v \in Threads, NEW x \in Tids, <<v, x>> \in Entries(th[u].zombies)
                   PROVE  /\ x < n
                          /\ v \in h /\ th2[v].tid = x =>
                                th2[v].state = "zombie" /\ th2[v].parent = u
        OBVIOUS
      <4>1. x < n /\ (v \in h /\ th[v].tid = x => th[v].state = "zombie" /\ th[v].parent = u)
        BY <2>3 DEF Zombies
      <4>2. v \in h /\ th2[v].tid = x => v # t /\ th[v].state = "zombie" /\ th[v].parent = u
        BY <1>0, <1>4, <4>1
      <4> QED
        BY <1>4, <1>5, <4>1, <4>2
    <3>2. CASE u = p
      BY <1>2, <1>4, <1>8, <2>2, <2>3, <3>1, <3>2
    <3>3. CASE u # p
      BY <1>6, <2>3, <3>1, <3>3 DEF Zombies
    <3> QED
      BY <3>2, <3>3
  <2>4. \A u \in h : th2[u].state = "zombie" => th2[u].lasterror \in {0, th2[u].tid}
    BY <1>0, <1>1, <1>2, <1>4, <1>5 DEF Zombies
  <2>5. ASSUME NEW u \in h, NEW v \in h, v = th[u].parent, th2[u].state = "zombie",
               th[v].tid = th[u].creator
        PROVE  <<u, th[u].tid>> \in Entries(th2[v].zombies)
    <3>1. CASE u = t
      BY <1>8, <2>2, <2>5, <3>1
    <3>2. CASE u # t
      <4>1. <<u, th[u].tid>> \in Entries(th[v].zombies)
        BY <1>1, <1>5, <2>5, <3>2 DEF Zombies
      <4> QED
        BY <1>6, <2>2, <4>1
    <3> QED
      BY <3>1, <3>2
  <2>6. \A u \in h :
          LET v == th2[u].parent
          IN  th2[u].state = "zombie" /\ v \in h /\ th2[v].tid = th2[u].creator =>
                  <<u, th2[u].tid>> \in Entries(th2[v].zombies)
    BY <1>1, <1>4, <2>5
  <2> QED
    BY <2>3, <2>4, <2>6 DEF Zombies
<1> QED
  BY <1>3, <1>9, <1>10
\* notify_waiters, when w waits.
Told(th, th2, t, w) ==
    /\ th2 \in Structs /\ SameLinks(th, th2)
    /\ th2[w].state = "ok" /\ th2[w].waiting = None /\ th2[w].waiters = th[w].waiters
    /\ th2[w].lasterror = th[w].lasterror
    /\ th2[t].state = "dead" /\ th2[t].waiters = <<>>
    /\ \A u \in Threads \ {t, w} :
          /\ th2[u].state = th[u].state /\ th2[u].lasterror = th[u].lasterror
          /\ th2[u].waiting = th[u].waiting /\ th2[u].waiters = th[u].waiters
    /\ \A u \in Threads : th2[u].zombies = th[u].zombies

LEMMA ToldFields ==
    ASSUME NEW th \in Structs, NEW t \in Threads, NEW w \in Threads \ {t}, NEW e,
           NEW thd, Ended(th, thd, t, e),
           NEW th2, th2 = [thd EXCEPT ![w].state = "ok", ![w].waiting = None,
                                      ![t].state = "dead", ![t].waiters = <<>>]
    PROVE  Told(th, th2, t, w)
<1> DEFINE b == [thd[w] EXCEPT !.state = "ok", !.waiting = None]
           d == [thd[t] EXCEPT !.state = "dead", !.waiters = <<>>]
<1>1. thd \in Structs /\ DOMAIN thd = Threads /\ thd[t] \in Structures /\ thd[w] \in Structures
  BY DEF Ended, Structs
<1>2. SameLinks(th, thd)
      /\ \A u \in Threads : /\ thd[u].zombies = th[u].zombies
                            /\ thd[u].waiters = th[u].waiters /\ thd[u].waiting = th[u].waiting
  BY DEF Ended
<1>3. \A u \in Threads \ {t} : thd[u].state = th[u].state /\ thd[u].lasterror = th[u].lasterror
  BY DEF Ended
<1>4. th2 = [thd EXCEPT ![w] = b, ![t] = d]
  BY <1>1
<1>5. b \in Structures /\ d \in Structures
  BY <1>1, EmptyQueue DEF Structures, States
<1>6. /\ b.state = "ok" /\ b.waiting = None /\ b.waiters = thd[w].waiters
      /\ b.tid = thd[w].tid /\ b.creator = thd[w].creator
      /\ b.parent = thd[w].parent /\ b.pdx = thd[w].pdx
      /\ b.apd = thd[w].apd /\ b.lthread = thd[w].lthread
      /\ b.zombies = thd[w].zombies /\ b.asked = thd[w].asked
      /\ b.lasterror = thd[w].lasterror
  BY <1>1 DEF Structures
<1>7. /\ d.state = "dead" /\ d.waiters = <<>>
      /\ d.tid = thd[t].tid /\ d.creator = thd[t].creator
      /\ d.parent = thd[t].parent /\ d.pdx = thd[t].pdx
      /\ d.apd = thd[t].apd /\ d.lthread = thd[t].lthread
      /\ d.zombies = thd[t].zombies /\ d.asked = thd[t].asked
  BY <1>1 DEF Structures
<1> HIDE DEF b, d
<1>8. th2 \in Structs
  BY <1>1, <1>4, <1>5 DEF Structs
<1>9. th2[w] = b /\ th2[t] = d /\ \A u \in Threads \ {t, w} : th2[u] = thd[u]
  BY <1>1, <1>4
<1>10. SameLinks(thd, th2)
  BY <1>6, <1>7, <1>9 DEF SameLinks
<1>11. SameLinks(th, th2)
  BY <1>2, <1>10, LinksCompose
<1>12. \A u \in Threads \ {t, w} :
          /\ th2[u].state = th[u].state /\ th2[u].lasterror = th[u].lasterror
          /\ th2[u].waiting = th[u].waiting /\ th2[u].waiters = th[u].waiters
  BY <1>2, <1>3, <1>9
<1>13. \A u \in Threads : th2[u].zombies = th[u].zombies
  <2>1. \A u \in Threads : th2[u].zombies = thd[u].zombies
    BY <1>6, <1>7, <1>9
  <2>2. \A u \in Threads : thd[u].zombies = th[u].zombies
    BY <1>2
  <2> QED
    BY <2>1, <2>2
<1>14. /\ th2[w].state = "ok" /\ th2[w].waiting = None /\ th2[w].waiters = th[w].waiters
       /\ th2[w].lasterror = th[w].lasterror
       /\ th2[t].state = "dead" /\ th2[t].waiters = <<>>
  BY <1>2, <1>3, <1>6, <1>7, <1>9
<1> QED
  BY <1>8, <1>11, <1>12, <1>13, <1>14 DEF Told

\* The waiter is one, and waits for the thread that ends.
LEMMA WaiterFacts ==
    ASSUME NEW th \in Structs, NEW h \in SUBSET Threads, NEW t \in h,
           th[t].waiting = None, NEW rt, Waiting(th, h, rt),
           Len(th[t].waiters) = 1, NEW w, w = th[t].waiters[1].thread
    PROVE  /\ w \in h \ {t} /\ th[w].state = "waiting" /\ th[w].waiting = t
           /\ th[w].asked = th[t].tid
           /\ Members(th[t].waiters) = {w}
<1>1. Members(th[t].waiters) = {w}
  <2>1. th[t].waiters \in Seq(QueueItems)
    BY DEF Structs, Structures
  <2>2. DOMAIN th[t].waiters = {1}
    BY <2>1
  <2> QED
    BY <2>2 DEF Members
<1>2. w \in h /\ th[w].waiting = t /\ th[w].asked = th[t].tid /\ t # None
  BY <1>1, ThreadsAssumption DEF Waiting
<1> QED
  BY <1>1, <1>2 DEF Waiting

LEMMA DiesTold ==
    ASSUME NEW th \in Structs, NEW h \in SUBSET Threads, NEW t \in h,
           th[t].state = "ok", th[t].waiting = None,
           NEW rt, NEW n, Waiting(th, h, rt), Zombies(th, h, n),
           Len(th[t].waiters) = 1, NEW w, w = th[t].waiters[1].thread,
           NEW th2, Told(th, th2, t, w)
    PROVE  SameNames(th, th2) /\ Waiting(th2, h \ {t}, rt) /\ Zombies(th2, h \ {t}, n)
<1>1. /\ w \in h \ {t} /\ th[w].state = "waiting" /\ th[w].waiting = t
      /\ Members(th[t].waiters) = {w}
  BY WaiterFacts
<1>2. t \in Threads /\ h \subseteq Threads /\ None \notin Threads
  BY ThreadsAssumption
<1>3. \A u \in h \ {t, w} :
          /\ th2[u].state = th[u].state /\ th2[u].waiting = th[u].waiting
  BY <1>2 DEF Told
<1>4. \A u \in h \ {t} :
        /\ th2[u].tid = th[u].tid /\ th2[u].creator = th[u].creator
        /\ th2[u].parent = th[u].parent
        /\ th2[u].asked = th[u].asked /\ th2[u].lasterror = th[u].lasterror
        /\ th2[u].waiters = th[u].waiters /\ th2[u].zombies = th[u].zombies
  BY <1>2 DEF Told, SameLinks
<1>5. th2[w].state = "ok" /\ th2[w].waiting = None
  BY DEF Told
<1>6. SameNames(th, th2)
  <2>1. \A u \in Threads : InUse(th2, u) <=> InUse(th, u)
    BY <1>1, <1>2 DEF Told, InUse
  <2> QED
    BY <2>1 DEF Told, SameNames, SameLinks
<1>7. Waiting(th2, h \ {t}, rt)
  <2>1. \A u \in h \ {t} : Alive(th, u) => Alive(th2, u)
    BY <1>3, <1>5 DEF Alive
  <2>2. ASSUME NEW v \in h \ {t, w}, Known(th, h, v) PROVE Known(th2, h \ {t}, v)
    <3>1. th[v].waiting \in h \ {t}
      BY <1>1, <2>2 DEF Known
    <3> QED
      BY <1>3, <1>4, <2>1, <2>2, <3>1 DEF Known
  <2>3. \A v \in h \ {t} :
          IF th2[v].state # "waiting" THEN th2[v].waiting = None
          ELSE th2[v].waiting \in Threads /\ (th2[v].asked \in rt \/ Known(th2, h \ {t}, v))
    <3> SUFFICES ASSUME NEW v \in h \ {t}
                 PROVE  IF th2[v].state # "waiting" THEN th2[v].waiting = None
                        ELSE th2[v].waiting \in Threads
                             /\ (th2[v].asked \in rt \/ Known(th2, h \ {t}, v))
      OBVIOUS
    <3>1. CASE v = w
      BY <1>5, <3>1
    <3>2. CASE v # w
      <4>1. IF th[v].state # "waiting" THEN th[v].waiting = None
            ELSE th[v].waiting \in Threads /\ (th[v].asked \in rt \/ Known(th, h, v))
        BY DEF Waiting
      <4>2. th2[v].state = th[v].state /\ th2[v].waiting = th[v].waiting
            /\ th2[v].asked = th[v].asked
        BY <1>3, <1>4, <3>2
      <4>3. Known(th, h, v) => Known(th2, h \ {t}, v)
        BY <2>2, <3>2
      <4> QED
        BY <4>1, <4>2, <4>3
    <3> QED
      BY <3>1, <3>2
  <2>4. \A u \in h \ {t} : \A v \in Members(th[u].waiters) :
           v \in h \ {t, w} /\ th[v].waiting = u /\ th[v].asked = th[u].tid
    BY <1>1, <1>2 DEF Waiting
  <2>5. \A u \in h \ {t} : \A v \in Members(th2[u].waiters) :
           v \in h \ {t} /\ th2[v].waiting = u /\ th2[v].asked = th2[u].tid
    BY <1>3, <1>4, <2>4
  <2>6. ASSUME NEW u \in Threads PROVE Distinct(th2[u].waiters)
    <3>1. CASE u = t
      BY <3>1, EmptyQueue DEF Told
    <3>2. CASE u # t
      BY <3>2 DEF Told, Waiting
    <3> QED
      BY <3>1, <3>2
  <2> QED
    BY <2>3, <2>5, <2>6 DEF Waiting
<1>8. Zombies(th2, h \ {t}, n)
  <2>1. \A u \in h \ {t} : th2[u].state = "zombie" <=> th[u].state = "zombie"
    BY <1>1, <1>3, <1>5
  <2>2. \A u \in h : th[u].state = "zombie" => u # t
    OBVIOUS
  <2>3. ASSUME NEW p \in h \ {t}, NEW v \in Threads, NEW x \in Tids,
               <<v, x>> \in Entries(th2[p].zombies)
        PROVE  /\ x < n
               /\ v \in h \ {t} /\ th2[v].tid = x => th2[v].state = "zombie" /\ th2[v].parent = p
    <3>1. x < n /\ (v \in h /\ th[v].tid = x => th[v].state = "zombie" /\ th[v].parent = p)
      BY <1>4, <2>3 DEF Zombies
    <3> QED
      BY <1>4, <2>1, <3>1
  <2>4. \A p \in h \ {t} : SingleEntries(th2[p].zombies)
    BY <1>4 DEF Zombies
  <2>5. \A u \in h \ {t} : th2[u].state = "zombie" => th2[u].lasterror \in {0, th2[u].tid}
    BY <1>4, <2>1 DEF Zombies
  <2>6. \A u \in h \ {t} :
          LET p == th2[u].parent
          IN  th2[u].state = "zombie" /\ p \in h \ {t} /\ th2[p].tid = th2[u].creator =>
                  <<u, th2[u].tid>> \in Entries(th2[p].zombies)
    BY <1>4, <2>1 DEF Zombies
  <2> QED
    BY <2>3, <2>4, <2>5, <2>6 DEF Zombies
<1> QED
  BY <1>6, <1>7, <1>8
L4States == {"run", "wait", "pdx", "fault", "returned", "ended"}

Stops == {"no", "assertion", "loop", "memory", "late", "twice", "astray"}

Answers == [asked : Tids, of : Tids, status : Tids]

LEMMA TypeFacts ==
    TypeOK <=> /\ thread \in Structs /\ hash \subseteq Threads
               /\ pool \in [Apds -> Seq(Threads)]
               /\ users \in [Apds -> 0 .. Cardinality(Threads)]
               /\ slot \in [L4Ids -> Threads \cup {None}] /\ l4 \in [L4Ids -> L4States]
               /\ fault \in Threads \cup {None} /\ next_tid \in 1 .. MaxTid + 1
               /\ returned \subseteq Tids
               /\ answer \in Answers /\ stop \in Stops
  BY DEF TypeOK, Structs, L4States, Stops, Answers

LEMMA NoAnswerTrue ==
    NoAnswer \in Answers /\ (answer' = NoAnswer => AnswersTrue')
<1>1. NoAnswer \in Answers
  BY ThreadsAssumption DEF NoAnswer, Answers, Tids
<1>2. answer' = NoAnswer => AnswersTrue'
  BY DEF NoAnswer, AnswersTrue, NullTid
<1> QED
  BY <1>1, <1>2

\* The variables that notify_waiters changes, typed.
NotifiedTypes ==
    /\ thread' \in Structs /\ hash' \in SUBSET Threads
    /\ pool' \in [Apds -> Seq(Threads)] /\ users' \in [Apds -> 0 .. Cardinality(Threads)]
    /\ l4' \in [L4Ids -> L4States] /\ stop' \in Stops /\ answer' \in Answers
    /\ AnswersTrue'

\* What holds when thread t has ended; of the L4 threads, only one that runs its waiter
\* has changed.
NotifiedWell(t) ==
    /\ SameNames(thread, thread')
    /\ Placed(thread', hash', pool') /\ Counted(thread', hash', users')
    /\ Waiting(thread', hash', returned) /\ Zombies(thread', hash', next_tid)
    /\ Gone(thread', hash', next_tid, returned)
    /\ \A u \in hash \ {t} : u \in hash' /\ (thread[u].state = "ok" => thread'[u].state = "ok")
    /\ \A i \in L4Ids : i # Id(t) =>
          \/ l4'[i] = l4[i]
          \/ l4'[i] = "run" /\ slot[i] \in hash' /\ thread'[slot[i]].state = "ok"

LEMMA SameCompose ==
    ASSUME NEW a, NEW b, NEW c, SameNames(a, b), SameNames(b, c)
    PROVE  SameNames(a, c)
  BY DEF SameNames

LEMMA ReleaseFacts ==
    ASSUME TypeOK, Kept, NEW t \in hash, Release(t), NEW th2, SameNames(thread, th2)
    PROVE  /\ hash' = hash \ {t} /\ hash' \in SUBSET Threads
           /\ pool' \in [Apds -> Seq(Threads)]
           /\ users' \in [Apds -> 0 .. Cardinality(Threads)]
           /\ Placed(th2, hash', pool') /\ Counted(th2, hash', users')
<1> DEFINE h2 == hash \ {t}
<1>1. /\ t \in Threads /\ hash \in SUBSET Threads /\ h2 \in SUBSET Threads
      /\ thread \in Structs /\ pool \in [Apds -> Seq(Threads)]
      /\ users \in [Apds -> 0 .. Cardinality(Threads)]
      /\ thread[t].apd \in Apds
  BY TypeFacts DEF Structs, Structures
<1>2. Placed(thread, hash, pool) /\ Counted(thread, hash, users)
  BY DEF Kept
<1>3. /\ hash' = h2
      /\ pool' = [pool EXCEPT ![thread[t].apd] = <<t>> \o @]
      /\ users' = [users EXCEPT ![thread[t].apd] = @ - 1]
  BY DEF Release
<1>4. Placed(thread, hash \ {t}, pool') /\ pool' \in [Apds -> Seq(Threads)]
  <2>1. pool' = [pool EXCEPT ![thread[t].apd] = <<t>> \o @]
    BY <1>3
  <2> QED
    BY <1>1, <1>2, <2>1, PlacedReleased
<1>5. /\ Counted(thread, hash \ {t}, users')
      /\ users' \in [Apds -> 0 .. Cardinality(Threads)]
  <2>1. users' = [users EXCEPT ![thread[t].apd] = @ - 1]
    BY <1>3
  <2> QED
    BY <1>1, <1>2, <2>1, CountedLess
<1>6. Placed(thread, h2, pool') /\ Counted(thread, h2, users')
  BY <1>4, <1>5
<1> HIDE DEF h2
<1>7. Placed(th2, h2, pool') /\ Counted(th2, h2, users')
  BY <1>1, <1>4, <1>5, <1>6, PlacedKept, CountedKept
<1>8. Placed(th2, hash', pool') /\ Counted(th2, hash', users')
  BY <1>3, <1>7
<1> QED
  BY <1>1, <1>3, <1>4, <1>5, <1>8 DEF h2

LEMMA NotifyFacts ==
    ASSUME TypeOK, Kept, stop = "no", NEW t \in hash, slot[Id(t)] = t,
           NEW th \in Structs, SameNames(thread, th),
           th[t].state = "ok", th[t].waiting = None,
           \A u \in Threads \ {t} : th[u].state = thread[u].state,
           Waiting(th, hash, returned), Zombies(th, hash, next_tid),
           NEW e \in {0, th[t].tid}, NEW thd, Ended(th, thd, t, e),
           NEW ls \in [L4Ids -> L4States], \A i \in L4Ids : i # Id(t) => ls[i] = l4[i],
           NotifyWaiters(thd, ls, t)
    PROVE  /\ NotifiedTypes
           /\ stop' = "no" => NotifiedWell(t) /\ l4'[Id(t)] = ls[Id(t)]
<1>1. /\ t \in Threads /\ hash \in SUBSET Threads /\ None \notin Threads
      /\ thread \in Structs /\ pool \in [Apds -> Seq(Threads)]
      /\ users \in [Apds -> 0 .. Cardinality(Threads)] /\ stop \in Stops
      /\ slot \in [L4Ids -> Threads \cup {None}] /\ l4 \in [L4Ids -> L4States]
  BY TypeFacts, ThreadsAssumption
<1>2. Placed(thread, hash, pool) /\ Counted(thread, hash, users)
  BY DEF Kept
<1>3. /\ thd \in Structs /\ thd[t].waiters = th[t].waiters /\ thd[t].lasterror = e
      /\ thd[t].parent = th[t].parent /\ thd[t].tid = th[t].tid
      /\ \A u \in Threads : thd[u].asked = th[u].asked
  BY <1>1 DEF Ended, SameLinks
<1>4. CASE th[t].waiters = <<>>
  <2>1. NotifyNobody(thd, ls, t)
    <3>1. Len(<<>>) # 1
      OBVIOUS
    <3> QED
      BY <1>3, <1>4, <3>1 DEF NotifyWaiters
  <2>2. /\ thread' = IF thd[t].parent = None THEN thd
                     ELSE [thd EXCEPT ![thd[t].parent].zombies = Append(@, Item(t, thd[t].tid))]
        /\ l4' = ls /\ answer' = NoAnswer
        /\ hash' = hash /\ pool' = pool /\ users' = users /\ stop' = stop
    BY <2>1 DEF NotifyNobody
  <2>3. Unwaited(th, thread', t, th[t].parent, e)
    BY <1>1, <2>2, UnwaitedFields
  <2>4. SameNames(th, thread') /\ Waiting(thread', hash, returned) /\ Zombies(thread', hash, next_tid)
        /\ \A u \in Threads \ {t} : thread'[u].state = th[u].state
    <3>1. Names(th, next_tid)
      BY NamesKept DEF Kept
    <3>2. hash \in SUBSET Threads /\ EndsUnwaited(th, thread', t, e)
      BY <1>1, <1>4, <2>3 DEF EndsUnwaited
    <3>3. SameNames(th, thread') /\ Waiting(thread', hash, returned)
          /\ Zombies(thread', hash, next_tid)
      BY <3>1, <3>2, DiesUnwaited
    <3> QED
      BY <2>3, <3>3 DEF Unwaited
  <2>5. SameNames(thread, thread') /\ thread' \in Structs
    BY <2>3, <2>4, SameCompose DEF Unwaited
  <2>6. Placed(thread', hash', pool') /\ Counted(thread', hash', users')
    BY <1>1, <1>2, <2>2, <2>5, PlacedKept, CountedKept
  <2>7. \A u \in hash \ {t} : u \in hash' /\ (thread[u].state = "ok" => thread'[u].state = "ok")
    BY <1>1, <2>2, <2>4
  <2>8. NotifiedTypes
    BY <1>1, <2>2, <2>5, NoAnswerTrue DEF NotifiedTypes
  <2>9. NotifiedWell(t)
    <3>1. Gone(thread', hash', next_tid, returned)
      BY <1>1, <2>2, <2>5, GoneKept DEF Kept
    <3> QED
      BY <2>2, <2>4, <2>5, <2>6, <2>7, <3>1 DEF NotifiedWell
  <2> QED
    BY <2>2, <2>8, <2>9
<1>5. CASE Len(th[t].waiters) = 1 /\ ~th[t].waiters[1].stale
  <2>0. PICK w : w = th[t].waiters[1].thread
    OBVIOUS
  <2>1. NotifyWaiter(thd, ls, t, w)
    <3>1. th[t].waiters # <<>> /\ ~(Len(th[t].waiters) > 1)
      BY <1>5
    <3> QED
      BY <1>3, <1>5, <2>0, <3>1 DEF NotifyWaiters
  <2>2. /\ thread' = [thd EXCEPT ![w].state = "ok", ![w].waiting = None,
                                 ![t].state = "dead", ![t].waiters = <<>>]
        /\ answer' = [asked |-> thd[w].asked, of |-> thd[t].tid, status |-> thd[t].lasterror]
        /\ l4' = [ls EXCEPT ![Id(w)] = "run"]
        /\ stop' = IF slot[Id(w)] = w THEN stop ELSE "astray"
    BY <2>1 DEF NotifyWaiter
  <2>3. /\ w \in hash \ {t} /\ th[w].state = "waiting" /\ th[w].asked = th[t].tid
    <3>1. hash \in SUBSET Threads /\ th[t].waiting = None /\ Waiting(th, hash, returned)
          /\ Len(th[t].waiters) = 1
      BY <1>1, <1>5
    <3> QED
      BY <2>0, <3>1, WaiterFacts
  <2>4. Told(th, thread', t, w)
    BY <1>1, <2>2, <2>3, ToldFields
  <2>5. SameNames(th, thread') /\ Waiting(thread', hash \ {t}, returned) /\ Zombies(thread', hash \ {t}, next_tid)
    BY <1>1, <1>5, <2>0, <2>4, DiesTold
  <2>6. SameNames(thread, thread') /\ thread' \in Structs
    BY <2>4, <2>5, SameCompose DEF Told
  <2>7. Release(t)
    BY <2>1 DEF NotifyWaiter
  <2>8. /\ hash' \in SUBSET Threads /\ pool' \in [Apds -> Seq(Threads)]
        /\ users' \in [Apds -> 0 .. Cardinality(Threads)]
        /\ Placed(thread', hash', pool') /\ Counted(thread', hash', users')
    BY <2>6, <2>7, ReleaseFacts
  <2>9. hash' = hash \ {t}
    BY <2>7 DEF Release
  <2>10. Waiting(thread', hash', returned) /\ Zombies(thread', hash', next_tid)
    BY <2>5, <2>9
  <2>11. answer' = [asked |-> th[t].tid, of |-> th[t].tid, status |-> e]
    BY <1>1, <1>3, <2>2, <2>3
  <2>12. th[t].tid \in Tids /\ e \in Tids
    <3>1. th[t].tid \in Tids
      BY <1>1 DEF Structs, Structures
    <3>2. 0 \in Tids
      BY ThreadsAssumption DEF Tids
    <3> QED
      BY <3>1, <3>2
  <2>13. answer' \in Answers /\ AnswersTrue'
    BY <2>11, <2>12 DEF Answers, AnswersTrue
  <2>14. l4' \in [L4Ids -> L4States]
    BY <2>2 DEF L4States
  <2>15. NotifiedTypes
    BY <1>1, <2>2, <2>6, <2>8, <2>13, <2>14 DEF NotifiedTypes, Stops
  <2>16. ASSUME stop' = "no"
         PROVE  NotifiedWell(t) /\ l4'[Id(t)] = ls[Id(t)]
    <3>1. slot[Id(w)] = w
      BY <2>2, <2>16
    <3>2. Id(w) # Id(t)
      BY <2>3, <3>1
    <3>3. \A u \in hash \ {t} :
             u \in hash' /\ (thread[u].state = "ok" => thread'[u].state = "ok")
      BY <1>1, <2>4, <2>9 DEF Told
    <3>4. w \in hash' /\ thread'[w].state = "ok"
      BY <2>3, <2>4, <2>9 DEF Told
    <3>5. \A i \in L4Ids : i # Id(t) =>
             \/ l4'[i] = l4[i]
             \/ l4'[i] = "run" /\ slot[i] \in hash' /\ thread'[slot[i]].state = "ok"
      <4> SUFFICES ASSUME NEW i \in L4Ids, i # Id(t), l4'[i] # l4[i]
                   PROVE  l4'[i] = "run" /\ slot[i] \in hash' /\ thread'[slot[i]].state = "ok"
        OBVIOUS
      <4>1. i = Id(w) /\ l4'[i] = "run"
        BY <2>2
      <4> QED
        BY <3>1, <3>4, <4>1
    <3>6. l4'[Id(t)] = ls[Id(t)]
      BY <2>2, <3>2
    <3>7. Gone(thread', hash', next_tid, returned)
      BY <1>1, <2>6, <2>9, GoneKept DEF Kept
    <3> QED
      BY <2>6, <2>8, <2>10, <3>3, <3>5, <3>6, <3>7 DEF NotifiedWell
  <2> QED
    BY <2>15, <2>16
<1>6. CASE th[t].waiters # <<>> /\ (Len(th[t].waiters) # 1 \/ th[t].waiters[1].stale)
  <2>1. NotifyBreaks(thd, ls)
    BY <1>3, <1>6 DEF NotifyWaiters
  <2>2. NotifiedTypes /\ stop' = "memory"
    BY <1>1, <1>3, <2>1, NoAnswerTrue DEF NotifyBreaks, NotifiedTypes, Stops
  <2> QED
    BY <2>2
<1> QED
  BY <1>4, <1>5, <1>6
LEMMA HaltsKeeps ==
    ASSUME TypeOK, NEW why \in Stops \ {"no"}, Halts(why)
    PROVE  IInv'
<1>1. TypeOK'
  BY NoAnswerTrue DEF Halts, TypeOK, Stops, Answers
<1>2. AnswersTrue' /\ stop' # "no"
  BY NoAnswerTrue DEF Halts
<1> QED
  BY <1>1, <1>2 DEF IInv

LEMMA DeleteKeeps ==
    ASSUME TypeOK, Kept, stop = "no", NEW t \in hash, Alive(thread, t),
           NEW how \in {"ended", "returned"}, Delete(t, how)
    PROVE  IInv'
<1> DEFINE th == LeftQueue(t)
           e == thread[t].tid
           thd == [th EXCEPT ![t].state = "zombie", ![t].lasterror = e]
           ls == [l4 EXCEPT ![Id(t)] = how]
<1>1. /\ t \in Threads /\ Id(t) \in L4Ids /\ slot[Id(t)] = t
      /\ slot' = [slot EXCEPT ![Id(t)] = None]
      /\ NotifyWaiters(thd, ls, t)
      /\ fault' = fault /\ next_tid' = next_tid /\ returned' = returned
  BY LiveIds DEF Delete
<1>2. /\ th \in Structs /\ SameNames(thread, th)
      /\ th[t].state = "ok" /\ th[t].waiting = None
      /\ \A u \in Threads \ {t} : th[u].state = thread[u].state
      /\ Waiting(th, hash, returned) /\ Zombies(th, hash, next_tid)
  BY LeftFacts
<1>3. e \in {0, th[t].tid}
  BY <1>1, <1>2 DEF SameNames
<1>4. Ended(th, thd, t, e)
  <2> HIDE DEF th, e
  <2> QED
    BY <1>1, <1>2, <1>3, EndedFields
<1>5. /\ slot \in [L4Ids -> Threads \cup {None}] /\ l4 \in [L4Ids -> L4States]
      /\ None \notin Threads
  BY TypeFacts, ThreadsAssumption
<1>6. ls \in [L4Ids -> L4States] /\ ls[Id(t)] = how /\ \A i \in L4Ids : i # Id(t) => ls[i] = l4[i]
  BY <1>1, <1>5 DEF L4States
<1> HIDE DEF th, thd, ls, e
<1>7. NotifiedTypes /\ (stop' = "no" => NotifiedWell(t) /\ l4'[Id(t)] = how)
  <2>1. NotifiedTypes /\ (stop' = "no" => NotifiedWell(t) /\ l4'[Id(t)] = ls[Id(t)])
    BY <1>1, <1>2, <1>3, <1>4, <1>6, NotifyFacts
  <2> QED
    BY <1>6, <2>1
<1>8. TypeOK' /\ AnswersTrue'
  <2>1. slot' \in [L4Ids -> Threads \cup {None}]
    BY <1>1, <1>5
  <2>2. /\ fault' \in Threads \cup {None} /\ next_tid' \in 1 .. MaxTid + 1
        /\ returned' \subseteq Tids
    BY <1>1 DEF TypeOK
  <2> QED
    BY <1>7, <2>1, <2>2 DEF NotifiedTypes, TypeOK, Structs, L4States, Stops, Answers
<1>9. ASSUME stop' = "no" PROVE Kept'
  <2>1. Names(thread', next_tid')
    <3>1. SameNames(thread, thread') /\ Names(thread, next_tid)
      BY <1>7, <1>9 DEF NotifiedWell, Kept
    <3> QED
      BY <1>1, <3>1, NamesKept
  <2>2. L4s(thread', hash', slot', l4', fault')
    <3>1. \A i \in L4Ids : slot'[i] # None => i # Id(t) /\ slot'[i] = slot[i]
      BY <1>1, <1>5
    <3>2. SameNames(thread, thread') /\ l4'[Id(t)] = how
          /\ \A u \in hash \ {t} :
                u \in hash' /\ (thread[u].state = "ok" => thread'[u].state = "ok")
      BY <1>7, <1>9 DEF NotifiedWell
    <3>3. \A i \in L4Ids : i # Id(t) =>
             \/ l4'[i] = l4[i]
             \/ l4'[i] = "run" /\ slot[i] \in hash' /\ thread'[slot[i]].state = "ok"
      BY <1>7, <1>9 DEF NotifiedWell
    <3>4. L4s(thread, hash, slot, l4, fault)
      BY DEF Kept
    <3>5. \A i \in L4Ids : slot'[i] # None => <<thread'[slot'[i]].apd, thread'[slot'[i]].lthread>> = i
      <4> SUFFICES ASSUME NEW i \in L4Ids, slot'[i] # None
                   PROVE  <<thread'[slot'[i]].apd, thread'[slot'[i]].lthread>> = i
        OBVIOUS
      <4>1. slot'[i] = slot[i] /\ slot[i] \in Threads
        BY <1>5, <3>1
      <4>2. <<thread[slot[i]].apd, thread[slot[i]].lthread>> = i
        BY <3>1, <3>4 DEF L4s
      <4> QED
        BY <3>2, <4>1, <4>2 DEF SameNames
    <3>6. \A i \in L4Ids : slot'[i] # None /\ l4'[i] \in {"run", "pdx"} =>
             slot'[i] \in hash' /\ thread'[slot'[i]].state = "ok"
      <4> SUFFICES ASSUME NEW i \in L4Ids, slot'[i] # None, l4'[i] \in {"run", "pdx"}
                   PROVE  slot'[i] \in hash' /\ thread'[slot'[i]].state = "ok"
        OBVIOUS
      <4>1. slot'[i] = slot[i] /\ i # Id(t) /\ slot[i] # None
        BY <3>1
      <4>2. CASE l4'[i] = l4[i]
        <5>1. slot[i] \in hash /\ thread[slot[i]].state = "ok"
          BY <3>4, <4>1, <4>2 DEF L4s
        <5>2. slot[i] # t
          BY <3>4, <4>1 DEF L4s, Id
        <5> QED
          BY <3>2, <4>1, <5>1, <5>2
      <4> QED
        BY <3>3, <4>1, <4>2
    <3>7. \A i \in L4Ids : fault' # None /\ <<thread'[fault'].apd, thread'[fault'].lthread>> = i
                           /\ l4'[i] = "fault" =>
             slot'[i] = fault' /\ fault' \in hash' /\ thread'[fault'].state = "ok"
      <4> SUFFICES ASSUME NEW i \in L4Ids, fault # None, l4'[i] = "fault",
                          <<thread'[fault].apd, thread'[fault].lthread>> = i
                   PROVE  slot'[i] = fault /\ fault \in hash' /\ thread'[fault].state = "ok"
        BY <1>1
      <4>1. fault \in Threads
        BY TypeFacts
      <4>2. <<thread[fault].apd, thread[fault].lthread>> = i
        BY <3>2, <4>1 DEF SameNames
      <4>3. i # Id(t)
        BY <3>2
      <4>4. l4[i] = "fault"
        BY <3>3, <4>3
      <4>5. slot[i] = fault /\ fault \in hash /\ thread[fault].state = "ok"
        BY <3>4, <4>2, <4>4 DEF L4s
      <4>6. fault # t
        BY <4>2, <4>3 DEF Id
      <4>7. slot'[i] = slot[i]
        BY <1>1, <1>5, <4>3
      <4> QED
        BY <3>2, <4>5, <4>6, <4>7
    <3> QED
      BY <3>5, <3>6, <3>7 DEF L4s
  <2>3. FaultKnown(thread', fault')
    BY <1>1, <1>7, <1>9, KnownKept DEF NotifiedWell, Kept
  <2> QED
    BY <1>1, <1>7, <1>9, <2>1, <2>2, <2>3 DEF NotifiedWell, Kept
<1> QED
  BY <1>8, <1>9 DEF IInv

\* A KILL handler runs.
LEMMA HandledKeeps ==
    ASSUME TypeOK, Kept, stop = "no", NEW t \in hash, Alive(thread, t), DeleteHandled(t)
    PROVE  IInv'
<1> DEFINE th == LeftQueue(t)
<1>1. /\ t \in Threads /\ Id(t) \in L4Ids
      /\ thread' = th
      /\ l4' = [l4 EXCEPT ![Id(t)] = "run"]
      /\ stop' = IF slot[Id(t)] = t THEN stop ELSE "astray"
      /\ answer' = NoAnswer
      /\ hash' = hash /\ pool' = pool /\ users' = users /\ slot' = slot /\ fault' = fault
      /\ next_tid' = next_tid /\ returned' = returned
  BY LiveIds DEF DeleteHandled
<1>2. /\ th \in Structs /\ SameNames(thread, th)
      /\ th[t].state = "ok" /\ th[t].waiting = None
      /\ \A u \in Threads \ {t} : th[u].state = thread[u].state
      /\ Waiting(th, hash, returned) /\ Zombies(th, hash, next_tid)
  BY LeftFacts
<1> HIDE DEF th
<1>3. /\ slot \in [L4Ids -> Threads \cup {None}] /\ l4 \in [L4Ids -> L4States]
      /\ hash \in SUBSET Threads /\ pool \in [Apds -> Seq(Threads)]
      /\ None \notin Threads /\ fault \in Threads \cup {None}
  BY TypeFacts, ThreadsAssumption
<1>4. TypeOK' /\ AnswersTrue'
  <2>1. l4' \in [L4Ids -> L4States] /\ stop' \in Stops
    BY <1>1, <1>3 DEF L4States, Stops
  <2>2. answer' \in Answers /\ AnswersTrue'
    BY <1>1, NoAnswerTrue
  <2> QED
    BY <1>1, <1>2, <1>3, <2>1, <2>2 DEF TypeOK, Structs, L4States, Stops, Answers
<1>5. ASSUME stop' = "no" PROVE Kept'
  <2>1. /\ Names(th, next_tid) /\ Placed(th, hash, pool) /\ Counted(th, hash, users)
        /\ Gone(th, hash, next_tid, returned)
    BY <1>2, <1>3, NamesKept, PlacedKept, CountedKept, GoneKept DEF Kept
  <2>2. slot[Id(t)] = t
    BY <1>1, <1>5
  <2>3. L4s(thread, hash, slot, l4, fault)
    BY DEF Kept
  <2>4. \A u \in Threads : th[u].apd = thread[u].apd /\ th[u].lthread = thread[u].lthread
    BY <1>2 DEF SameNames
  <2>5. \A u \in hash : thread[u].state = "ok" => th[u].state = "ok"
    BY <1>2, <1>3
  <2>6. l4'[Id(t)] = "run" /\ \A i \in L4Ids : i # Id(t) => l4'[i] = l4[i]
    BY <1>1, <1>3
  <2>7. L4s(th, hash, slot, l4', fault)
    <3>1. \A i \in L4Ids : slot[i] # None => <<th[slot[i]].apd, th[slot[i]].lthread>> = i
      <4> SUFFICES ASSUME NEW i \in L4Ids, slot[i] # None
                   PROVE  <<th[slot[i]].apd, th[slot[i]].lthread>> = i
        OBVIOUS
      <4>1. slot[i] \in Threads /\ <<thread[slot[i]].apd, thread[slot[i]].lthread>> = i
        BY <1>3, <2>3 DEF L4s
      <4> QED
        BY <2>4, <4>1
    <3>2. \A i \in L4Ids : slot[i] # None /\ l4'[i] \in {"run", "pdx"} =>
             slot[i] \in hash /\ th[slot[i]].state = "ok"
      <4> SUFFICES ASSUME NEW i \in L4Ids, slot[i] # None, l4'[i] \in {"run", "pdx"}
                   PROVE  slot[i] \in hash /\ th[slot[i]].state = "ok"
        OBVIOUS
      <4>1. CASE i = Id(t)
        BY <1>2, <2>2, <4>1
      <4>2. CASE i # Id(t)
        <5>1. slot[i] \in hash /\ thread[slot[i]].state = "ok"
          BY <2>3, <2>6, <4>2 DEF L4s
        <5> QED
          BY <2>5, <5>1
      <4> QED
        BY <4>1, <4>2
    <3>3. \A i \in L4Ids : fault # None /\ <<th[fault].apd, th[fault].lthread>> = i
                           /\ l4'[i] = "fault" =>
             slot[i] = fault /\ fault \in hash /\ th[fault].state = "ok"
      <4> SUFFICES ASSUME NEW i \in L4Ids, fault # None, l4'[i] = "fault",
                          <<th[fault].apd, th[fault].lthread>> = i
                   PROVE  slot[i] = fault /\ fault \in hash /\ th[fault].state = "ok"
        OBVIOUS
      <4>1. <<thread[fault].apd, thread[fault].lthread>> = i /\ l4[i] = "fault"
        BY <1>3, <2>4, <2>6
      <4>2. slot[i] = fault /\ fault \in hash /\ thread[fault].state = "ok"
        BY <2>3, <4>1 DEF L4s
      <4> QED
        BY <2>5, <4>2
    <3> QED
      BY <3>1, <3>2, <3>3 DEF L4s
  <2>8. FaultKnown(th, fault)
    BY <1>2, KnownKept DEF Kept
  <2> QED
    BY <1>1, <1>2, <2>1, <2>7, <2>8 DEF Kept
<1> QED
  BY <1>4, <1>5 DEF IInv
LEMMA ThreadDeleteKeeps ==
    ASSUME TypeOK, stop = "no" => Kept, NEW c \in Threads, NEW t \in Threads, ThreadDelete(c, t)
    PROVE  IInv'
<1>1. stop = "no" /\ t \in hash /\ ~Dead(t)
  BY DEF ThreadDelete, Calls, Finds
<1>2. Alive(thread, t)
  <2>1. InUse(thread, t) /\ thread[t].state \in States
    BY <1>1, LiveIds DEF TypeOK, Structures
  <2> QED
    BY <1>1, <2>1 DEF Alive, Dead, States, InUse
<1>3. CASE Delete(t, "ended")
  BY <1>1, <1>2, <1>3, DeleteKeeps
<1>4. CASE DeleteHalts(t) \/ DeleteBreaks(t)
  BY <1>4, HaltsKeeps DEF DeleteHalts, DeleteBreaks, Stops
<1>5. CASE DeleteHandled(t)
  BY <1>1, <1>2, <1>5, HandledKeeps
<1> QED
  BY <1>3, <1>4, <1>5 DEF ThreadDelete

LEMMA ThreadReturnKeeps ==
    ASSUME TypeOK, stop = "no" => Kept, NEW c \in Threads, ThreadReturn(c)
    PROVE  IInv'
<1>1. stop = "no" /\ Calls(c)
  BY DEF ThreadReturn, Calls
<1>2. c \in hash /\ Alive(thread, c)
  BY <1>1, CallerFacts DEF Alive
<1> DEFINE how == IF thread[c].apd = PdxApd THEN "returned" ELSE "ended"
<1>3. how \in {"ended", "returned"}
  OBVIOUS
<1>4. Delete(c, how) \/ DeleteHandled(c)
  BY DEF ThreadReturn
<1> HIDE DEF how
<1> QED
  BY <1>1, <1>2, <1>3, <1>4, DeleteKeeps, HandledKeeps

\* A zombie is answered and released.  The reaper's queue keeps the others; other queues
\* may keep the zombie, with a tid that no thread has any more.
LEMMA ReapKeeps ==
    ASSUME TypeOK, Kept, stop = "no", NEW c \in hash, NEW t \in hash,
           thread[t].state = "zombie", thread[c].state = "ok",
           NEW q \in Seq(QueueItems), SingleEntries(q), Entries(q) \subseteq Entries(thread[c].zombies),
           \A u \in Threads \ {t} : \A x \in Tids :
              <<u, x>> \in Entries(thread[c].zombies) => <<u, x>> \in Entries(q),
           thread' = [thread EXCEPT ![c].zombies = q], Release(t),
           answer' \in Answers, AnswersTrue', stop' \in Stops,
           UNCHANGED <<slot, l4, fault, next_tid, returned>>
    PROVE  IInv'
<1> DEFINE d == [thread[c] EXCEPT !.zombies = q]
<1>1. /\ c \in Threads /\ t \in Threads /\ hash \subseteq Threads /\ c # t
      /\ thread \in Structs /\ DOMAIN thread = Threads /\ thread[c] \in Structures
      /\ slot \in [L4Ids -> Threads \cup {None}] /\ fault \in Threads \cup {None}
      /\ None \notin Threads
  BY TypeFacts, ThreadsAssumption DEF Structs
<1>2. thread' = [thread EXCEPT ![c] = d] /\ d \in Structures
  BY <1>1 DEF Structures
<1>3. /\ d.tid = thread[c].tid /\ d.creator = thread[c].creator
      /\ d.parent = thread[c].parent /\ d.pdx = thread[c].pdx
      /\ d.apd = thread[c].apd /\ d.lthread = thread[c].lthread
      /\ d.waiters = thread[c].waiters /\ d.asked = thread[c].asked
      /\ d.waiting = thread[c].waiting /\ d.zombies = q
      /\ d.state = thread[c].state /\ d.lasterror = thread[c].lasterror
  BY <1>1 DEF Structures
<1> HIDE DEF d
<1>4. thread' \in Structs
  BY <1>1, <1>2 DEF Structs
<1>5. thread'[c] = d /\ \A u \in Threads \ {c} : thread'[u] = thread[u]
  BY <1>1, <1>2
<1>6. \A u \in Threads :
        /\ thread'[u].tid = thread[u].tid /\ thread'[u].creator = thread[u].creator
        /\ thread'[u].parent = thread[u].parent /\ thread'[u].pdx = thread[u].pdx
        /\ thread'[u].apd = thread[u].apd /\ thread'[u].lthread = thread[u].lthread
        /\ thread'[u].waiters = thread[u].waiters /\ thread'[u].asked = thread[u].asked
        /\ thread'[u].waiting = thread[u].waiting
        /\ thread'[u].state = thread[u].state /\ thread'[u].lasterror = thread[u].lasterror
  BY <1>3, <1>5
<1>7. thread'[c].zombies = q /\ \A u \in Threads \ {c} : thread'[u].zombies = thread[u].zombies
  BY <1>3, <1>5
<1>8. SameNames(thread, thread')
  BY <1>6 DEF SameNames, InUse
<1>9. /\ hash' = hash \ {t} /\ hash' \in SUBSET Threads
      /\ pool' \in [Apds -> Seq(Threads)]
      /\ users' \in [Apds -> 0 .. Cardinality(Threads)]
      /\ Placed(thread', hash', pool') /\ Counted(thread', hash', users')
  BY <1>8, ReleaseFacts
<1>10. TypeOK'
  BY <1>4, <1>9 DEF TypeOK, Structs, Answers, Stops
<1>11. Names(thread', next_tid')
  BY <1>8, NamesKept DEF Kept
<1>12. Waiting(thread, hash, returned) /\ Zombies(thread, hash, next_tid) /\ L4s(thread, hash, slot, l4, fault)
  BY DEF Kept
<1>13. L4s(thread', hash', slot', l4', fault')
  <2>1. \A i \in L4Ids : slot[i] # None =>
           <<thread'[slot[i]].apd, thread'[slot[i]].lthread>> = i
    <3> SUFFICES ASSUME NEW i \in L4Ids, slot[i] # None
                 PROVE  <<thread'[slot[i]].apd, thread'[slot[i]].lthread>> = i
      OBVIOUS
    <3>1. slot[i] \in Threads /\ <<thread[slot[i]].apd, thread[slot[i]].lthread>> = i
      BY <1>1, <1>12 DEF L4s
    <3> QED
      BY <1>6, <3>1
  <2>2. \A u \in hash : thread[u].state = "ok" => u \in hash' /\ thread'[u].state = "ok"
    BY <1>1, <1>6, <1>9
  <2>3. \A i \in L4Ids : slot[i] # None /\ l4[i] \in {"run", "pdx"} =>
           slot[i] \in hash' /\ thread'[slot[i]].state = "ok"
    BY <1>12, <2>2 DEF L4s
  <2>4. \A i \in L4Ids : fault # None /\ <<thread'[fault].apd, thread'[fault].lthread>> = i
                         /\ l4[i] = "fault" =>
           slot[i] = fault /\ fault \in hash' /\ thread'[fault].state = "ok"
    <3> SUFFICES ASSUME NEW i \in L4Ids, fault # None, l4[i] = "fault",
                        <<thread'[fault].apd, thread'[fault].lthread>> = i
                 PROVE  slot[i] = fault /\ fault \in hash' /\ thread'[fault].state = "ok"
      OBVIOUS
    <3>1. <<thread[fault].apd, thread[fault].lthread>> = i
      BY <1>1, <1>6
    <3>2. slot[i] = fault /\ fault \in hash /\ thread[fault].state = "ok"
      BY <1>12, <3>1 DEF L4s
    <3> QED
      BY <2>2, <3>2
  <2> QED
    BY <2>1, <2>3, <2>4 DEF L4s
<1>14. Waiting(thread', hash \ {t}, returned)
  <2>1. ASSUME NEW w \in hash \ {t}, Known(thread, hash, w) PROVE Known(thread', hash \ {t}, w)
    <3>1. thread[w].waiting \in hash \ {t}
      BY <2>1 DEF Known, Alive
    <3> QED
      BY <1>1, <1>6, <2>1, <3>1 DEF Known, Alive
  <2>2. \A w \in hash \ {t} :
          IF thread'[w].state # "waiting" THEN thread'[w].waiting = None
          ELSE thread'[w].waiting \in Threads
               /\ (thread'[w].asked \in returned \/ Known(thread', hash \ {t}, w))
    <3> SUFFICES ASSUME NEW w \in hash \ {t}
                 PROVE  IF thread'[w].state # "waiting" THEN thread'[w].waiting = None
                        ELSE thread'[w].waiting \in Threads
                             /\ (thread'[w].asked \in returned
                                 \/ Known(thread', hash \ {t}, w))
      OBVIOUS
    <3>1. IF thread[w].state # "waiting" THEN thread[w].waiting = None
          ELSE thread[w].waiting \in Threads
               /\ (thread[w].asked \in returned \/ Known(thread, hash, w))
      BY <1>12 DEF Waiting
    <3>2. Known(thread, hash, w) => Known(thread', hash \ {t}, w)
      BY <2>1
    <3> QED
      BY <1>1, <1>6, <3>1, <3>2
  <2>3. ASSUME NEW u \in hash \ {t}, NEW w \in Members(thread'[u].waiters)
        PROVE  w \in hash \ {t} /\ thread'[w].waiting = u /\ thread'[w].asked = thread'[u].tid
    <3>1. w \in Members(thread[u].waiters) /\ u # None
      BY <1>1, <1>6, <2>3
    <3>2. w \in hash /\ thread[w].waiting = u /\ thread[w].asked = thread[u].tid
      BY <1>12, <3>1 DEF Waiting
    <3>3. thread[w].state = "waiting"
      BY <1>12, <3>1, <3>2 DEF Waiting
    <3> QED
      BY <1>1, <1>6, <3>2, <3>3
  <2>4. \A u \in Threads : Distinct(thread'[u].waiters)
    BY <1>6, <1>12 DEF Waiting
  <2> QED
    BY <2>2, <2>3, <2>4 DEF Waiting
<1>15. Zombies(thread', hash \ {t}, next_tid)
  <2>1. \A p \in hash : SingleEntries(thread'[p].zombies)
                        /\ Entries(thread'[p].zombies) \subseteq Entries(thread[p].zombies)
    <3> SUFFICES ASSUME NEW p \in hash
                 PROVE  /\ SingleEntries(thread'[p].zombies)
                        /\ Entries(thread'[p].zombies) \subseteq Entries(thread[p].zombies)
      OBVIOUS
    <3>1. CASE p = c
      BY <1>7, <3>1
    <3>2. CASE p # c
      BY <1>1, <1>7, <1>12, <3>2 DEF Zombies
    <3> QED
      BY <3>1, <3>2
  <2>2. ASSUME NEW p \in hash \ {t}, NEW u \in Threads, NEW x \in Tids,
               <<u, x>> \in Entries(thread'[p].zombies)
        PROVE  /\ x < next_tid
               /\ u \in hash \ {t} /\ thread'[u].tid = x =>
                     thread'[u].state = "zombie" /\ thread'[u].parent = p
    <3>1. <<u, x>> \in Entries(thread[p].zombies)
      BY <2>1, <2>2
    <3>2. /\ x < next_tid
          /\ u \in hash /\ thread[u].tid = x => thread[u].state = "zombie" /\ thread[u].parent = p
      BY <1>12, <3>1 DEF Zombies
    <3> QED
      BY <1>6, <3>2
  <2>3. \A u \in hash \ {t} :
           thread'[u].state = "zombie" => thread'[u].lasterror \in {0, thread'[u].tid}
    BY <1>1, <1>6, <1>12 DEF Zombies
  <2>4. ASSUME NEW u \in hash \ {t}, NEW p \in hash \ {t}, p = thread[u].parent,
               thread[u].state = "zombie", thread[p].tid = thread[u].creator
        PROVE  <<u, thread[u].tid>> \in Entries(thread'[p].zombies)
    <3>1. <<u, thread[u].tid>> \in Entries(thread[p].zombies)
      BY <1>12, <2>4 DEF Zombies
    <3>2. u \in Threads \ {t} /\ thread[u].tid \in Tids
      BY <1>1 DEF Structs, Structures
    <3>3. CASE p = c
      BY <1>7, <3>1, <3>2, <3>3
    <3>4. CASE p # c
      BY <1>1, <1>7, <3>1, <3>4
    <3> QED
      BY <3>3, <3>4
  <2>5. \A u \in hash \ {t} :
          LET p == thread'[u].parent
          IN  thread'[u].state = "zombie" /\ p \in hash \ {t}
              /\ thread'[p].tid = thread'[u].creator =>
                  <<u, thread'[u].tid>> \in Entries(thread'[p].zombies)
    BY <1>1, <1>6, <2>4
  <2> QED
    BY <2>1, <2>2, <2>3, <2>5 DEF Zombies
<1>16. FaultKnown(thread', fault')
  BY <1>8, KnownKept DEF Kept
<1>17. Gone(thread', hash \ {t}, next_tid, returned)
  BY <1>1, <1>8, GoneKept DEF Kept
<1>18. Kept'
  BY <1>9, <1>11, <1>13, <1>14, <1>15, <1>16, <1>17 DEF Kept
<1> QED
  BY <1>10, <1>18 DEF IInv

LEMMA ZombieTids ==
    ASSUME TypeOK, Kept, NEW t \in hash, thread[t].state = "zombie"
    PROVE  thread[t].tid \in Tids /\ thread[t].lasterror \in {0, thread[t].tid} /\ 0 \in Tids
<1>1. thread[t].tid \in Tids /\ thread[t].lasterror \in {0, thread[t].tid}
  BY DEF TypeOK, Structures, Kept, Zombies
<1>2. 0 \in Tids
  BY ThreadsAssumption DEF Tids
<1> QED
  BY <1>1, <1>2

LEMMA WaitAnyKeeps ==
    ASSUME TypeOK, stop = "no" => Kept, NEW c \in Threads, WaitAny(c)
    PROVE  IInv'
<1> DEFINE z == Head(thread[c].zombies)
           t == z.thread
           q == Unlinked(thread[c].zombies, 1)
<1>1. Kept /\ stop = "no" /\ c \in hash /\ thread[c].state = "ok"
  BY CallerFacts DEF WaitAny, Calls
<1>2. CASE Halts("memory") \/ Halts("twice")
  BY <1>2, HaltsKeeps DEF Stops
<1>3. CASE /\ ~Outdated(z)
           /\ thread' = [thread EXCEPT ![c].zombies = Unlinked(@, 1)]
           /\ answer' = Reaped(NullTid, t)
           /\ Release(t)
           /\ UNCHANGED <<slot, l4, fault, next_tid, returned, stop>>
  <2>1. /\ thread[c].zombies \in Seq(QueueItems) /\ SingleEntries(thread[c].zombies)
        /\ thread[c].zombies # <<>>
    BY <1>1 DEF WaitAny, TypeOK, Structures, Kept, Zombies
  <2>2. 1 \in DOMAIN thread[c].zombies /\ z = thread[c].zombies[1] /\ z \in QueueItems
    BY <2>1
  <2>3. /\ q \in Seq(QueueItems) /\ SingleEntries(q)
        /\ Entries(q) = Entries(thread[c].zombies) \ {Entry(z)}
    BY <2>1, <2>2, UnlinkedEntries
  <2>4. t \in hash /\ t \in Threads /\ thread[t].tid = z.tid /\ z.tid \in Tids
    BY <1>3, <2>2 DEF Outdated, QueueItems
  <2>5. <<t, z.tid>> \in Entries(thread[c].zombies) /\ Entry(z) = <<t, z.tid>>
    BY <2>2 DEF Entries, Entry
  <2>6. thread' = [thread EXCEPT ![c].zombies = q]
    BY <1>3
  <2> HIDE DEF t, q, z
  <2>7. thread[t].state = "zombie"
    BY <1>1, <2>4, <2>5 DEF Kept, Zombies
  <2>8. \A u \in Threads \ {t} : \A x \in Tids :
           <<u, x>> \in Entries(thread[c].zombies) => <<u, x>> \in Entries(q)
    BY <2>3, <2>5
  <2>9. answer' = [asked |-> 0, of |-> thread[t].tid, status |-> thread[t].lasterror]
    BY <1>3 DEF Reaped, NullTid
  <2>10. answer' \in Answers /\ AnswersTrue'
    <3>1. thread[t].tid \in Tids /\ thread[t].lasterror \in {0, thread[t].tid} /\ 0 \in Tids
      BY <1>1, <2>4, <2>7, ZombieTids
    <3> QED
      BY <2>9, <3>1 DEF Answers, AnswersTrue, NullTid
  <2>11. stop' \in Stops
    BY <1>1, <1>3 DEF Stops
  <2> QED
    BY <1>1, <1>3, <2>3, <2>4, <2>6, <2>7, <2>8, <2>10, <2>11, ReapKeeps
<1> HIDE DEF q
<1> QED
  BY <1>2, <1>3 DEF WaitAny

LEMMA WaitReapsKeeps ==
    ASSUME TypeOK, stop = "no" => Kept,
           NEW c \in Threads, NEW t \in Threads, WaitReaps(c, t)
    PROVE  IInv'
<1> DEFINE q == Cancelled(thread[c].zombies, t)
<1>1. /\ Kept /\ stop = "no" /\ c \in hash /\ thread[c].state = "ok"
      /\ t \in hash /\ thread[t].state = "zombie"
  BY CallerFacts DEF WaitReaps, Finds, Calls
<1>2. CASE Halts("memory") \/ Halts("twice")
  BY <1>2, HaltsKeeps DEF Stops
<1>3. CASE /\ Cardinality(Positions(thread[c].zombies, t)) <= 1
           /\ thread' = [thread EXCEPT ![c].zombies = Cancelled(@, t)]
           /\ answer' = Reaped(thread[t].tid, t)
           /\ Release(t)
           /\ UNCHANGED <<slot, l4, fault, next_tid, returned, stop>>
  <2>1. thread[c].zombies \in Seq(QueueItems) /\ SingleEntries(thread[c].zombies)
    BY <1>1 DEF TypeOK, Structures, Kept, Zombies
  <2>2. /\ q \in Seq(QueueItems) /\ SingleEntries(q)
        /\ Entries(q) \subseteq Entries(thread[c].zombies)
        /\ \A u \in Threads \ {t} : \A x \in Tids :
              <<u, x>> \in Entries(thread[c].zombies) => <<u, x>> \in Entries(q)
    BY <1>3, <2>1, CancelledEntries
  <2>3. thread' = [thread EXCEPT ![c].zombies = q]
    BY <1>3
  <2> HIDE DEF q
  <2>4. answer' = [asked |-> thread[t].tid, of |-> thread[t].tid, status |-> thread[t].lasterror]
    BY <1>3 DEF Reaped
  <2>5. answer' \in Answers /\ AnswersTrue'
    <3>1. thread[t].tid \in Tids /\ thread[t].lasterror \in {0, thread[t].tid} /\ 0 \in Tids
      BY <1>1, ZombieTids
    <3> QED
      BY <2>4, <3>1 DEF Answers, AnswersTrue
  <2>6. stop' \in Stops
    BY <1>1, <1>3 DEF Stops
  <2> QED
    BY <1>1, <1>3, <2>2, <2>3, <2>5, <2>6, ReapKeeps
<1> HIDE DEF q
<1> QED
  BY <1>2, <1>3 DEF WaitReaps
LEMMA WaitBlocksKeeps ==
    ASSUME TypeOK, stop = "no" => Kept,
           NEW c \in Threads, NEW t \in Threads, WaitBlocks(c, t)
    PROVE  IInv'
<1> DEFINE k == thread[c].tid
           q == Append(thread[t].waiters, Item(c, k))
           a == [thread[t] EXCEPT !.waiters = q]
           d == [thread[c] EXCEPT !.state = "waiting", !.waiting = t, !.asked = thread[t].tid]
           e == [thread[c] EXCEPT !.waiters = q, !.state = "waiting", !.waiting = t,
                                  !.asked = thread[t].tid]
<1>1. /\ Kept /\ stop = "no" /\ c \in hash /\ thread[c].state = "ok" /\ thread[c].waiting = None
      /\ Id(c) \in L4Ids /\ slot[Id(c)] = c /\ l4[Id(c)] = "run"
  BY CallerFacts DEF WaitBlocks, Calls
<1>2. /\ t \in hash /\ ~Dead(t)
      /\ thread' = [thread EXCEPT ![t].waiters = Append(@, Item(c, k)),
                                  ![c].state = "waiting", ![c].waiting = t,
                                  ![c].asked = thread[t].tid]
      /\ l4' = [l4 EXCEPT ![Id(c)] = "wait"]
      /\ answer' = NoAnswer
      /\ hash' = hash /\ pool' = pool /\ users' = users /\ slot' = slot /\ fault' = fault
      /\ next_tid' = next_tid /\ returned' = returned /\ stop' = stop
  BY DEF WaitBlocks, Finds
<1>3. /\ thread \in Structs /\ DOMAIN thread = Threads /\ hash \in SUBSET Threads
      /\ thread[c] \in Structures /\ thread[t] \in Structures /\ None \notin Threads
      /\ pool \in [Apds -> Seq(Threads)]
      /\ slot \in [L4Ids -> Threads \cup {None}] /\ l4 \in [L4Ids -> L4States]
      /\ fault \in Threads \cup {None} /\ k \in Tids
  BY TypeFacts, ThreadsAssumption DEF Structs, Structures
<1>4. /\ Waiting(thread, hash, returned) /\ Zombies(thread, hash, next_tid)
      /\ L4s(thread, hash, slot, l4, fault)
  BY <1>1 DEF Kept
<1>5. InUse(thread, t) /\ Alive(thread, t)
  <2>1. InUse(thread, t) /\ thread[t].state \in States
    BY <1>1, <1>2, <1>3, LiveIds DEF Structures
  <2> QED
    BY <1>2, <2>1 DEF Alive, Dead, States, InUse
<1>6. c \notin Members(thread[t].waiters)
  BY <1>1, <1>2, <1>3, <1>4 DEF Waiting
<1>7. q \in Seq(QueueItems) /\ Distinct(q) /\ Members(q) = Members(thread[t].waiters) \cup {c}
  <2>1. thread[t].waiters \in Seq(QueueItems) /\ Distinct(thread[t].waiters)
    BY <1>2, <1>3, <1>4 DEF Waiting, Structures
  <2> QED
    BY <1>3, <1>6, <2>1, AppendFacts
<1> HIDE DEF q, k
<1>8. a \in Structures /\ d \in Structures /\ e \in Structures
  BY <1>3, <1>7 DEF Structures, States
<1>9. thread' = IF c = t THEN [thread EXCEPT ![c] = e] ELSE [thread EXCEPT ![t] = a, ![c] = d]
  <2>1. CASE c = t
    BY <1>2, <1>3, <2>1 DEF q
  <2>2. CASE c # t
    BY <1>2, <1>3, <2>2 DEF q
  <2> QED
    BY <2>1, <2>2
  \* What changes in a structure: its waiters if it is t, how it waits if it is c.
<1>10. ASSUME NEW u \in Threads
       PROVE  /\ thread'[u] \in Structures
              /\ thread'[u].tid = thread[u].tid /\ thread'[u].creator = thread[u].creator
              /\ thread'[u].parent = thread[u].parent /\ thread'[u].pdx = thread[u].pdx
              /\ thread'[u].apd = thread[u].apd /\ thread'[u].lthread = thread[u].lthread
              /\ thread'[u].lasterror = thread[u].lasterror
              /\ thread'[u].zombies = thread[u].zombies
              /\ thread'[u].waiters = IF u = t THEN q ELSE thread[u].waiters
              /\ thread'[u].state = IF u = c THEN "waiting" ELSE thread[u].state
              /\ thread'[u].waiting = IF u = c THEN t ELSE thread[u].waiting
              /\ thread'[u].asked = IF u = c THEN thread[t].tid ELSE thread[u].asked
  <2>1. thread'[u] = IF u = c THEN (IF c = t THEN e ELSE d)
                     ELSE IF u = t THEN a ELSE thread[u]
    <3> HIDE DEF a, d, e
    <3>1. CASE c = t
      BY <1>3, <1>9, <3>1
    <3>2. CASE c # t
      BY <1>3, <1>9, <3>2
    <3> QED
      BY <3>1, <3>2
  <2>2. CASE u = c /\ c = t
    <3>1. thread'[u] = e
      BY <2>1, <2>2
    <3> QED
      BY <1>3, <1>8, <2>2, <3>1 DEF Structures
  <2>3. CASE u = c /\ c # t
    <3>1. thread'[u] = d
      BY <2>1, <2>3
    <3> QED
      BY <1>3, <1>8, <2>3, <3>1 DEF Structures
  <2>4. CASE u # c /\ u = t
    <3>1. thread'[u] = a
      BY <2>1, <2>4
    <3> QED
      BY <1>3, <1>8, <2>4, <3>1 DEF Structures
  <2>5. CASE u # c /\ u # t
    <3>1. thread'[u] = thread[u]
      BY <2>1, <2>5
    <3> QED
      BY <1>3, <2>5, <3>1 DEF Structs
  <2> QED
    BY <2>2, <2>3, <2>4, <2>5
<1> HIDE DEF a, d, e
<1>11. thread' \in Structs
  <2>1. DOMAIN thread' = Threads
    BY <1>3, <1>9
  <2>2. thread' = [u \in Threads |-> thread'[u]]
    BY <1>3, <1>9, <2>1
  <2> QED
    BY <1>10, <2>2 DEF Structs
<1>12. SameNames(thread, thread')
  <2>1. \A u \in Threads : InUse(thread', u) <=> InUse(thread, u)
    BY <1>1, <1>10 DEF InUse
  <2> QED
    BY <1>10, <2>1 DEF SameNames
<1>13. TypeOK' /\ AnswersTrue'
  <2>1. l4' \in [L4Ids -> L4States]
    BY <1>2, <1>3 DEF L4States
  <2>2. answer' \in Answers /\ AnswersTrue'
    BY <1>2, NoAnswerTrue
  <2> QED
    BY <1>2, <1>11, <2>1, <2>2 DEF TypeOK, Structs, L4States, Answers
<1>14. /\ Names(thread', next_tid) /\ Placed(thread', hash, pool) /\ Counted(thread', hash, users)
       /\ Gone(thread', hash, next_tid, returned) /\ FaultKnown(thread', fault)
  BY <1>1, <1>3, <1>12, NamesKept, PlacedKept, CountedKept, GoneKept, KnownKept DEF Kept
<1>15. L4s(thread', hash, slot, l4', fault)
  <2>1. l4'[Id(c)] = "wait" /\ \A i \in L4Ids : i # Id(c) => l4'[i] = l4[i]
    BY <1>1, <1>2, <1>3
  <2>2. \A i \in L4Ids : slot[i] # None =>
           /\ slot[i] \in Threads
           /\ <<thread[slot[i]].apd, thread[slot[i]].lthread>> = i
           /\ <<thread'[slot[i]].apd, thread'[slot[i]].lthread>> = i
    <3> SUFFICES ASSUME NEW i \in L4Ids, slot[i] # None
                 PROVE  /\ slot[i] \in Threads
                        /\ <<thread[slot[i]].apd, thread[slot[i]].lthread>> = i
                        /\ <<thread'[slot[i]].apd, thread'[slot[i]].lthread>> = i
      OBVIOUS
    <3>1. slot[i] \in Threads /\ <<thread[slot[i]].apd, thread[slot[i]].lthread>> = i
      BY <1>3, <1>4 DEF L4s
    <3> QED
      BY <1>10, <3>1
  <2>3. \A u \in hash : u # c /\ thread[u].state = "ok" => thread'[u].state = "ok"
    BY <1>3, <1>10
  <2>4. \A i \in L4Ids : slot[i] # None /\ l4'[i] \in {"run", "pdx"} =>
           slot[i] \in hash /\ thread'[slot[i]].state = "ok"
    <3> SUFFICES ASSUME NEW i \in L4Ids, slot[i] # None, l4'[i] \in {"run", "pdx"}
                 PROVE  slot[i] \in hash /\ thread'[slot[i]].state = "ok"
      OBVIOUS
    <3>1. i # Id(c) /\ l4[i] = l4'[i]
      BY <2>1
    <3>2. slot[i] \in hash /\ thread[slot[i]].state = "ok"
      BY <1>4, <3>1 DEF L4s
    <3>3. slot[i] # c
      BY <2>2, <3>1 DEF Id
    <3> QED
      BY <2>3, <3>2, <3>3
  <2>5. \A i \in L4Ids : fault # None /\ <<thread'[fault].apd, thread'[fault].lthread>> = i
                         /\ l4'[i] = "fault" =>
           slot[i] = fault /\ fault \in hash /\ thread'[fault].state = "ok"
    <3> SUFFICES ASSUME NEW i \in L4Ids, fault # None, l4'[i] = "fault",
                        <<thread'[fault].apd, thread'[fault].lthread>> = i
                 PROVE  slot[i] = fault /\ fault \in hash /\ thread'[fault].state = "ok"
      OBVIOUS
    <3>1. <<thread[fault].apd, thread[fault].lthread>> = i /\ i # Id(c) /\ l4[i] = "fault"
      BY <1>3, <1>10, <2>1
    <3>2. slot[i] = fault /\ fault \in hash /\ thread[fault].state = "ok"
      BY <1>4, <3>1 DEF L4s
    <3>3. fault # c
      BY <3>1 DEF Id
    <3> QED
      BY <2>3, <3>2, <3>3
  <2> QED
    BY <2>2, <2>4, <2>5 DEF L4s
<1>16. Waiting(thread', hash, returned)
  <2>1. \A u \in hash : Alive(thread, u) => Alive(thread', u)
    BY <1>3, <1>10 DEF Alive
  <2>2. \A u \in hash : Members(thread[u].waiters) \subseteq Members(thread'[u].waiters)
    BY <1>3, <1>7, <1>10
  <2>3. Known(thread', hash, c)
    <3>1. thread'[c].waiting = t /\ thread'[c].asked = thread'[t].tid
          /\ c \in Members(thread'[t].waiters)
      BY <1>7, <1>10
    <3> QED
      BY <1>2, <1>5, <2>1, <3>1 DEF Known
  <2>4. ASSUME NEW w \in hash \ {c}, Known(thread, hash, w) PROVE Known(thread', hash, w)
    <3> DEFINE u == thread[w].waiting
    <3>1. /\ u \in hash /\ Alive(thread, u) /\ thread[u].tid = thread[w].asked
          /\ w \in Members(thread[u].waiters)
      BY <2>4 DEF Known
    <3>2. thread'[w].waiting = u /\ thread'[w].asked = thread[w].asked
      BY <1>3, <1>10, <2>4
    <3> HIDE DEF u
    <3>3. u \in hash /\ Alive(thread', u) /\ thread'[u].tid = thread'[w].asked
          /\ w \in Members(thread'[u].waiters)
      BY <1>3, <1>10, <2>1, <2>2, <3>1, <3>2
    <3> QED
      BY <3>2, <3>3 DEF Known
  <2>5. \A w \in hash :
          IF thread'[w].state # "waiting" THEN thread'[w].waiting = None
          ELSE thread'[w].waiting \in Threads
               /\ (thread'[w].asked \in returned \/ Known(thread', hash, w))
    <3> SUFFICES ASSUME NEW w \in hash
                 PROVE  IF thread'[w].state # "waiting" THEN thread'[w].waiting = None
                        ELSE thread'[w].waiting \in Threads
                             /\ (thread'[w].asked \in returned \/ Known(thread', hash, w))
      OBVIOUS
    <3>1. CASE w = c
      BY <1>10, <2>3, <3>1
    <3>2. CASE w # c
      BY <1>3, <1>4, <1>10, <2>4, <3>2 DEF Waiting
    <3> QED
      BY <3>1, <3>2
  <2>6. \A u \in Threads : Distinct(thread'[u].waiters)
    BY <1>4, <1>7, <1>10 DEF Waiting
  <2>7. ASSUME NEW u \in hash, NEW w \in Members(thread'[u].waiters)
        PROVE  w \in hash /\ thread'[w].waiting = u /\ thread'[w].asked = thread'[u].tid
    <3>1. \A v \in Members(thread[u].waiters) :
             v \in hash \ {c} /\ thread[v].waiting = u /\ thread[v].asked = thread[u].tid
      BY <1>1, <1>3, <1>4 DEF Waiting
    <3>2. w \in Members(thread[u].waiters) \/ (u = t /\ w = c)
      BY <1>3, <1>7, <1>10, <2>7
    <3>3. CASE w \in Members(thread[u].waiters)
      BY <1>3, <1>10, <3>1, <3>3
    <3>4. CASE u = t /\ w = c
      BY <1>1, <1>10, <3>4
    <3> QED
      BY <3>2, <3>3, <3>4
  <2> QED
    BY <2>5, <2>6, <2>7 DEF Waiting
<1>17. Zombies(thread', hash, next_tid)
  <2>1. \A u \in Threads : thread'[u].state = "zombie" <=> thread[u].state = "zombie"
    BY <1>1, <1>10
  <2>2. \A u \in Threads :
        /\ thread'[u].tid = thread[u].tid /\ thread'[u].creator = thread[u].creator
        /\ thread'[u].parent = thread[u].parent /\ thread'[u].lasterror = thread[u].lasterror
        /\ thread'[u].zombies = thread[u].zombies
    BY <1>10
  <2>3. ASSUME NEW p \in hash, NEW u \in Threads, NEW x \in Tids,
               <<u, x>> \in Entries(thread'[p].zombies)
        PROVE  /\ x < next_tid
               /\ u \in hash /\ thread'[u].tid = x =>
                     thread'[u].state = "zombie" /\ thread'[u].parent = p
    <3>1. /\ x < next_tid
          /\ u \in hash /\ thread[u].tid = x => thread[u].state = "zombie" /\ thread[u].parent = p
      BY <1>3, <1>4, <2>2, <2>3 DEF Zombies
    <3> QED
      BY <2>1, <2>2, <3>1
  <2>4. \A p \in hash : SingleEntries(thread'[p].zombies)
    BY <1>3, <1>4, <2>2 DEF Zombies
  <2>5. \A u \in hash :
           thread'[u].state = "zombie" => thread'[u].lasterror \in {0, thread'[u].tid}
    BY <1>3, <1>4, <2>1, <2>2 DEF Zombies
  <2>6. \A u \in hash :
          LET p == thread'[u].parent
          IN  thread'[u].state = "zombie" /\ p \in hash /\ thread'[p].tid = thread'[u].creator =>
                  <<u, thread'[u].tid>> \in Entries(thread'[p].zombies)
    BY <1>3, <1>4, <2>1, <2>2 DEF Zombies
  <2> QED
    BY <2>3, <2>4, <2>5, <2>6 DEF Zombies
<1>18. Kept'
  BY <1>2, <1>14, <1>15, <1>16, <1>17 DEF Kept
<1> QED
  BY <1>13, <1>18 DEF IInv
\* ThreadCreate and PdxCall: t starts for the caller c, whose L4 thread may wait for it.
LEMMA StartKeeps ==
    ASSUME TypeOK, Kept, NEW c \in Threads, Calls(c), NEW a \in Apds, NEW t \in Available(a),
           NEW proc \in BOOLEAN, Start(t, a, c, proc),
           l4' \in [L4Ids -> L4States], l4'[<<a, Lthread(t, a)>>] = "run",
           \A i \in L4Ids : i # <<a, Lthread(t, a)>> =>
              l4'[i] = l4[i] \/ (i = Id(c) /\ l4'[i] = "pdx"),
           UNCHANGED <<fault, returned>>, answer' = NoAnswer, stop' \in Stops
    PROVE  IInv'
<1> DEFINE n == Lthread(t, a)
           j == <<a, n>>
<1>1. /\ c \in hash /\ thread[c].state = "ok" /\ Id(c) \in L4Ids /\ slot[Id(c)] = c
  BY CallerFacts
<1>2. /\ t \in Threads \ hash /\ n \in 1 .. Cardinality(Threads)
      /\ InUse(thread, t) => thread[t].apd = a /\ thread[t].lthread = n
  BY AvailableFacts
<1>3. Started(thread', t, a, c) /\ next_tid \in Tids /\ next_tid' = next_tid + 1
  BY StartedFacts
<1>4. /\ hash' = hash \cup {t}
      /\ pool' = [pool EXCEPT ![a] = IF @ = <<>> THEN @ ELSE Tail(@)]
      /\ users' = [users EXCEPT ![a] = @ + 1]
      /\ slot' = [slot EXCEPT ![j] = t]
  BY DEF Start
<1>5. /\ hash \in SUBSET Threads /\ None \notin Threads /\ users \in [Apds -> 0 .. Cardinality(Threads)]
      /\ slot \in [L4Ids -> Threads \cup {None}] /\ fault \in Threads \cup {None}
  BY TypeFacts, ThreadsAssumption
<1>6. j \in L4Ids
  BY <1>2 DEF L4Ids
<1> HIDE DEF n, j
<1>7. Names(thread', next_tid')
  <2>1. Lthread(t, a) # 0
    BY <1>2 DEF n
  <2>2. Names(thread', next_tid + 1)
    BY <1>1, <1>2, <1>3, <2>1, NamesStarted
  <2> QED
    BY <1>3, <2>2
<1>8. Placed(thread', hash \cup {t}, pool') /\ pool' \in [Apds -> Seq(Threads)]
  BY <1>1, <1>3, <1>4, PlacedStarted
<1>9. Counted(thread', hash \cup {t}, users') /\ users' \in [Apds -> 0 .. Cardinality(Threads)]
  <2>1. thread'[t].apd = a /\ SameApds(thread, thread', hash)
    BY <1>2, <1>3, <1>5 DEF Started, SameApds
  <2>2. Counted(thread, hash, users)
    BY DEF Kept
  <2>3. LET n2 == [users EXCEPT ![a] = @ + 1]
        IN  Counted(thread', hash \cup {t}, n2) /\ n2 \in [Apds -> 0 .. Cardinality(Threads)]
    BY <1>2, <1>5, <2>1, <2>2, CountedMore
  <2> QED
    BY <1>4, <2>3
<1>10. /\ Waiting(thread', hash \cup {t}, returned)
       /\ Zombies(thread', hash \cup {t}, next_tid')
       /\ Gone(thread', hash \cup {t}, next_tid', returned)
  <2>1. /\ Waiting(thread', hash \cup {t}, returned)
        /\ Zombies(thread', hash \cup {t}, next_tid + 1)
        /\ Gone(thread', hash \cup {t}, next_tid + 1, returned)
    BY <1>1, <1>2, <1>3, QueuesStarted
  <2> QED
    BY <1>3, <2>1
<1>11. \A u \in Threads \ {t} : /\ thread'[u].apd = thread[u].apd
                                /\ thread'[u].lthread = thread[u].lthread
                                /\ thread'[u].state = thread[u].state
  BY <1>3 DEF Started
<1>12. thread'[t].state = "ok" /\ <<thread'[t].apd, thread'[t].lthread>> = j
  BY <1>3 DEF Started, j, n
<1>13. L4s(thread', hash \cup {t}, slot', l4', fault)
  <2>1. L4s(thread, hash, slot, l4, fault)
    BY DEF Kept
  <2>2. slot'[j] = t /\ \A i \in L4Ids : i # j => slot'[i] = slot[i]
    BY <1>4, <1>5, <1>6
  <2>3. ASSUME NEW i \in L4Ids, i # j, slot[i] # None
        PROVE  slot[i] \in Threads \ {t} /\ <<thread[slot[i]].apd, thread[slot[i]].lthread>> = i
    <3>1. slot[i] \in Threads /\ <<thread[slot[i]].apd, thread[slot[i]].lthread>> = i
      BY <1>5, <2>1, <2>3 DEF L4s
    <3>2. thread[slot[i]].lthread # 0
      BY <3>1 DEF L4Ids
    <3>3. InUse(thread, slot[i])
      BY <3>1, <3>2 DEF Kept, Names
    <3> QED
      BY <1>2, <2>3, <3>1, <3>3 DEF j
  <2>4. \A i \in L4Ids : slot'[i] # None =>
           <<thread'[slot'[i]].apd, thread'[slot'[i]].lthread>> = i
    <3> SUFFICES ASSUME NEW i \in L4Ids, slot'[i] # None
                 PROVE  <<thread'[slot'[i]].apd, thread'[slot'[i]].lthread>> = i
      OBVIOUS
    <3>1. CASE i = j
      BY <1>12, <2>2, <3>1
    <3>2. CASE i # j
      BY <1>11, <2>2, <2>3, <3>2
    <3> QED
      BY <3>1, <3>2
  <2>5. l4'[j] = "run" /\ \A i \in L4Ids : i # j => l4'[i] = l4[i] \/ (i = Id(c) /\ l4'[i] = "pdx")
    BY DEF j, n
  <2>6. \A i \in L4Ids : slot'[i] # None /\ l4'[i] \in {"run", "pdx"} =>
           slot'[i] \in hash \cup {t} /\ thread'[slot'[i]].state = "ok"
    <3> SUFFICES ASSUME NEW i \in L4Ids, slot'[i] # None, l4'[i] \in {"run", "pdx"}
                 PROVE  slot'[i] \in hash \cup {t} /\ thread'[slot'[i]].state = "ok"
      OBVIOUS
    <3>1. CASE i = j
      BY <1>12, <2>2, <3>1
    <3>2. CASE i # j
      <4>1. slot'[i] = slot[i] /\ slot[i] \in Threads \ {t}
        BY <2>2, <2>3, <3>2
      <4>2. slot[i] \in hash /\ thread[slot[i]].state = "ok"
        <5>1. CASE l4'[i] = l4[i]
          BY <2>1, <4>1, <5>1 DEF L4s
        <5>2. CASE i = Id(c)
          BY <1>1, <5>2
        <5> QED
          BY <2>5, <3>2, <5>1, <5>2
      <4> QED
        BY <1>11, <4>1, <4>2
    <3> QED
      BY <3>1, <3>2
  <2>7. \A i \in L4Ids : fault # None /\ <<thread'[fault].apd, thread'[fault].lthread>> = i
                         /\ l4'[i] = "fault" =>
           slot'[i] = fault /\ fault \in hash \cup {t} /\ thread'[fault].state = "ok"
    <3> SUFFICES ASSUME NEW i \in L4Ids, fault # None, l4'[i] = "fault",
                        <<thread'[fault].apd, thread'[fault].lthread>> = i
                 PROVE  slot'[i] = fault /\ fault \in hash \cup {t} /\ thread'[fault].state = "ok"
      OBVIOUS
    <3>1. i # j /\ l4[i] = "fault"
      BY <2>5
    <3>2. fault \in Threads \ {t}
      BY <1>5, <1>12, <3>1
    <3>3. <<thread[fault].apd, thread[fault].lthread>> = i
      BY <1>11, <3>2
    <3>4. slot[i] = fault /\ fault \in hash /\ thread[fault].state = "ok"
      BY <2>1, <3>1, <3>3 DEF L4s
    <3> QED
      BY <1>11, <2>2, <3>1, <3>2, <3>4
  <2> QED
    BY <2>4, <2>6, <2>7 DEF L4s
<1>14. FaultKnown(thread', fault')
  BY <1>11, <1>12 DEF Kept, FaultKnown, InUse
<1>15. TypeOK' /\ AnswersTrue'
  <2>1. slot' \in [L4Ids -> Threads \cup {None}] /\ hash' \in SUBSET Threads
    BY <1>2, <1>4, <1>5
  <2>2. next_tid' \in 1 .. MaxTid + 1
    BY <1>3, ThreadsAssumption DEF TypeOK, Tids, Start
  <2>3. thread' \in Structs
    BY <1>3 DEF Started
  <2>4. answer' \in Answers /\ AnswersTrue'
    BY NoAnswerTrue
  <2> QED
    BY <1>5, <1>8, <1>9, <2>1, <2>2, <2>3, <2>4 DEF TypeOK, Structs, L4States, Stops, Answers
<1>16. Kept'
  BY <1>4, <1>7, <1>8, <1>9, <1>10, <1>13, <1>14 DEF Kept
<1> QED
  BY <1>15, <1>16 DEF IInv

LEMMA ThreadCreateKeeps ==
    ASSUME TypeOK, stop = "no" => Kept, NEW c \in Threads, NEW a \in Apds, ThreadCreate(c, a)
    PROVE  IInv'
<1>1. Kept /\ Calls(c)
  BY DEF ThreadCreate, Calls
<1>2. PICK t \in Available(a) :
         /\ Start(t, a, c, FALSE)
         /\ l4' = [l4 EXCEPT ![<<a, Lthread(t, a)>>] = "run"]
  BY DEF ThreadCreate
<1>3. answer' = NoAnswer /\ UNCHANGED <<fault, returned>> /\ stop' \in Stops
  BY TypeFacts DEF ThreadCreate
<1>4. l4 \in [L4Ids -> L4States] /\ <<a, Lthread(t, a)>> \in L4Ids
  BY <1>1, TypeFacts, AvailableFacts DEF L4Ids
<1>5. /\ l4' \in [L4Ids -> L4States] /\ l4'[<<a, Lthread(t, a)>>] = "run"
      /\ \A i \in L4Ids : i # <<a, Lthread(t, a)>> => l4'[i] = l4[i]
  BY <1>2, <1>4 DEF L4States
<1> QED
  BY <1>1, <1>2, <1>3, <1>5, StartKeeps

LEMMA PdxCallKeeps ==
    ASSUME TypeOK, stop = "no" => Kept, NEW c \in Threads, PdxCall(c)
    PROVE  IInv'
<1> DEFINE a == PdxApd
<1>1. Kept /\ Calls(c) /\ stop = "no"
  BY DEF PdxCall, Calls
<1>2. a \in Apds
  BY ThreadsAssumption
<1>3. PICK t \in Available(a) :
         /\ Start(t, a, c, TRUE)
         /\ l4' = [l4 EXCEPT ![Id(c)] = "pdx", ![<<a, Lthread(t, a)>>] = "run"]
         /\ stop' = IF pool[a] # <<>> /\ l4[<<a, Lthread(t, a)>>] # "returned" THEN "astray"
                    ELSE stop
  BY DEF PdxCall
<1>4. answer' = NoAnswer /\ UNCHANGED <<fault, returned>> /\ stop' \in Stops
  BY <1>1, <1>3 DEF PdxCall, Stops
<1>5. l4 \in [L4Ids -> L4States] /\ <<a, Lthread(t, a)>> \in L4Ids
  BY <1>1, <1>2, TypeFacts, AvailableFacts DEF L4Ids
<1>6. /\ l4' \in [L4Ids -> L4States] /\ l4'[<<a, Lthread(t, a)>>] = "run"
      /\ \A i \in L4Ids : i # <<a, Lthread(t, a)>> =>
            l4'[i] = l4[i] \/ (i = Id(c) /\ l4'[i] = "pdx")
  BY <1>3, <1>5 DEF L4States
<1> HIDE DEF a
<1> QED
  BY <1>1, <1>2, <1>3, <1>4, <1>6, StartKeeps
\* A PDX procedure returns: its caller, if it still waits, lives.  Threads that wait for the
\* procedure by ThreadWait are forgotten.
LEMMA PdxReturnKeeps ==
    ASSUME TypeOK, stop = "no" => Kept, NEW c \in Threads, PdxReturn(c)
    PROVE  IInv'
<1> DEFINE j == Id(thread[c].pdx)
<1>1. /\ Kept /\ stop = "no" /\ c \in hash /\ thread[c].state = "ok" /\ thread[c].waiting = None
      /\ Id(c) \in L4Ids /\ slot[Id(c)] = c /\ l4[Id(c)] = "run"
  BY CallerFacts DEF PdxReturn, Calls
<1>2. /\ thread[c].pdx # None
      /\ l4' = [l4 EXCEPT ![Id(c)] = "returned", ![j] = IF CallerWaits(c) THEN "run" ELSE @]
      /\ stop' \in Stops
      /\ slot' = [slot EXCEPT ![Id(c)] = None]
      /\ Release(c)
      /\ answer' = NoAnswer
      /\ thread' = thread /\ fault' = fault /\ next_tid' = next_tid
      /\ returned' = returned \cup {thread[c].tid}
  BY <1>1 DEF PdxReturn, Stops
<1>3. /\ thread \in Structs /\ hash \in SUBSET Threads /\ None \notin Threads
      /\ slot \in [L4Ids -> Threads \cup {None}] /\ l4 \in [L4Ids -> L4States]
  BY TypeFacts, ThreadsAssumption
<1>4. CallerWaits(c) => slot[j] = thread[c].pdx /\ thread[c].pdx \in Threads /\ l4[j] = "pdx"
  BY <1>2, <1>3 DEF CallerWaits, Structs, Structures
<1>5. Waiting(thread, hash, returned) /\ Zombies(thread, hash, next_tid) /\ L4s(thread, hash, slot, l4, fault)
  BY <1>1 DEF Kept
<1> HIDE DEF j
<1>6. l4' \in [L4Ids -> L4States]
  BY <1>2, <1>3 DEF L4States
<1>7. CallerWaits(c) => j # Id(c)
  BY <1>1, <1>4
<1>9. l4'[Id(c)] = "returned" /\
      \A i \in L4Ids : i # Id(c) => \/ l4'[i] = l4[i]
                                    \/ l4'[i] = "run" /\ l4[i] = "pdx"
  <2>1. CASE CallerWaits(c)
    <3>1. l4' = [l4 EXCEPT ![Id(c)] = "returned", ![j] = "run"]
      BY <1>2, <2>1
    <3> QED
      BY <1>1, <1>3, <1>4, <1>7, <2>1, <3>1
  <2>2. CASE ~CallerWaits(c)
    <3>1. l4' = [l4 EXCEPT ![Id(c)] = "returned", ![j] = @]
      BY <1>2, <2>2
    <3> QED
      BY <1>1, <1>3, <3>1
  <2> QED
    BY <2>1, <2>2
<1>10. slot'[Id(c)] = None /\ \A i \in L4Ids : i # Id(c) => slot'[i] = slot[i]
  BY <1>1, <1>2, <1>3
<1>11. /\ hash' = hash \ {c} /\ hash' \in SUBSET Threads
       /\ pool' \in [Apds -> Seq(Threads)]
       /\ users' \in [Apds -> 0 .. Cardinality(Threads)]
       /\ Placed(thread, hash', pool') /\ Counted(thread, hash', users')
  <2>1. SameNames(thread, thread)
    BY DEF SameNames
  <2> QED
    BY <1>1, <1>2, <2>1, ReleaseFacts
<1>12. L4s(thread, hash', slot', l4', fault)
  <2>1. \A i \in L4Ids : slot'[i] # None => <<thread[slot'[i]].apd, thread[slot'[i]].lthread>> = i
    BY <1>5, <1>10 DEF L4s
  <2>2. \A i \in L4Ids : slot'[i] # None /\ l4'[i] \in {"run", "pdx"} =>
           slot'[i] \in hash' /\ thread[slot'[i]].state = "ok"
    <3> SUFFICES ASSUME NEW i \in L4Ids, slot'[i] # None, l4'[i] \in {"run", "pdx"}
                 PROVE  slot'[i] \in hash' /\ thread[slot'[i]].state = "ok"
      OBVIOUS
    <3>1. i # Id(c) /\ slot'[i] = slot[i] /\ l4[i] \in {"run", "pdx"}
      BY <1>9, <1>10
    <3>2. slot[i] \in hash /\ thread[slot[i]].state = "ok"
      BY <1>5, <3>1 DEF L4s
    <3>3. slot[i] # c
      BY <1>5, <3>1 DEF L4s, Id
    <3> QED
      BY <1>11, <3>1, <3>2, <3>3
  <2>3. \A i \in L4Ids : fault # None /\ <<thread[fault].apd, thread[fault].lthread>> = i
                         /\ l4'[i] = "fault" =>
           slot'[i] = fault /\ fault \in hash' /\ thread[fault].state = "ok"
    <3> SUFFICES ASSUME NEW i \in L4Ids, fault # None, l4'[i] = "fault",
                        <<thread[fault].apd, thread[fault].lthread>> = i
                 PROVE  slot'[i] = fault /\ fault \in hash' /\ thread[fault].state = "ok"
      OBVIOUS
    <3>1. i # Id(c) /\ slot'[i] = slot[i] /\ l4[i] = "fault"
      BY <1>9, <1>10
    <3>2. slot[i] = fault /\ fault \in hash /\ thread[fault].state = "ok"
      BY <1>5, <3>1 DEF L4s
    <3>3. fault # c
      BY <3>1 DEF Id
    <3> QED
      BY <1>11, <3>1, <3>2, <3>3
  <2> QED
    BY <2>1, <2>2, <2>3 DEF L4s
<1>13. Waiting(thread, hash \ {c}, returned')
  <2>1. ASSUME NEW w \in hash \ {c}, thread[w].asked \in returned \/ Known(thread, hash, w)
        PROVE  thread[w].asked \in returned' \/ Known(thread, hash \ {c}, w)
    <3>1. CASE thread[w].waiting = c /\ Known(thread, hash, w)
      BY <1>2, <3>1 DEF Known
    <3>2. CASE thread[w].waiting # c /\ Known(thread, hash, w)
      BY <3>2 DEF Known
    <3> QED
      BY <1>2, <2>1, <3>1, <3>2
  <2>2. \A u \in hash : c \notin Members(thread[u].waiters)
    BY <1>1, <1>3, <1>5 DEF Waiting
  <2> QED
    BY <1>5, <2>1, <2>2 DEF Waiting
<1>14. Zombies(thread, hash \ {c}, next_tid)
  BY <1>5 DEF Zombies
<1>15. Gone(thread, hash \ {c}, next_tid, returned')
  <2>1. Gone(thread, hash, next_tid, returned) /\ Names(thread, next_tid)
    BY <1>1 DEF Kept
  <2>2. \A u \in hash \ {c} : thread[u].tid # thread[c].tid
    BY <1>1, <2>1, LiveIds DEF Names
  <2>3. thread[c].tid < next_tid
    BY <2>1 DEF Names
  <2> QED
    BY <1>2, <2>1, <2>2, <2>3 DEF Gone
<1>16. TypeOK' /\ AnswersTrue'
  <2>1. slot' \in [L4Ids -> Threads \cup {None}]
    BY <1>1, <1>2, <1>3
  <2>2. answer' \in Answers /\ AnswersTrue'
    BY <1>2, NoAnswerTrue
  <2>3. returned' \subseteq Tids
    BY <1>2, <1>3 DEF TypeOK, Structs, Structures
  <2> QED
    BY <1>2, <1>6, <1>11, <2>1, <2>2, <2>3 DEF TypeOK, L4States, Stops, Answers
<1>17. Kept'
  <2>1. Names(thread, next_tid) /\ FaultKnown(thread, fault)
    BY <1>1 DEF Kept
  <2> QED
    BY <1>2, <1>11, <1>12, <1>13, <1>14, <1>15, <2>1 DEF Kept
<1> QED
  BY <1>16, <1>17 DEF IInv

-----------------------------------------------------------------------------
(* Page faults *)

\* Only what L4 threads do, and whom mpager serves, changes.
LEMMA FaultStepKeeps ==
    ASSUME TypeOK, Kept, stop = "no",
           UNCHANGED <<thread, hash, pool, users, slot, next_tid, returned, stop>>, answer' = NoAnswer,
           l4' \in [L4Ids -> L4States], fault' \in Threads \cup {None},
           L4s(thread, hash, slot, l4', fault'), FaultKnown(thread, fault')
    PROVE  IInv'
<1>1. TypeOK' /\ AnswersTrue'
  BY NoAnswerTrue DEF TypeOK, L4States, Answers
<1>2. Kept'
  BY DEF Kept
<1> QED
  BY <1>1, <1>2 DEF IInv

LEMMA FaultKeeps ==
    ASSUME TypeOK, stop = "no" => Kept, NEW c \in Threads, Fault(c)
    PROVE  IInv'
<1>1. /\ Kept /\ stop = "no" /\ c \in hash /\ thread[c].state = "ok"
      /\ Id(c) \in L4Ids /\ slot[Id(c)] = c /\ l4[Id(c)] = "run" /\ InUse(thread, c)
  BY CallerFacts, LiveIds DEF Fault, Calls
<1>2. /\ fault' = c /\ l4' = [l4 EXCEPT ![Id(c)] = "fault"] /\ answer' = NoAnswer
      /\ UNCHANGED <<thread, hash, pool, users, slot, next_tid, returned, stop>>
  BY DEF Fault
<1>3. l4 \in [L4Ids -> L4States] /\ None \notin Threads
  BY TypeFacts, ThreadsAssumption
<1>4. l4' \in [L4Ids -> L4States] /\ l4'[Id(c)] = "fault"
      /\ \A i \in L4Ids : i # Id(c) => l4'[i] = l4[i]
  BY <1>1, <1>2, <1>3 DEF L4States
<1>5. L4s(thread, hash, slot, l4, fault)
  BY <1>1 DEF Kept
<1>6. L4s(thread, hash, slot, l4', c)
  BY <1>1, <1>4, <1>5 DEF L4s, Id
<1>7. FaultKnown(thread, c)
  BY <1>1 DEF FaultKnown
<1> QED
  BY <1>1, <1>2, <1>4, <1>6, <1>7, FaultStepKeeps

LEMMA FaultServedKeeps ==
    ASSUME TypeOK, stop = "no" => Kept, FaultServed
    PROVE  IInv'
<1>1. Kept /\ stop = "no" /\ fault # None
  BY DEF FaultServed
<1>2. /\ fault' = None /\ answer' = NoAnswer
      /\ l4' = [l4 EXCEPT ![Id(fault)] = IF @ = "fault" THEN "run" ELSE @]
      /\ UNCHANGED <<thread, hash, pool, users, slot, next_tid, returned, stop>>
  BY DEF FaultServed
<1>3. l4 \in [L4Ids -> L4States]
  BY TypeFacts
<1>4. /\ l4' \in [L4Ids -> L4States]
      /\ \A i \in L4Ids : l4'[i] = l4[i] \/ (i = Id(fault) /\ l4[i] = "fault" /\ l4'[i] = "run")
  BY <1>2, <1>3 DEF L4States
<1>5. L4s(thread, hash, slot, l4, fault)
  BY <1>1 DEF Kept
<1>6. \A i \in L4Ids : i = Id(fault) /\ l4[i] = "fault" =>
         slot[i] \in hash /\ thread[slot[i]].state = "ok"
  BY <1>1, <1>5 DEF L4s, Id
<1>7. \A i \in L4Ids : slot[i] # None /\ l4'[i] \in {"run", "pdx"} =>
         slot[i] \in hash /\ thread[slot[i]].state = "ok"
  BY <1>4, <1>5, <1>6 DEF L4s
<1>8. L4s(thread, hash, slot, l4', None) /\ FaultKnown(thread, None)
  BY <1>5, <1>7 DEF L4s, FaultKnown
<1> QED
  BY <1>1, <1>2, <1>4, <1>8, FaultStepKeeps

LEMMA FaultKillsKeeps ==
    ASSUME TypeOK, stop = "no" => Kept, FaultKills
    PROVE  IInv'
<1> DEFINE t == fault
           thd == [thread EXCEPT ![t].state = "zombie", ![t].lasterror = 0]
<1>1. /\ Kept /\ stop = "no" /\ t # None /\ StillFaulting(t)
      /\ NotifyWaiters(thd, l4, t)
      /\ fault' = None /\ slot' = slot /\ next_tid' = next_tid /\ returned' = returned
  BY DEF FaultKills
<1>2. /\ thread \in Structs /\ hash \in SUBSET Threads /\ None \notin Threads
      /\ slot \in [L4Ids -> Threads \cup {None}] /\ l4 \in [L4Ids -> L4States]
      /\ t \in Threads
  BY <1>1, TypeFacts, ThreadsAssumption
<1>3. Waiting(thread, hash, returned) /\ Zombies(thread, hash, next_tid) /\ L4s(thread, hash, slot, l4, fault)
      /\ InUse(thread, t)
  BY <1>1 DEF Kept, FaultKnown
<1> HIDE DEF thd
<1>4. Id(t) \in L4Ids /\ slot[Id(t)] = t /\ l4[Id(t)] = "fault"
  BY <1>1, <1>2, <1>3, UsedIds DEF StillFaulting
<1>5. t \in hash /\ thread[t].state = "ok"
  BY <1>1, <1>3, <1>4 DEF L4s, Id
<1>6. thread[t].waiting = None
  BY <1>3, <1>5 DEF Waiting
<1>7. SameNames(thread, thread) /\ 0 \in {0, thread[t].tid}
  BY DEF SameNames
<1>8. Ended(thread, thd, t, 0)
  BY <1>2, <1>7, EndedFields DEF thd
<1>9. NotifiedTypes /\ (stop' = "no" => NotifiedWell(t) /\ l4'[Id(t)] = "fault")
  BY <1>1, <1>2, <1>3, <1>4, <1>5, <1>6, <1>7, <1>8, NotifyFacts
<1>10. TypeOK' /\ AnswersTrue'
  <2>1. slot' \in [L4Ids -> Threads \cup {None}] /\ fault' \in Threads \cup {None}
        /\ next_tid' \in 1 .. MaxTid + 1 /\ returned' \subseteq Tids
    BY <1>1, <1>2 DEF TypeOK
  <2> QED
    BY <1>9, <2>1 DEF NotifiedTypes, TypeOK, Structs, L4States, Stops, Answers
<1>11. ASSUME stop' = "no" PROVE Kept'
  <2>1. SameNames(thread, thread') /\ l4'[Id(t)] = "fault"
        /\ \A u \in hash \ {t} :
              u \in hash' /\ (thread[u].state = "ok" => thread'[u].state = "ok")
    BY <1>9, <1>11 DEF NotifiedWell
  <2>2. \A i \in L4Ids : i # Id(t) =>
           \/ l4'[i] = l4[i]
           \/ l4'[i] = "run" /\ slot[i] \in hash' /\ thread'[slot[i]].state = "ok"
    BY <1>9, <1>11 DEF NotifiedWell
  <2>3. Names(thread', next_tid')
    <3>1. Names(thread, next_tid)
      BY <1>1 DEF Kept
    <3> QED
      BY <1>1, <2>1, <3>1, NamesKept
  <2>4. \A i \in L4Ids : slot[i] # None =>
           <<thread'[slot[i]].apd, thread'[slot[i]].lthread>> = i
    <3> SUFFICES ASSUME NEW i \in L4Ids, slot[i] # None
                 PROVE  <<thread'[slot[i]].apd, thread'[slot[i]].lthread>> = i
      OBVIOUS
    <3>1. slot[i] \in Threads /\ <<thread[slot[i]].apd, thread[slot[i]].lthread>> = i
      BY <1>2, <1>3 DEF L4s
    <3> QED
      BY <2>1, <3>1 DEF SameNames
  <2>5. \A i \in L4Ids : slot[i] # None /\ l4'[i] \in {"run", "pdx"} =>
           slot[i] \in hash' /\ thread'[slot[i]].state = "ok"
    <3> SUFFICES ASSUME NEW i \in L4Ids, slot[i] # None, l4'[i] \in {"run", "pdx"}
                 PROVE  slot[i] \in hash' /\ thread'[slot[i]].state = "ok"
      OBVIOUS
    <3>1. i # Id(t)
      BY <2>1
    <3>2. CASE l4'[i] = l4[i]
      <4>1. slot[i] \in hash /\ thread[slot[i]].state = "ok"
        BY <1>3, <3>2 DEF L4s
      <4>2. slot[i] # t
        BY <1>3, <3>1 DEF L4s, Id
      <4> QED
        BY <2>1, <4>1, <4>2
    <3> QED
      BY <2>2, <3>1, <3>2
  <2>6. L4s(thread', hash', slot', l4', fault') /\ FaultKnown(thread', fault')
    BY <1>1, <2>4, <2>5 DEF L4s, FaultKnown
  <2> QED
    BY <1>1, <1>9, <1>11, <2>3, <2>6 DEF NotifiedWell, Kept
<1> QED
  BY <1>10, <1>11 DEF IInv

-----------------------------------------------------------------------------
(* The invariant *)

LEMMA InitKept == Init => IInv
<1> SUFFICES ASSUME Init PROVE IInv
  OBVIOUS
<1>1. PICK t \in Threads :
        /\ thread = [u \in Threads |-> IF u = t
                        THEN [Blank(HomeApd) EXCEPT !.tid = 1, !.state = "ok", !.lthread = 1]
                        ELSE Blank(HomeApd)]
        /\ hash = {t}
        /\ pool = [a \in Apds |-> <<>>]
        /\ users = [a \in Apds |-> IF a = HomeApd THEN 1 ELSE 0]
        /\ slot = [i \in L4Ids |-> IF i = <<HomeApd, 1>> THEN t ELSE None]
        /\ l4 = [i \in L4Ids |-> IF i = <<HomeApd, 1>> THEN "run" ELSE "ended"]
        /\ fault = None
        /\ next_tid = 2
        /\ returned = {}
        /\ answer = NoAnswer
        /\ stop = "no"
  BY DEF Init
<1>2. /\ None \notin Threads /\ HomeApd \in Apds /\ MaxTid \in Nat \ {0}
      /\ IsFiniteSet(Threads)
  BY ThreadsAssumption
<1> DEFINE b == [Blank(HomeApd) EXCEPT !.tid = 1, !.state = "ok", !.lthread = 1]
           z == Blank(HomeApd)
<1>3. Cardinality(Threads) \in Nat /\ Cardinality(Threads) >= 1
  <2>1. Cardinality(Threads) \in Nat /\ Cardinality(Threads) # 0
    BY <1>2, FS_CardinalityType, FS_EmptySet
  <2> QED
    BY <2>1
<1>4. b \in Structures /\ z \in Structures
  <2>1. 0 \in Tids /\ 1 \in Tids /\ 0 \in 0 .. Cardinality(Threads)
        /\ 1 \in 0 .. Cardinality(Threads)
    BY <1>2, <1>3 DEF Tids
  <2>2. z \in Structures
    BY <1>2, <2>1, EmptyQueue DEF Blank, Structures, States, NullTid
  <2>3. b = [z EXCEPT !.tid = 1, !.state = "ok", !.lthread = 1]
    OBVIOUS
  <2> HIDE DEF z, b
  <2>4. b \in Structures
    BY <2>1, <2>2, <2>3 DEF Structures, States
  <2> QED
    BY <2>2, <2>4
<1>5. /\ b.tid = 1 /\ b.state = "ok" /\ b.lthread = 1 /\ b.creator = 0 /\ b.waiting = None
      /\ b.pdx = None /\ b.parent = None /\ b.waiters = <<>> /\ b.zombies = <<>>
      /\ b.apd = HomeApd
      /\ z.tid = 0 /\ z.state = "unused" /\ z.lthread = 0 /\ z.creator = 0 /\ z.apd = HomeApd
      /\ z.waiters = <<>>
  BY DEF Blank, NullTid
<1> HIDE DEF b, z
<1>6. thread \in Structs /\ \A u \in Threads : thread[u] = IF u = t THEN b ELSE z
  BY <1>1, <1>4 DEF Structs, b, z
<1>7. TypeOK /\ AnswersTrue
  <2>1. users \in [Apds -> 0 .. Cardinality(Threads)] /\ pool \in [Apds -> Seq(Threads)]
    BY <1>1, <1>3
  <2>2. slot \in [L4Ids -> Threads \cup {None}] /\ l4 \in [L4Ids -> L4States]
    BY <1>1 DEF L4States
  <2>3. AnswersTrue /\ answer \in Answers
    BY <1>1, NoAnswerTrue DEF NoAnswer, AnswersTrue, NullTid
  <2> QED
    BY <1>1, <1>2, <1>6, <2>1, <2>2, <2>3, TypeFacts DEF Stops
<1>8. Names(thread, next_tid)
  <2>1. \A u \in Threads : InUse(thread, u) <=> u = t
    BY <1>5, <1>6 DEF InUse
  <2>2. /\ thread[t].tid = 1 /\ thread[t].lthread = 1
        /\ \A u \in Threads : thread[u].creator = 0
        /\ \A u \in Threads \ {t} : thread[u].tid = 0 /\ thread[u].lthread = 0
    BY <1>5, <1>6
  <2> QED
    BY <1>1, <2>1, <2>2 DEF Names, NullTid
<1>9. Placed(thread, hash, pool)
  <2>1. \A a \in Apds : DOMAIN pool[a] = {} /\ Elements(pool[a]) = {}
    BY <1>1 DEF Elements
  <2>2. \A u \in Threads : thread[u].apd \in Apds
    BY <1>2, <1>5, <1>6
  <2> QED
    BY <1>1, <1>5, <1>6, <2>1, <2>2 DEF Placed, InUse
<1>10. Counted(thread, hash, users)
  <2> SUFFICES ASSUME NEW a \in Apds
               PROVE  users[a] = Cardinality(Residents(thread, hash, a))
    BY DEF Counted
  <2>1. CASE a = HomeApd
    <3>1. Residents(thread, hash, a) = {t}
      BY <1>1, <1>5, <1>6, <2>1 DEF Residents
    <3>2. Cardinality({t}) = 1
      BY FS_Singleton
    <3> QED
      BY <1>1, <2>1, <3>1, <3>2
  <2>2. CASE a # HomeApd
    <3>1. Residents(thread, hash, a) = {}
      BY <1>1, <1>5, <1>6, <2>2 DEF Residents
    <3>2. Cardinality({}) = 0
      BY FS_EmptySet
    <3> QED
      BY <1>1, <2>2, <3>1, <3>2
  <2> QED
    BY <2>1, <2>2
<1>11. L4s(thread, hash, slot, l4, fault) /\ FaultKnown(thread, fault)
  BY <1>1, <1>2, <1>5, <1>6 DEF L4s, FaultKnown
<1>12. Waiting(thread, hash, returned) /\ Zombies(thread, hash, next_tid)
       /\ Gone(thread, hash, next_tid, returned)
  <2>1. \A u \in Threads : thread[u].waiters = <<>>
    BY <1>5, <1>6
  <2>2. thread[t].state = "ok" /\ thread[t].waiting = None /\ thread[t].zombies = <<>>
    BY <1>5, <1>6
  <2>3. Waiting(thread, hash, returned)
    BY <1>1, <2>1, <2>2, EmptyQueue DEF Waiting
  <2>4. Zombies(thread, hash, next_tid)
    BY <1>1, <2>2, EmptyQueue DEF Zombies
  <2> QED
    BY <1>1, <2>3, <2>4 DEF Gone
<1> QED
  BY <1>7, <1>8, <1>9, <1>10, <1>11, <1>12 DEF IInv, Kept
LEMMA StepKeeps ==
    ASSUME IInv, [Next]_vars
    PROVE  IInv'
<1>1. TypeOK /\ AnswersTrue /\ (stop = "no" => Kept)
  BY DEF IInv
<1>2. ASSUME NEW c \in Threads, NEW t \in Threads, ThreadDelete(c, t) PROVE IInv'
  BY <1>1, <1>2, ThreadDeleteKeeps
<1>3. ASSUME NEW c \in Threads, NEW t \in Threads, LookupHangs(c, t) PROVE IInv'
  BY <1>1, <1>3, HaltsKeeps DEF LookupHangs, Stops
<1>4. ASSUME NEW c \in Threads, NEW t \in Threads, WaitReaps(c, t) PROVE IInv'
  BY <1>1, <1>4, WaitReapsKeeps
<1>5. ASSUME NEW c \in Threads, NEW t \in Threads, WaitBlocks(c, t) PROVE IInv'
  BY <1>1, <1>5, WaitBlocksKeeps
<1>6. ASSUME NEW c \in Threads, ThreadReturn(c) PROVE IInv'
  BY <1>1, <1>6, ThreadReturnKeeps
<1>7. ASSUME NEW c \in Threads, WaitAny(c) PROVE IInv'
  BY <1>1, <1>7, WaitAnyKeeps
<1>8. ASSUME NEW c \in Threads, PdxCall(c) PROVE IInv'
  BY <1>1, <1>8, PdxCallKeeps
<1>9. ASSUME NEW c \in Threads, PdxReturn(c) PROVE IInv'
  BY <1>1, <1>9, PdxReturnKeeps
<1>10. ASSUME NEW c \in Threads, Fault(c) PROVE IInv'
  BY <1>1, <1>10, FaultKeeps
<1>11. ASSUME NEW c \in Threads, NEW a \in Apds, ThreadCreate(c, a) PROVE IInv'
  BY <1>1, <1>11, ThreadCreateKeeps
<1>12. CASE FaultServed
  BY <1>1, <1>12, FaultServedKeeps
<1>13. CASE FaultKills
  BY <1>1, <1>13, FaultKillsKeeps
<1>14. CASE FaultKillsLate
  BY <1>1, <1>14, HaltsKeeps DEF FaultKillsLate, Stops
<1>15. CASE UNCHANGED vars
  <2>1. /\ thread' = thread /\ hash' = hash /\ pool' = pool /\ users' = users /\ slot' = slot
        /\ l4' = l4 /\ fault' = fault /\ next_tid' = next_tid /\ returned' = returned
        /\ answer' = answer /\ stop' = stop
    BY <1>15 DEF vars
  <2>2. TypeOK' /\ AnswersTrue'
    BY <1>1, <2>1 DEF TypeOK, AnswersTrue
  <2>3. Kept => Kept'
    BY <2>1 DEF Kept
  <2> QED
    BY <1>1, <2>1, <2>2, <2>3 DEF IInv
<1> QED
  BY <1>2, <1>3, <1>4, <1>5, <1>6, <1>7, <1>8, <1>9, <1>10, <1>11, <1>12, <1>13, <1>14, <1>15
     DEF Next

\* The inductive invariant: it is what the theorems below are read off.
THEOREM ThreadsInvariant == Spec => []IInv
<1>1. Init => IInv
  BY InitKept
<1>2. IInv /\ [Next]_vars => IInv'
  BY StepKeeps
<1> QED
  BY <1>1, <1>2, PTL DEF Spec

\* The structures, queues and tables keep their shapes: a tid, an use count and a number of
\* a L4 thread stay within their bounds, and the model stops for a reason it names.
THEOREM ThreadsTyped == Spec => []TypeOK
<1>1. IInv => TypeOK
  BY DEF IInv
<1> QED
  BY <1>1, ThreadsInvariant, PTL

LEMMA DistinctLength ==
    ASSUME NEW q \in Seq(Threads), \A i, j \in DOMAIN q : q[i] = q[j] => i = j
    PROVE  Cardinality(Elements(q)) = Len(q)
<1> DEFINE n == Len(q)
           T == Elements(q)
<1>1. n \in Nat /\ DOMAIN q = 1 .. n /\ q = [i \in 1 .. n |-> q[i]]
  OBVIOUS
<1>2. \A i \in 1 .. n : q[i] \in T
  BY <1>1 DEF Elements
<1>3. \A x \in T : \E i \in 1 .. n : q[i] = x
  BY <1>1 DEF Elements
<1> HIDE DEF n, T
<1>4. q \in [1 .. n -> T]
  BY <1>1, <1>2
<1>5. q \in Bijection(1 .. n, T)
  BY <1>1, <1>3, <1>4 DEF Bijection, Injection, Surjection, IsInjective
<1>6. ExistsBijection(1 .. n, T)
  BY <1>5 DEF ExistsBijection
<1> QED
  BY <1>1, <1>6, FS_CountingElements DEF n, T

\* A structure is in use or in the pool of its APD, once, and the use counts of the APDs
\* are right: thread_release and thread_get_mthread lose none and give none twice.
THEOREM StructuresAreKept == Spec => []StructuresKept
<1>1. IInv => StructuresKept
  <2> SUFFICES ASSUME IInv, stop = "no"
               PROVE  /\ \A a \in Apds :
                            /\ users[a] = Cardinality({t \in hash : thread[t].apd = a})
                            /\ Cardinality(Elements(pool[a])) = Len(pool[a])
                            /\ \A t \in Elements(pool[a]) : thread[t].apd = a
                      /\ \A t \in Threads :
                            thread[t].state # "unused" <=>
                                t \in hash \/ t \in Elements(pool[thread[t].apd])
                      /\ \A a \in Apds : hash \cap Elements(pool[a]) = {}
    BY DEF StructuresKept
  <2>1. Placed(thread, hash, pool) /\ Counted(thread, hash, users)
        /\ pool \in [Apds -> Seq(Threads)]
    BY DEF IInv, Kept, TypeOK
  <2>2. \A a \in Apds : users[a] = Cardinality({t \in hash : thread[t].apd = a})
    BY <2>1 DEF Counted, Residents
  <2>3. \A a \in Apds : Cardinality(Elements(pool[a])) = Len(pool[a])
    <3> TAKE a \in Apds
    <3>1. pool[a] \in Seq(Threads) /\ \A i, j \in DOMAIN pool[a] : pool[a][i] = pool[a][j] => i = j
      BY <2>1 DEF Placed
    <3> QED
      BY <3>1, DistinctLength
  <2>4. \A a \in Apds : \A t \in Elements(pool[a]) : thread[t].apd = a /\ t \notin hash
    BY <2>1 DEF Placed, Elements
  <2>5. \A t \in Threads : thread[t].state # "unused" <=>
                              t \in hash \/ t \in Elements(pool[thread[t].apd])
    BY <2>1 DEF Placed, InUse
  <2> QED
    BY <2>2, <2>3, <2>4, <2>5
<1> QED
  BY <1>1, ThreadsInvariant, PTL

\* A ThreadWait, by any ancestor or the thread itself, blocks only as long as the thread it
\* asked for lives, and that thread has the waiter in its queue, once: do_threads_delete and
\* thread_die find it.  The exception is the return of a PDX procedure.
THEOREM WaitersAreKnown == Spec => []WaitersKnown
<1>1. IInv => WaitersKnown
  <2> SUFFICES ASSUME IInv, stop = "no", NEW w \in hash
               PROVE  LET t == thread[w].waiting
                      IN  IF thread[w].state # "waiting" THEN t = None
                          ELSE \/ thread[w].asked \in returned
                               \/ /\ t \in hash
                                  /\ thread[t].state \in {"ok", "waiting"}
                                  /\ thread[t].tid = thread[w].asked
                                  /\ Cardinality(Positions(thread[t].waiters, w)) = 1
    BY DEF WaitersKnown
  <2>1. Waiting(thread, hash, returned) /\ hash \subseteq Threads
    BY DEF IInv, Kept, TypeOK
  <2>2. CASE thread[w].state # "waiting"
    BY <2>1, <2>2 DEF Waiting
  <2>3. CASE thread[w].state = "waiting" /\ thread[w].asked \in returned
    BY <2>3
  <2>4. CASE thread[w].state = "waiting" /\ thread[w].asked \notin returned
    <3> DEFINE t == thread[w].waiting
    <3>1. /\ t \in hash /\ thread[t].state \in {"ok", "waiting"} /\ thread[t].tid = thread[w].asked
          /\ w \in Members(thread[t].waiters)
      BY <2>1, <2>4 DEF Waiting, Known, Alive
    <3>2. Distinct(thread[t].waiters)
      BY <2>1, <3>1 DEF Waiting
    <3>3. Cardinality(Positions(thread[t].waiters, w)) = 1
      BY <3>1, <3>2, OnceFacts
    <3> QED
      BY <2>4, <3>1, <3>3
  <2> QED
    BY <2>2, <2>3, <2>4
<1> QED
  BY <1>1, ThreadsInvariant, PTL

\* The exit status of a thread stays in its creator's queue of zombies, once, until somebody
\* reaps it, whatever other structures have been released and used again.
THEOREM ExitsAreKept == Spec => []ExitsKept
<1>1. IInv => ExitsKept
  <2> SUFFICES ASSUME IInv, stop = "no", NEW t \in hash, NEW p, p = thread[t].parent,
                      thread[t].state = "zombie", p \in hash, thread[p].tid = thread[t].creator
               PROVE  Cardinality(BlocksOf(thread[p].zombies, t)) = 1
    BY DEF ExitsKept
  <2> DEFINE q == thread[p].zombies
  <2>1. Zombies(thread, hash, next_tid)
    BY DEF IInv, Kept
  <2>2. <<t, thread[t].tid>> \in Entries(q) /\ SingleEntries(q)
    BY <2>1 DEF Zombies
  <2>3. PICK i \in DOMAIN q : Entry(q[i]) = <<t, thread[t].tid>>
    BY <2>2 DEF Entries
  <2>4. BlocksOf(q, t) = {i}
    BY <2>2, <2>3 DEF BlocksOf, Positions, SingleEntries, Entry
  <2> QED
    BY <2>4, FS_Singleton
<1> QED
  BY <1>1, ThreadsInvariant, PTL

\* A ThreadWait for a thread is answered with the exit of that one, and any answer gives the
\* exit status of the thread it is of, or the 0 of a page fault, though its structure may
\* have served other threads.
THEOREM AnswersAreTrue == Spec => []AnswersTrue
<1>1. IInv => AnswersTrue
  BY DEF IInv
<1> QED
  BY <1>1, ThreadsInvariant, PTL
=============================================================================
