----------------------------- MODULE Semaphores -----------------------------
(***************************************************************************)
(* The semaphores of an object (semaphore.c) and their wait queues         *)
(* (waitq.c).  The system call loop runs one operation at a time.          *)
(*                                                                         *)
(* A wait queue is a list of heap blocks.  A pointer lives in a location:  *)
(* the head of a semaphore's queue, or the "next" field of a block; a      *)
(* block's pprev names the location that pointed to the block when it was  *)
(* added.  kfree leaves the contents of a block, and so does kmalloc.      *)
(*                                                                         *)
(* waitq_remove does not set the pprev of the block that becomes first.    *)
(* Queues are sound until a block was taken off with another one behind it *)
(* (misplaced).                                                            *)
(*                                                                         *)
(* A thread is an mthread_t with its L4 thread.  The end of a thread does  *)
(* not stop the L4 thread, and the APD's next thread takes over both: a    *)
(* queue entry left behind makes upcall_send answer whatever system call   *)
(* the L4 thread waits for then.                                           *)
(***************************************************************************)
EXTENDS Integers, FiniteSets

CONSTANTS Threads,       \* mthread_t structures with their L4 threads
          Addresses,     \* addresses in the object that name semaphores
          Slots,         \* the SEM_MAX entries of sem_t
          Blocks,        \* heap blocks for waitq_t
          None,
          Elsewhere,     \* the reply of a system call other than sem_wait
          MaxValue,      \* bound: tokens given to a semaphore, and lost
          MaxOwed        \* bound: how far a value goes below zero

ASSUME SemAssumption ==
    /\ Slots \cap Blocks = {}
    /\ None \notin Threads \cup Addresses \cup Slots \cup Blocks
    /\ Elsewhere \notin Slots \cup {None}
    /\ IsFiniteSet(Slots)
    /\ IsFiniteSet(Blocks)
    /\ MaxValue \in Nat
    /\ MaxOwed \in Nat

VARIABLES
    semp,       \* the object has a sem_t
    count,      \* sem_t.count
    address,    \* sem_t.semaphores[].address; None is NULL
    value,      \* sem_t.semaphores[].value
    ptr,        \* contents of each location: a block, or None
    pprev,      \* waitq_t.pprev of each block: a location
    owner,      \* waitq_t.thread of each block
    used,       \* blocks that are allocated
    heap_lock,  \* _kmalloc failed and left the heap locked
    waits,      \* what an L4 thread waits for: the reply of sem_wait, that of
                \* another call (Elsewhere), or None
    alive,      \* structures in use by a thread that was not deleted
    deleting,   \* the semaphore sem_delete is taking threads off, or None
    halted,     \* an assert failed, or the walk along a queue does not end
    queued,     \* history: blocks added to the queue and not taken off it
    given,      \* history: initial value and successful signals
    passed,     \* history: waits that succeeded
    dropped,    \* history: entries a signal took off whose thread did not wait
                \* for the semaphore any more
    robbed,     \* history: semaphores whose waiter a signal of another one woke
    misplaced   \* history: a block became the first of its queue by a removal

blockVars  == <<semp, count, address>>
waitqVars  == <<ptr, pprev, owner, used, heap_lock>>
threadVars == <<waits, alive>>
history    == <<queued, given, passed, dropped, robbed, misplaced>>

vars == <<blockVars, value, waitqVars, threadVars, deleting, halted, history>>

TypeOK ==
    /\ semp \in BOOLEAN
    /\ count \in 0 .. Cardinality(Slots)
    /\ address \in [Slots -> Addresses \cup {None}]
    /\ value \in [Slots -> Int]
    /\ ptr \in [Slots \cup Blocks -> Blocks \cup {None}]
    /\ pprev \in [Blocks -> Slots \cup Blocks \cup {None}]
    /\ owner \in [Blocks -> Threads \cup {None}]
    /\ used \subseteq Blocks
    /\ heap_lock \in BOOLEAN
    /\ waits \in [Threads -> Slots \cup {None, Elsewhere}]
    /\ alive \subseteq Threads
    /\ deleting \in Slots \cup {None}
    /\ halted \in BOOLEAN
    /\ queued \in [Slots -> SUBSET Blocks]
    /\ given \in [Slots -> Nat]
    /\ passed \in [Slots -> Nat]
    /\ dropped \in [Slots -> Nat]
    /\ robbed \subseteq Slots
    /\ misplaced \in BOOLEAN

\* The sem_t and the blocks come from memory that was never used.
Init ==
    /\ semp = FALSE
    /\ count = 0
    /\ address = [s \in Slots |-> None]
    /\ value = [s \in Slots |-> 0]
    /\ ptr = [l \in Slots \cup Blocks |-> None]
    /\ pprev = [b \in Blocks |-> None]
    /\ owner = [b \in Blocks |-> None]
    /\ used = {}
    /\ heap_lock = FALSE
    /\ waits = [t \in Threads |-> None]
    /\ alive = Threads
    /\ deleting = None
    /\ halted = FALSE
    /\ queued = [s \in Slots |-> {}]
    /\ given = [s \in Slots |-> 0]
    /\ passed = [s \in Slots |-> 0]
    /\ dropped = [s \in Slots |-> 0]
    /\ robbed = {}
    /\ misplaced = FALSE

-----------------------------------------------------------------------------
(* Wait queues *)

\* The location at the end of the queue of s, as a set: empty if the list of
\* blocks runs in a circle.  Every set of blocks that holds what s and its own
\* members point to holds the end.
QueueEnd(s) ==
    {l \in Slots \cup Blocks :
        /\ ptr[l] = None
        /\ \A S \in SUBSET Blocks :
              {ptr[k] : k \in S \cup {s}} \subseteq S \cup {None} => l \in S \cup {s}}

\* waitq_add: the walk to the end comes before the writes to the new block.
WaitqAdd(s, t, b) ==
    \E end \in QueueEnd(s) :
        /\ ~heap_lock
        /\ ptr' = [ptr EXCEPT ![b] = None, ![end] = b]
        /\ pprev' = [pprev EXCEPT ![b] = end]
        /\ owner' = [owner EXCEPT ![b] = t]
        /\ used' = used \cup {b}
        /\ UNCHANGED heap_lock

\* Variant: the pointer to the block stays.
WaitqRemoveKeeping(s) ==
    /\ ~heap_lock
    /\ ptr[s] \in used
    /\ used' = used \ {ptr[s]}
    /\ UNCHANGED <<ptr, pprev, owner, heap_lock>>

\* waitq_remove of a block that is allocated.
WaitqRemove(s) ==
    /\ ~heap_lock
    /\ ptr[s] \in used
    /\ ptr' = [ptr EXCEPT ![pprev[ptr[s]]] = ptr[ptr[s]]]
    /\ used' = used \ {ptr[s]}
    /\ UNCHANGED <<pprev, owner, heap_lock>>

\* waitq_remove that does not return: the block is not allocated, and _kfree's
\* assertion fails, or _kfree waits for the heap.
RemoveHalts(s) == \/ ptr[s] \in Blocks \ used
                  \/ ptr[s] \in used /\ heap_lock

\* _kmalloc finds no memory.
NoMemory ==
    /\ ~heap_lock
    /\ heap_lock' = TRUE
    /\ UNCHANGED <<ptr, pprev, owner, used>>

\* The first block of the queue of s goes; the one behind it keeps its pprev.
TakeOff(s) ==
    /\ WaitqRemove(s)
    /\ queued' = [queued EXCEPT ![s] = @ \ {ptr[s]}]
    /\ misplaced' = (misplaced \/ ptr[ptr[s]] # None)

\* upcall_send: the L4 thread gets the value, whatever call it waits in.
UpcallArrives(t) == waits[t] # None

-----------------------------------------------------------------------------
(* Operations *)

Ready == deleting = None /\ ~halted

\* The bounds of the signals.
Within(s) ==
    /\ given[s] < MaxValue
    /\ dropped[s] < MaxValue
    /\ \A k \in Slots : passed[k] <= MaxValue

\* sem_create: the address is new, an entry is free; the queue is not set up.
Create(s, a, v) ==
    /\ Ready
    /\ a \notin {address[k] : k \in Slots}
    /\ address[s] = None
    /\ semp \/ ~heap_lock
    /\ semp' = TRUE
    /\ count' = count + 1
    /\ address' = [address EXCEPT ![s] = a]
    /\ value' = [value EXCEPT ![s] = v]
    /\ given' = [given EXCEPT ![s] = v]
    /\ passed' = [passed EXCEPT ![s] = 0]
    /\ dropped' = [dropped EXCEPT ![s] = 0]
    /\ robbed' = robbed \ {s}
    /\ UNCHANGED <<waitqVars, threadVars, deleting, halted, queued, misplaced>>

CreateNoMemory ==
    /\ Ready
    /\ ~semp
    /\ NoMemory
    /\ UNCHANGED <<blockVars, value, threadVars, deleting, halted, history>>

\* Variant: the count does not go down.
Uncounted(n) == n

Discounted(n) == n - 1

\* sem_delete, up to its loop over the waiting threads.
Delete(s) ==
    /\ Ready
    /\ address[s] # None
    /\ address' = [address EXCEPT ![s] = None]
    /\ count' = Discounted(count)
    /\ deleting' = s
    /\ UNCHANGED <<semp, value, waitqVars, threadVars, halted, history>>

\* One round of the loop.
DeleteFails(s) ==
    /\ deleting = s
    /\ ~halted
    /\ TakeOff(s)
    /\ waits' = [waits EXCEPT ![owner[ptr[s]]] = None]
    /\ UNCHANGED <<blockVars, value, alive, deleting, halted, given, passed,
                   dropped, robbed>>

\* Variant: the sem_t is never freed.
BlockKept(n) == TRUE

BlockNeeded(n) == n # 0

\* Its end: the sem_t goes with the last semaphore.
DeleteEnds(s) ==
    /\ deleting = s
    /\ ~halted
    /\ ptr[s] = None
    /\ BlockNeeded(count) \/ ~heap_lock
    /\ deleting' = None
    /\ semp' = BlockNeeded(count)
    /\ UNCHANGED <<count, address, value, waitqVars, threadVars, halted,
                   history>>

\* Variants: one thread too many passes, or one too few.
MustWaitEarly(s) == value[s] <= 1
MustWaitLate(s) == value[s] < 0

MustWait(s) == value[s] <= 0

CanCall(t, s) == Ready /\ t \in alive /\ waits[t] = None /\ address[s] # None

\* sem_wait.
WaitPasses(t, s) ==
    /\ CanCall(t, s)
    /\ ~MustWait(s)
    /\ value' = [value EXCEPT ![s] = @ - 1]
    /\ passed' = [passed EXCEPT ![s] = @ + 1]
    /\ UNCHANGED <<blockVars, waitqVars, threadVars, deleting, halted, queued,
                   given, dropped, robbed, misplaced>>

WaitBlocks(t, s) ==
    /\ CanCall(t, s)
    /\ MustWait(s)
    /\ -MaxOwed < value[s]
    /\ \E b \in Blocks \ used :
          /\ WaitqAdd(s, t, b)
          /\ queued' = [queued EXCEPT ![s] = @ \cup {b}]
    /\ value' = [value EXCEPT ![s] = @ - 1]
    /\ waits' = [waits EXCEPT ![t] = s]
    /\ UNCHANGED <<blockVars, alive, deleting, halted, given, passed, dropped,
                   robbed, misplaced>>

\* Variant: the value is not put back.
RestoredNot(v) == v

\* What value becomes when the operation is undone.
Restored(v) == v + 1

\* No memory for a queue entry: the decrement is undone, the call fails.
WaitNoMemory(t, s) ==
    /\ CanCall(t, s)
    /\ MustWait(s)
    /\ NoMemory
    /\ value' = [value EXCEPT ![s] = Restored(@ - 1)]
    /\ UNCHANGED <<blockVars, threadVars, deleting, halted, history>>

\* sem_signal.
SignalNobody(s) ==
    /\ Ready
    /\ address[s] # None
    /\ Within(s)
    /\ ptr[s] = None
    /\ value' = [value EXCEPT ![s] = @ + 1]
    /\ given' = [given EXCEPT ![s] = @ + 1]
    /\ UNCHANGED <<blockVars, waitqVars, threadVars, deleting, halted, queued,
                   passed, dropped, robbed, misplaced>>

\* The call the L4 thread waits in returns success: the wait for s, the wait
\* for another semaphore, or some other call.
SignalWakes(s) ==
    /\ Ready
    /\ address[s] # None
    /\ Within(s)
    /\ TakeOff(s)
    /\ LET t == owner[ptr[s]]
           w == waits[t]
       IN  /\ UpcallArrives(t)
           /\ waits' = [waits EXCEPT ![t] = None]
           /\ passed' = [k \in Slots |-> passed[k] + (IF k = w THEN 1 ELSE 0)]
           /\ dropped' = [dropped EXCEPT ![s] = @ + (IF w = s THEN 0 ELSE 1)]
           /\ robbed' = robbed \cup ({w} \cap (Slots \ {s}))
    /\ value' = [value EXCEPT ![s] = @ + 1]
    /\ given' = [given EXCEPT ![s] = @ + 1]
    /\ UNCHANGED <<blockVars, alive, deleting, halted>>

\* The entry is off the queue, but nobody takes the reply: the increment is
\* undone and the signal fails.
SignalFails(s) ==
    /\ Ready
    /\ address[s] # None
    /\ Within(s)
    /\ TakeOff(s)
    /\ ~UpcallArrives(owner[ptr[s]])
    /\ dropped' = [dropped EXCEPT ![s] = @ + 1]
    /\ UNCHANGED <<blockVars, value, threadVars, deleting, halted, given,
                   passed, robbed>>

\* The operations that do not end.
Halt(s) ==
    /\ ~halted
    /\ \/ deleting = s /\ RemoveHalts(s)
       \/ deleting = s /\ ptr[s] = None /\ ~BlockNeeded(count) /\ heap_lock
       \/ Ready /\ address[s] # None /\ RemoveHalts(s)
       \/ Ready /\ ~semp /\ heap_lock
       \/ /\ \E t \in Threads : CanCall(t, s)
          /\ MustWait(s)
          /\ QueueEnd(s) = {} \/ heap_lock
    /\ halted' = TRUE
    /\ UNCHANGED <<blockVars, value, waitqVars, threadVars, deleting, history>>

\* thread_delete without a KILL handler: the thread is no more, its L4 thread
\* still waits, and its queue entry stays.
Die(t) ==
    /\ Ready
    /\ t \in alive
    /\ alive' = alive \ {t}
    /\ UNCHANGED <<blockVars, value, waitqVars, waits, deleting, halted, history>>

\* The L4 thread of t is started anew, out of what it waited in; queue entries stay.
Restarted(t) ==
    /\ Ready
    /\ waits' = [waits EXCEPT ![t] = None]
    /\ UNCHANGED <<blockVars, value, waitqVars, deleting, halted, history>>

\* thread_delete with a KILL handler: the thread goes on there.
Handler(t) == t \in alive /\ Restarted(t) /\ UNCHANGED alive

\* thread_get_mthread: the structure serves the next thread of the APD.
Reborn(t) == t \notin alive /\ Restarted(t) /\ alive' = alive \cup {t}

\* A call that is answered later (thread_wait, thread_sleep, a PDX call).
BlockElsewhere(t) ==
    /\ Ready
    /\ t \in alive
    /\ waits[t] = None
    /\ waits' = [waits EXCEPT ![t] = Elsewhere]
    /\ UNCHANGED <<blockVars, value, waitqVars, alive, deleting, halted, history>>

\* Its answer.
Answered(t) == waits[t] = Elsewhere /\ Restarted(t) /\ UNCHANGED alive

Next ==
    \/ \E s \in Slots :
          \/ \E a \in Addresses, v \in 0 .. MaxValue : Create(s, a, v)
          \/ Delete(s)
          \/ DeleteFails(s)
          \/ DeleteEnds(s)
          \/ \E t \in Threads : \/ WaitPasses(t, s)
                                \/ WaitBlocks(t, s)
                                \/ WaitNoMemory(t, s)
          \/ SignalNobody(s)
          \/ SignalWakes(s)
          \/ SignalFails(s)
          \/ Halt(s)
    \/ CreateNoMemory
    \/ \E t \in Threads : \/ Die(t)
                          \/ Handler(t)
                          \/ Reborn(t)
                          \/ BlockElsewhere(t)
                          \/ Answered(t)

Spec == Init /\ [][Next]_vars

-----------------------------------------------------------------------------
(* Properties *)

InUse(s) == address[s] # None

\* Except for BlockAccounted these hold until a block was taken off a queue
\* with another one behind it.  The first two and the account of a value say
\* nothing of a semaphore whose waiter another one's signal woke (robbed).

\* Mutual exclusion: no more waits succeed than the initial value and the
\* successful signals allow, whatever fails or ends in between.
NeverTooMany ==
    ~misplaced => \A s \in Slots \ robbed : InUse(s) => passed[s] <= given[s]

\* No L4 thread waits for a token that is there; a token is lost only to an
\* entry whose thread has stopped waiting for the semaphore.
NoIdleToken ==
    ~misplaced =>
    \A t \in Threads, s \in Slots \ robbed :
        InUse(s) /\ waits[t] = s => given[s] <= passed[s] + dropped[s]

\* The value is what the entries in the queue, those that were dropped and the
\* threads that passed leave of what was given, also after an operation failed
\* halfway or an entry's thread was replaced.
ValueAccounts ==
    ~misplaced => \A s \in Slots \ robbed :
        InUse(s) =>
            value[s] = given[s] - passed[s] - dropped[s] - Cardinality(queued[s])

\* The blocks in use are those of the queues, each in one; they are linked as
\* waitq_remove supposes; whoever waits for a semaphore is in its queue; and
\* every operation ends unless an allocation failed.
QueueSound ==
    ~misplaced =>
    /\ halted => heap_lock
    /\ used = UNION {queued[s] : s \in Slots}
    /\ \A s, k \in Slots : s # k => queued[s] \cap queued[k] = {}
    /\ \A s \in Slots, b \in Blocks : b \in queued[s] =>
          pprev[b] \in queued[s] \cup {s} /\ ptr[pprev[b]] = b
    /\ \A s \in Slots, t \in Threads : waits[t] = s =>
          \E b \in queued[s] : owner[b] = t

\* The sem_t exists exactly while a semaphore does, or while the last one is
\* being deleted, and no address names two.
BlockAccounted ==
    /\ count = Cardinality({s \in Slots : InUse(s)})
    /\ semp <=> (count > 0 \/ deleting # None)
    /\ \A s, k \in Slots : InUse(s) /\ address[s] = address[k] => s = k
=============================================================================
