------------------------------ MODULE Threads ------------------------------
(***************************************************************************)
(* Threads (threads.c): their creation, deletion and return, ThreadWait,   *)
(* PdxCall, and the page faults that kill a thread.  The system call loop  *)
(* runs one call at a time; mpager handles a fault at the same time.       *)
(*                                                                         *)
(* A mthread_t is never freed: it goes to the pool of its APD and serves   *)
(* another thread later, with the same stack and L4 thread.  Pointers to   *)
(* it stay.  Each APD has one L4 task, which is large enough.              *)
(*                                                                         *)
(* The model stops when an assert fails, a loop does not end or freed      *)
(* memory is used, when a thread dies twice or is about to be reaped       *)
(* twice, or when an answer reaches a thread it is not for.                *)
(***************************************************************************)
EXTENDS Integers, Sequences, FiniteSets, FiniteSetsExt

CONSTANTS Threads,       \* mthread_t structures
          Apds,          \* APDs
          HomeApd,       \* the first thread's APD
          PdxApd,        \* the APD PDX procedures run in
          None,
          MaxTid         \* bound: threads ever created

ASSUME ThreadsAssumption ==
    /\ IsFiniteSet(Threads)
    /\ None \notin Threads
    /\ {HomeApd, PdxApd} \subseteq Apds
    /\ MaxTid \in Nat \ {0}

VARIABLES
    thread,     \* the structures
    hash,       \* mungi_threads: structures found by their tid
    pool,       \* apd_t.threads
    users,      \* apd_t.users
    slot,       \* l4_task_t.l4_threads
    l4,         \* what each L4 thread does
    fault,      \* the thread mpager handles a fault of
    next_tid,
    returned,   \* history: the tids of the PDX procedures that have returned
    answer,     \* history: what a ThreadWait was answered in the last step
    stop        \* why the model stopped

vars == <<thread, hash, pool, users, slot, l4, fault, next_tid, returned, answer, stop>>

Tids  == 0 .. MaxTid
L4Ids == Apds \X (1 .. Cardinality(Threads))

\* THREAD_NULL, THREAD_ANY and THREAD_MYSELF.
NullTid == 0

States == {"unused", "ok", "waiting", "zombie", "dead"}

\* waitq_t: the thread, and whether pprev points into a block that was freed.
\* waitq_remove and waitq_cancel do not update the next block's pprev.  The tid is
\* history: the one the thread had when it was queued.
QueueItems == [thread : Threads, tid : Tids, stale : BOOLEAN]

\* mthread_t.  The last two fields are history: the tids of the thread that created
\* it, and of the last thread it waited for or called by PdxCall.
Structures ==
    [tid : Tids, state : States, parent : Threads \cup {None},
     pdx : Threads \cup {None}, waiting : Threads \cup {None}, lasterror : Tids,
     zombies : Seq(QueueItems), waiters : Seq(QueueItems),
     apd : Apds, lthread : 0 .. Cardinality(Threads),
     creator : Tids, asked : Tids]

TypeOK ==
    /\ thread \in [Threads -> Structures]
    /\ hash \subseteq Threads
    /\ pool \in [Apds -> Seq(Threads)]
    /\ users \in [Apds -> 0 .. Cardinality(Threads)]
    /\ slot \in [L4Ids -> Threads \cup {None}]
    /\ l4 \in [L4Ids -> {"run", "wait", "pdx", "fault", "returned", "ended"}]
    /\ fault \in Threads \cup {None}
    /\ next_tid \in 1 .. MaxTid + 1
    /\ returned \subseteq Tids
    /\ answer \in [asked : Tids, of : Tids, status : Tids]
    /\ stop \in {"no", "assertion", "loop", "memory", "late", "twice", "astray"}

NoAnswer == [asked |-> 0, of |-> 0, status |-> 0]

\* A structure after bzero.
Blank(a) ==
    [tid |-> NullTid, state |-> "unused", parent |-> None, pdx |-> None,
     waiting |-> None, lasterror |-> 0, zombies |-> <<>>, waiters |-> <<>>,
     apd |-> a, lthread |-> 0, creator |-> 0, asked |-> 0]

\* thread_init: one thread, with no parent.
Init ==
    \E t \in Threads :
        /\ thread = [u \in Threads |-> IF u = t
                        THEN [Blank(HomeApd) EXCEPT !.tid = 1, !.state = "ok", !.lthread = 1]
                        ELSE Blank(HomeApd)]
        /\ hash = {t}
        /\ pool = [a \in Apds |-> <<>>]
        /\ users = [a \in Apds |-> IF a = HomeApd THEN 1 ELSE 0]
        /\ slot = [i \in L4Ids |-> IF i = <<HomeApd, 1>> THEN t ELSE None]
        /\ l4 = [i \in L4Ids |-> IF i = <<HomeApd, 1>> THEN "run" ELSE "ended"]
        /\ fault = None
        /\ next_tid = 2
        /\ returned = {}
        /\ answer = NoAnswer
        /\ stop = "no"

-----------------------------------------------------------------------------
(* Looking threads up *)

\* L4ID.
Id(t) == <<thread[t].apd, thread[t].lthread>>

\* A call from a thread the kernel knows: thread_find_from_l4id.
Calls(c) == stop = "no" /\ \E i \in L4Ids : slot[i] = c /\ l4[i] = "run"

\* The n-th ancestor of a thread, or None.
Up(t) == LET up[n \in Nat] ==
                 IF n = 0 THEN t
                 ELSE IF up[n - 1] = None THEN None ELSE thread[up[n - 1]].parent
         IN  up

Ancestors(t) == {Up(t)[n] : n \in 0 .. Cardinality(Threads)}

\* thread_find_mthread_from_parent, with the tid of a thread: it finds threads in
\* the table that c is an ancestor of, or c itself.
Finds(c, t) == t \in hash /\ c \in Ancestors(t)

\* The walk along the parents does not end.
WalksForEver(c, t) == t \in hash /\ Ancestors(t) \cap {c, None} = {}

\* Variant: a zombie passes for alive.
DeadAndReaped(t) == thread[t].state = "dead"

Dead(t) == thread[t].state \in {"zombie", "dead"}

-----------------------------------------------------------------------------
(* Wait queues *)

Item(t, n) == [thread |-> t, tid |-> n, stale |-> FALSE]

Positions(q, t) == {i \in DOMAIN q : q[i].thread = t}

\* Variant: the items after the i-th are dropped too.
UnlinkedTail(q, i) == SubSeq(q, 1, i - 1)

\* A queue without its i-th item: *ptr->pprev = ptr->next.
Unlinked(q, i) ==
    [j \in 1 .. Len(q) - 1 |-> IF j < i THEN q[j]
                               ELSE [q[j + 1] EXCEPT !.stale = @ \/ j = i]]

\* waitq_cancel, for a thread that is at most once in the queue.
Cancelled(q, t) ==
    IF Positions(q, t) = {} THEN q ELSE Unlinked(q, Min(Positions(q, t)))

\* The block that waitq_cancel unlinks is the last one: the loop advances twice, the
\* second time through NULL.  What it finds there is not the program's to say: it may
\* end the loop, or not.
ReadsNull(q, t) == Len(q) \in Positions(q, t)

\* Unlinking writes through a stale pprev.
Damages(q, t) == \E i \in Positions(q, t) : q[i].stale

-----------------------------------------------------------------------------
(* The end of a thread *)

\* Variant: the use count stays.
ReleaseUncounted(t) ==
    /\ hash' = hash \ {t}
    /\ pool' = [pool EXCEPT ![thread[t].apd] = <<t>> \o @]
    /\ users' = users

\* Variant: the table keeps the structure.
ReleaseListed(t) ==
    /\ hash' = hash
    /\ pool' = [pool EXCEPT ![thread[t].apd] = <<t>> \o @]
    /\ users' = [users EXCEPT ![thread[t].apd] = @ - 1]

\* thread_release, for an APD that is not closing.
Release(t) ==
    LET a == thread[t].apd
    IN  /\ hash' = hash \ {t}
        /\ pool' = [pool EXCEPT ![a] = <<t>> \o @]
        /\ users' = [users EXCEPT ![a] = @ - 1]

\* notify_waiters, with structures th and L4 threads ls.  Nobody waits: the thread
\* joins its parent's zombies.  A parent that waits for any thread is not told.
NotifyNobody(th, ls, t) ==
    LET p == th[t].parent
    IN  /\ thread' = IF p = None THEN th
                     ELSE [th EXCEPT ![p].zombies = Append(@, Item(t, th[t].tid))]
        /\ l4' = ls
        /\ answer' = NoAnswer
        /\ UNCHANGED <<hash, pool, users, stop>>

\* The waiter is told, and the thread is released.  If the waiter has lost its L4
\* thread, another one is told, or an assert fails.
NotifyWaiter(th, ls, t, w) ==
    /\ thread' = [th EXCEPT ![w].state = "ok", ![w].waiting = None,
                            ![t].state = "dead", ![t].waiters = <<>>]
    /\ answer' = [asked |-> th[w].asked, of |-> th[t].tid, status |-> th[t].lasterror]
    /\ l4' = [ls EXCEPT ![Id(w)] = "run"]
    /\ stop' = IF slot[Id(w)] = w THEN stop ELSE "astray"
    /\ Release(t)

\* Several waiters, or one whose block is stale: the loop comes to a freed block.
NotifyBreaks(th, ls) ==
    /\ thread' = th
    /\ l4' = ls
    /\ stop' = "memory"
    /\ answer' = NoAnswer
    /\ UNCHANGED <<hash, pool, users>>

NotifyWaiters(th, ls, t) ==
    LET q == th[t].waiters
    IN  \/ q = <<>> /\ NotifyNobody(th, ls, t)
        \/ Len(q) = 1 /\ ~q[1].stale /\ NotifyWaiter(th, ls, t, q[1].thread)
        \/ q # <<>> /\ (Len(q) > 1 \/ q[1].stale) /\ NotifyBreaks(th, ls)

\* Variant: a waiting thread is left in the queue.
LeftDangling(t) == [thread EXCEPT ![t].waiting = None]

\* The structures once a waiting thread t has left the queue it is in.
LeftQueue(t) ==
    LET x == thread[t].waiting
    IN  IF x = None THEN thread
        ELSE [thread EXCEPT ![x].waiters = Cancelled(@, t),
                            ![t].state = "ok", ![t].waiting = None]

\* Leaving the queue writes to freed memory, or reads through NULL.
LeavesBroken(t) == thread[t].waiting # None /\ Damages(thread[thread[t].waiting].waiters, t)

LeavesLast(t) == thread[t].waiting # None /\ ReadsNull(thread[thread[t].waiting].waiters, t)

Halts(why) ==
    /\ stop' = why
    /\ answer' = NoAnswer
    /\ UNCHANGED <<thread, hash, pool, users, slot, l4, fault, next_tid, returned>>

\* do_threads_delete, for a thread with no KILL handler.  Its children live on.  Its
\* L4 thread is left as how: nothing stops it, but its calls are ignored.
Delete(t, how) ==
    /\ slot[Id(t)] = t
    /\ ~LeavesBroken(t)
    /\ slot' = [slot EXCEPT ![Id(t)] = None]
    /\ NotifyWaiters([LeftQueue(t) EXCEPT ![t].state = "zombie",
                                          ![t].lasterror = thread[t].tid],
                     [l4 EXCEPT ![Id(t)] = how], t)
    /\ UNCHANGED <<fault, next_tid, returned>>

\* Another thread has its L4 thread: the assert in l4task_thread_remove fails.
DeleteHalts(t) == slot[Id(t)] # t /\ ~LeavesBroken(t) /\ Halts("assertion")

DeleteBreaks(t) == (LeavesBroken(t) \/ LeavesLast(t)) /\ Halts("memory")

\* The KILL handler runs instead, in the L4 thread.
DeleteHandled(t) ==
    /\ ~LeavesBroken(t)
    /\ thread' = LeftQueue(t)
    /\ l4' = [l4 EXCEPT ![Id(t)] = "run"]
    /\ stop' = IF slot[Id(t)] = t THEN stop ELSE "astray"
    /\ answer' = NoAnswer
    /\ UNCHANGED <<hash, pool, users, slot, fault, next_tid, returned>>

-----------------------------------------------------------------------------
(* System calls *)

\* ThreadDelete.
ThreadDelete(c, t) ==
    /\ Calls(c)
    /\ Finds(c, t)
    /\ ~Dead(t)
    /\ Delete(t, "ended") \/ DeleteHalts(t) \/ DeleteBreaks(t) \/ DeleteHandled(t)

\* The main function of a thread returns: thread_return.  How its L4 thread stopped
\* only makes a difference where PDX procedures run.
ThreadReturn(c) ==
    /\ Calls(c)
    /\ thread[c].pdx = None
    /\ ~Dead(c)
    /\ \/ Delete(c, IF thread[c].apd = PdxApd THEN "returned" ELSE "ended")
       \/ DeleteHandled(c)

\* A lookup that comes to a cycle of parents does not end.
LookupHangs(c, t) == Calls(c) /\ WalksForEver(c, t) /\ Halts("loop")

\* The reaper's answer: status, and the thread it is of.  The tid that goes with it is
\* the one asked for, THREAD_ANY for any thread.
Reaped(asked, t) ==
    [asked |-> asked, of |-> thread[t].tid, status |-> thread[t].lasterror]

\* The thread of the block was reaped since, by an ancestor that is not its parent.
Outdated(z) == z.thread \notin hash \/ thread[z.thread].tid # z.tid

\* ThreadWait for any thread: the first zombie is reaped.  If there is none the call
\* returns, for the children field is never set.
WaitAny(c) ==
    /\ Calls(c)
    /\ thread[c].zombies # <<>>
    /\ LET z == Head(thread[c].zombies)
       IN  \/ /\ ~z.stale
              /\ ~Outdated(z)
              /\ thread' = [thread EXCEPT ![c].zombies = Unlinked(@, 1)]
              /\ answer' = Reaped(NullTid, z.thread)
              /\ Release(z.thread)
              /\ UNCHANGED <<slot, l4, fault, next_tid, returned, stop>>
           \/ z.stale /\ Halts("memory")
           \/ Outdated(z) /\ Halts("twice")

\* ThreadWait for a thread that is a zombie: the block leaves the caller's queue, if it
\* is there; in another parent's queue it stays.
WaitReaps(c, t) ==
    LET q == thread[c].zombies
    IN  /\ Calls(c)
        /\ Finds(c, t)
        /\ thread[t].state = "zombie"
        /\ \/ /\ ~Damages(q, t)
              /\ Cardinality(Positions(q, t)) <= 1
              /\ thread' = [thread EXCEPT ![c].zombies = Cancelled(@, t)]
              /\ answer' = Reaped(thread[t].tid, t)
              /\ Release(t)
              /\ UNCHANGED <<slot, l4, fault, next_tid, returned, stop>>
           \/ (Damages(q, t) \/ ReadsNull(q, t)) /\ Halts("memory")
           \/ Cardinality(Positions(q, t)) > 1 /\ Halts("twice")

\* ThreadWait for a thread that runs.
WaitBlocks(c, t) ==
    /\ Calls(c)
    /\ Finds(c, t)
    /\ ~Dead(t)
    /\ thread' = [thread EXCEPT ![t].waiters = Append(@, Item(c, thread[c].tid)),
                                ![c].state = "waiting", ![c].waiting = t,
                                ![c].asked = thread[t].tid]
    /\ l4' = [l4 EXCEPT ![Id(c)] = "wait"]
    /\ answer' = NoAnswer
    /\ UNCHANGED <<hash, pool, users, slot, fault, next_tid, returned, stop>>

\* thread_get_mthread: the first of the pool, or a new structure.
Available(a) ==
    IF pool[a] # <<>> THEN {Head(pool[a])}
    ELSE {t \in Threads : thread[t].state = "unused"}

\* l4task_thread_add: a structure that is used again keeps its L4 thread; a new one
\* gets the first that no live thread has.
Lthread(t, a) ==
    IF thread[t].lthread # 0 THEN thread[t].lthread
    ELSE Min({n \in 1 .. Cardinality(Threads) : slot[<<a, n>>] = None})

\* thread_get_mthread, thread_setup_stack and l4task_thread_add.
Start(t, a, c, proc) ==
    LET n == Lthread(t, a)
    IN  /\ next_tid <= MaxTid
        /\ next_tid' = next_tid + 1
        /\ thread' = [thread EXCEPT
                ![t] = [Blank(a) EXCEPT !.tid = next_tid, !.state = "ok", !.lthread = n,
                                        !.parent = c, !.pdx = IF proc THEN c ELSE None,
                                        !.creator = thread[c].tid],
                ![c].asked = IF proc THEN next_tid ELSE @]
        /\ hash' = hash \cup {t}
        /\ pool' = [pool EXCEPT ![a] = IF @ = <<>> THEN @ ELSE Tail(@)]
        /\ users' = [users EXCEPT ![a] = @ + 1]
        /\ slot' = [slot EXCEPT ![<<a, n>>] = t]

\* ThreadCreate, in the caller's APD or another one.
ThreadCreate(c, a) ==
    /\ Calls(c)
    /\ \E t \in Available(a) :
          /\ Start(t, a, c, FALSE)
          /\ l4' = [l4 EXCEPT ![<<a, Lthread(t, a)>>] = "run"]
    /\ answer' = NoAnswer
    /\ UNCHANGED <<fault, returned, stop>>

\* PdxCall.  A pooled L4 thread is sent its start as the reply to thread_return: one
\* that did not return gets it as an answer to something else, or not at all.
PdxCall(c) ==
    /\ Calls(c)
    /\ \E t \in Available(PdxApd) :
          LET i == <<PdxApd, Lthread(t, PdxApd)>>
          IN  /\ Start(t, PdxApd, c, TRUE)
              /\ l4' = [l4 EXCEPT ![Id(c)] = "pdx", ![i] = "run"]
              /\ stop' = IF pool[PdxApd] # <<>> /\ l4[i] # "returned" THEN "astray"
                         ELSE stop
    /\ answer' = NoAnswer
    /\ UNCHANGED <<fault, returned>>

\* The caller of a PDX procedure still waits for it.
CallerWaits(c) ==
    LET p == thread[c].pdx
    IN  /\ slot[Id(p)] = p
        /\ l4[Id(p)] = "pdx"
        /\ thread[p].asked = thread[c].tid
        /\ thread[p].tid = thread[c].creator

\* A PDX procedure returns: thread_return, and the reply to the caller's L4 thread,
\* whoever uses it by now.  Threads waiting for c are not told.
PdxReturn(c) ==
    /\ Calls(c)
    /\ thread[c].pdx # None
    /\ LET i == Id(thread[c].pdx)
       IN  /\ l4' = [l4 EXCEPT ![Id(c)] = "returned",
                               ![i] = IF CallerWaits(c) THEN "run" ELSE @]
           /\ stop' = IF CallerWaits(c) \/ l4[i] \notin {"wait", "pdx", "returned"}
                      THEN stop ELSE "astray"
    /\ slot' = [slot EXCEPT ![Id(c)] = None]
    /\ Release(c)
    /\ returned' = returned \cup {thread[c].tid}
    /\ answer' = NoAnswer
    /\ UNCHANGED <<thread, fault, next_tid>>

-----------------------------------------------------------------------------
(* Page faults *)

\* get_fault.
Fault(c) ==
    /\ Calls(c)
    /\ fault = None
    /\ fault' = c
    /\ l4' = [l4 EXCEPT ![Id(c)] = "fault"]
    /\ answer' = NoAnswer
    /\ UNCHANGED <<thread, hash, pool, users, slot, next_tid, returned, stop>>

\* handle_fault: the page is mapped, or the thread's handler is called.
FaultServed ==
    /\ stop = "no"
    /\ fault # None
    /\ fault' = None
    /\ l4' = [l4 EXCEPT ![Id(fault)] = IF @ = "fault" THEN "run" ELSE @]
    /\ answer' = NoAnswer
    /\ UNCHANGED <<thread, hash, pool, users, slot, next_tid, returned, stop>>

\* The thread still is the one that took the fault.
StillFaulting(t) == slot[Id(t)] = t /\ l4[Id(t)] = "fault" /\ ~Dead(t)

\* protection_exception without a handler: thread_die.  The slot stays.
FaultKills ==
    /\ stop = "no"
    /\ fault # None
    /\ StillFaulting(fault)
    /\ NotifyWaiters([thread EXCEPT ![fault].state = "zombie", ![fault].lasterror = 0],
                     l4, fault)
    /\ fault' = None
    /\ UNCHANGED <<slot, next_tid, returned>>

\* The thread was deleted since, runs its KILL handler, or is another one by now: a
\* thread that takes no fault is ended, or one ends twice.
FaultKillsLate ==
    /\ stop = "no"
    /\ fault # None
    /\ ~StillFaulting(fault)
    /\ Halts("late")

Next ==
    \/ \E c, t \in Threads :
          \/ ThreadDelete(c, t)
          \/ LookupHangs(c, t)
          \/ WaitReaps(c, t)
          \/ WaitBlocks(c, t)
    \/ \E c \in Threads :
          \/ ThreadReturn(c)
          \/ WaitAny(c)
          \/ PdxCall(c)
          \/ PdxReturn(c)
          \/ Fault(c)
          \/ \E a \in Apds : ThreadCreate(c, a)
    \/ FaultServed
    \/ FaultKills
    \/ FaultKillsLate

Spec == Init /\ [][Next]_vars

-----------------------------------------------------------------------------
(* Properties *)

Elements(q) == {q[i] : i \in DOMAIN q}

\* A structure is in use or in the pool of its APD, once, whichever way its thread
\* ended and was reaped; the use counts, by which APDs are freed, say how many.
StructuresKept ==
    stop = "no" =>
        /\ \A a \in Apds : /\ users[a] = Cardinality({t \in hash : thread[t].apd = a})
                           /\ Cardinality(Elements(pool[a])) = Len(pool[a])
                           /\ \A t \in Elements(pool[a]) : thread[t].apd = a
        /\ \A t \in Threads :
              thread[t].state # "unused" <=>
                  t \in hash \/ t \in Elements(pool[thread[t].apd])
        /\ \A a \in Apds : hash \cap Elements(pool[a]) = {}

\* ThreadWait blocks a thread only as long as the thread it asked for lives, and that
\* one knows of it: whoever ends the latter finds the waiter.  Only a PDX procedure that
\* returns forgets its waiters.
WaitersKnown ==
    stop = "no" =>
        \A w \in hash :
            LET t == thread[w].waiting
            IN  IF thread[w].state # "waiting" THEN t = None
                ELSE \/ thread[w].asked \in returned
                     \/ /\ t \in hash
                        /\ thread[t].state \in {"ok", "waiting"}
                        /\ thread[t].tid = thread[w].asked
                        /\ Cardinality(Positions(thread[t].waiters, w)) = 1

\* The blocks of a queue that were made for the present thread of a structure.
BlocksOf(q, t) == {i \in Positions(q, t) : q[i].tid = thread[t].tid}

\* An exit status is kept until it is reaped for the thread that created the thread, if
\* it is still there: it is in that thread's queue, once.
ExitsKept ==
    stop = "no" =>
        \A t \in hash :
            LET p == thread[t].parent
            IN  thread[t].state = "zombie" /\ p \in hash /\ thread[p].tid = thread[t].creator
                    => Cardinality(BlocksOf(thread[p].zombies, t)) = 1

\* A ThreadWait for a thread is answered with the exit of that thread, and any answer
\* gives the exit status of the thread it is of (0 if that died of a fault), though
\* structures serve other threads in between and queues outlive those in them.
AnswersTrue ==
    /\ answer.asked # NullTid => answer.of = answer.asked
    /\ answer.status \in {0, answer.of}

\* "assert(l4_task->l4_threads[lthread] == thread)", in l4task_thread_remove: a thread
\* that can be deleted is the one its L4 thread is entered for.
OwnL4Thread ==
    stop = "no" => \A t \in hash : ~Dead(t) => slot[Id(t)] = t
=============================================================================
