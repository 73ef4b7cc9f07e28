# A TLA+ development for the Mungi kernel

Mungi is a single-address-space operating system on the L4 microkernel. Every
object lives at one address in one 64-bit address space that all tasks share, and
what a task may touch is decided by capabilities: a password presented for an
address. The kernel is a server task on L4. This directory holds TLA+ modules for
the kernel's own logic, TLC configurations that check them on small instances, and
TLAPS proofs for what matters most. Paths below are relative to the repository
root (`src/`), and the kernel's sources are in `src/kernel/src`.

- [1. Inventory](#1-inventory)
- [2. Plan](#2-plan)
- [3. Modules and the code](#3-modules-and-the-code)
- [4. Runs, bounds, fairness](#4-runs-bounds-fairness)
- [5. Where the code departs from its description](#5-where-the-code-departs-from-its-description)
- [6. Proofs](#6-proofs)
- [7. What is not modelled](#7-what-is-not-modelled)

## 1. Inventory

The kernel server runs a handful of threads in one address space: the **system
call loop** (`syscalls.c`), which takes one request at a time and runs it to its
end; **mpager**, which answers the page faults of user threads; **apager**, which
creates tasks; an **exception** handler, a **clock**, the console. They share the
kernel's data and synchronise with spin locks (`lock.h`). Backing memory comes
from a second task, **rpager** (`vm/`), reached by IPC. An `assert` that fails
enters the kernel debugger: the machine stops.

| Component | State | Operations | Interacts by | Hard behaviour | What makes it correct |
|---|---|---|---|---|---|
| Access validation (`security.c`, `vcache.c`) | per-APD cache of validations, its last hit, timestamps | `validate_obj`, `do_validate_obj`, `vcache_check`, `vcache_add`, `vcache_flush` | called by the system call loop and by mpager; reads clists in user memory; takes the APD lock in the middle of a validation | two threads in the middle of validations while objects are deleted, passwords change, caches are flushed; stale `object_t` pointers | what the cache grants was granted by a full validation, not longer than the timeout ago, and since the last flush; an entry whose object is gone serves no longer than the timeout |
| Object passwords (`objects.c`) | `passwd[]`, `rights[]`, `n_caps` of each object | `object_add`, `object_passwd`, `object_delete` | read by validations; memory from the kernel heap, not cleared | slots freed and taken again; contents of memory used before | the slots implement a map from passwords to modes |
| Object table and objects (`objects.c`) | B+-tree of `object_t`; PDX slots of each object | create, delete, resize, info, pdx | freelist, heap, validation | failure half way, resize next to another object | table, freelist and objects agree |
| APD slots (`apd.c`) | `clist[]`, `n_apd`, `n_locked` | insert, delete, lock, get, `apd_pdx_merge` | searched by validations, under the APD lock | counts against the array's bounds; shifts | locked slots stay; a deleted clist is gone; the count stays in the array |
| APD lifetime, PDX cache (`apd.c`, `pdxcache.c`) | user counts, a table of cached APDs with timeouts | find or create, close, clone; cache insert, lookup, remove | thread creation and deletion, PdxCall, the clock | reference counts; a full cache; shared validation caches | an APD is freed when, and only when, nobody uses it |
| Semaphores, wait queues (`semaphore.c`, `waitq.c`) | `sem_t` of an object: count, addresses, values, queue heads; heap blocks linked by `next`/`pprev` | create, delete, wait, signal; add, remove, cancel | a waiting thread's reply is withheld and sent later as an upcall | threads deleted, restarted by a handler or replaced in their structure while an entry is queued; allocation failures half way; pointers into freed blocks | tokens are neither invented nor left idle; FIFO |
| Threads (`threads.c`, `pending_requests.c`) | tree of `mthread_t`, zombies, waiters, L4 task and thread numbers, pending requests | create, delete, `ThreadWait`, resume, PdxCall and return | wait queues, APDs, upcalls | a thread deleted while others wait for it; numbers and slots used again; tables that fill up | a waiter is answered once, by an exit it waited for |
| Object space, kernel heap (`mm.c`) | freelist of address ranges; buckets of the heap | `kmalloc_obj`, `kmalloc_obj_addr`, `kfree_obj`; `kmalloc`, `kfree` | object creation, deletion, resizing | splitting and joining ranges, rounding, heap exhaustion inside | every page belongs to one object or one free range |
| Object table index (`lib/klibc/btree.c`) | B+-tree pages and pins | insert, delete, search | object table | splits, merges, redistribution | the tree implements an ordered set |
| System call loop (`syscalls.c`) | current request | one handler per call | everything above | checks before use, statuses | each handler validates before it acts |
| Page faults, pages (`pager.c`) | none of its own | `handle_fault`, page copy, page flush | validation, rpager | runs at the same time as system calls | a page is mapped only after a validation |
| RAM pager (`vm/`) | page table, frame list, pending faults, outstanding requests | fault, map, request, force out a frame, save state | IPC with mpager and the file server | answers arrive later; two faults on one page; no frame left; collisions in two tables | each fault is answered, with a frame that was read for its page |
| Upcalls, exceptions (`upcall.c`, `exception.c`) | none | send a withheld reply, start an exception handler | threads, semaphores | the receiver may be gone | a reply reaches the thread it is for |
| System call stubs, C library, mlib, naming library, applications, drivers, boot | – | – | – | – | – | user code, device I/O, or run once; see [7](#7-what-is-not-modelled) |

`PROJECT.json` lists the components with their status, and under `hazards` what in
this code a test would hardly reach, each at its line.

## 2. Plan

Order of work, the most important behaviour first. All of it is done.

1. **Validation**: `PasswdSlots` (pure), `Validation`, `ValidationProofs`.
2. **Passwords as a map**: `PasswdTable`, the abstract specification; `ObjPasswd`, which
   implements it; `ObjPasswdProofs`.
3. **APD slots**: `ApdSlots`, `ApdSlotsProofs`.
4. **Semaphores and wait queues**: `Semaphores`, `SemaphoresProofs`.
5. **Object space**: `ObjectSpace`, the freelist under object creation, deletion and
   resizing, with unrounded lengths; `ObjectSpaceProofs`.
6. **Threads and PDX calls**: `Threads`, with creation, deletion, zombies, waiters (with
   `waitq_cancel`), PdxCall, and mpager killing a thread meanwhile; `ThreadsProofs`.
7. **APD lifetime and PDX cache**: `PdxCalls`, `PdxCallsProofs`. PdxCall in the steps
   between which mpager may kill a thread, the table of APDs made for calls, the cache of
   validated calls, use counts, failures half way.
8. **RAM pager**: `RamPager`, `RamPagerProofs`. Faults from the user thread to the
   mapping, over five threads that talk by IPC, with liveness under fairness.
9. **Object table index**: `ObjectIndex`, the abstract specification; `BTree`, the
   B+-tree that implements it.
10. **Proofs** of 1 to 8, the last being `ThreadsProofs`. What item 9 and the liveness
   of item 8 promise is checked by TLC alone ([6](#6-proofs)).

`PasswdSlots` is used by both `ObjPasswd` and `Validation`; `Validation` composes
objects, passwords, clists, cache and two threads; `PdxCalls` composes PDX registration,
both caches, APDs and the threads that keep them; `RamPager` composes mpager, apager,
rpager, the RAM disk and the users. Modules that are proved about use no `RECURSIVE`
operator; walks along lists are recursive functions, or least sets.

## 3. Modules and the code

`PROJECT.json` maps every definition to the lines it stands for. Definitions marked
*Variant* are the code with a plausible mistake in it; the properties are checked to
tell them apart from the code, and no specification uses them.

### PasswdSlots
The slots of an `objinfo_t` as pure operators. A mode is a set of rights, which may
hold `NOT`, the bit of a negative capability; the empty mode marks a free slot.
`PasswdSet` is `object_passwd`: it compares every slot with the password, those above
`n_caps` too, except the first free one, and takes the first free slot if none
matches. `DecidingSlots`, `Allows`, `Denies` are `do_validate_passwd_std`, which looks
below `n_caps` only and stops at the first slot that decides.

### PasswdTable, ObjPasswd
`ObjPasswd` follows the objects that live one after the other in one heap cell, at the
level of slots. `Create` takes memory with any contents (`Memory`, any set of them for the
proofs): `kmalloc` does not clear it and `object_add` writes slot 0 only. The passwords
found in the other slots are history (`left`). Memory never used holds the password 0 there,
which is a password like any other (`docs/API/api.tex`: a capability with a zero
password "is considered a valid capability"), so 0 is in `left` for objects in fresh memory.

`PasswdTable` is what `ObjCreate`, `ObjPasswd` and `ObjDelete` promise: a map from
passwords to modes, in which a call fails only for want of room. It promises nothing of
passwords in `left`, because the code gives them no consistent meaning
([5](#5-where-the-code-departs-from-its-description)), except that they never touch
another password's mode, and that a call fails for want of room only when the map is full
or such a password takes room (`crowded`). The refinement maps a password outside `left` to
the mode of its slot below `n_caps`.

### Validation
One APD and the two kernel threads that validate. `validate_obj` is three steps,
because that is where the code can be interrupted with effect: `Begin` (the cache, and
`object_find` on a miss), `Scan` (the walk over the clists, which takes the APD lock)
and `Fill` (`vcache_add`, the lock's release). The caller's use of the object is a
fourth (`LookupReturn`, `FaultReturn`, `Delete`, `Passwd`). `object_t`s are heap cells
whose contents survive `kfree`, so a validation that started before a deletion goes on
with the old contents, or with those of the next object in the cell. A validation with
no answer in the object table, or one that is refused, ends without effect. The
assertion in `vcache_add` that no negative mode is cached is `FillHalts`: it is
reachable, by a request for no rights that meets a negative slot.

Three things are history: `filled`, when a full validation last gave a mode for a base;
`raced`, that the object was deleted between a validation's `object_find` and its
`vcache_add`; and `gone`, when the object was deleted that a cache entry was made for.
`object_delete` flushes no cache, so an entry may answer for the next object at the same
base. `filled` does not tell the two objects apart; `OutlivesBriefly` does, by `gone`:
such an entry grants nothing later than `VCACHE_TIMEOUT` after the deletion. What the
validations that raced are told is up to what the cell holds, and exempt.

### ApdSlots
The arrays of an `apddesc_t` under `apd_slot_insert`, `apd_slot_delete`,
`apd_slot_lock` and the merge of a PdxCall. Calls that are refused are no steps. The
descriptors an APD is made from are well formed (counts within the array). After a
merge the model goes on with the APD that the merge made. Once a slot past the array
would be written (`Overrun`) the model stops, for the memory after the array is
overwritten.

### Semaphores
`semaphore.c` and `waitq.c` with the pointers the code has: a location is a queue head
or the `next` field of a block, and `pprev` names a location. `waitq_remove` writes
through `pprev`, frees the block and does not touch the next block's `pprev`; the model
does the same, so the dangling head that follows is in it. A failed `kmalloc` leaves
the heap locked (`heap_lock`), as `_kmalloc` does. The blocks that queues use are freed
to and taken from the same heap bucket; other users of the bucket are left out. The
`sem_t` is in memory that was never used, or that held it before.

A thread is an `mthread_t` with its L4 thread, and neither ends with the thread. `Die` is
`ThreadDelete` without a KILL handler: the structure goes to its APD's pool, the L4 thread
goes on waiting for the reply, and the queue entry stays. `Reborn` is the next thread of
the APD, which is given both; `Handler` is a KILL handler, which the thread itself goes on
in. Either restarts the L4 thread, and leaves the entry. `BlockElsewhere` and `Answered`
are the other system calls whose reply is withheld. `upcall_send` reaches the L4 thread if
it waits for any reply: a signal that takes off an entry left behind answers whatever call
that is (`SignalWakes`), and fails only if there is none (`SignalFails`).

| History | What it records |
|---|---|
| `queued` | the blocks added to a semaphore's queue and not taken off it, whatever the pointers say |
| `given`, `passed` | tokens given by `sem_create` and signals; waits that succeeded |
| `dropped` | entries taken off by a signal whose thread did not wait for the semaphore any more |
| `robbed` | semaphores whose waiter was woken by a signal of another one: it holds a token that semaphore never gave. Nothing is said of their counts until they are created anew; a value stays one lower for the entry that is still queued |
| `misplaced` | a block was taken off a queue with another one behind it |

From `misplaced` on, the pointers are wrong and the properties, except `BlockAccounted`,
promise nothing. Queues of several blocks are covered until one is taken off. An APD that
closes frees its structures, and a structure may be given the L4 number of another one
([Threads](#threads)); neither is in this module.

### ObjectSpace
The address space that objects come from: the freelist of `mm.c` and the whole of
`object_create`, `object_delete` and `object_resize` above it. The list is kept in the
order of addresses, so it is modelled as the set of its entries, and "first fit" is the
lowest entry that is big enough. Sizes are rounded where the code rounds them: an object
keeps the size its creator asked for, what is taken and put back is whole pages, except
where `FreeInit` makes a list of the unrounded rest. The object table refuses a base that
lies in another object (`Clashes`); an object resized to nothing stays in the table, and
creations at its base fail and put the space back (`CreateUndone`).

Three paths leave the list and the objects at odds, and the model stops after them
(`spoiled`, `halted`): the entry after a growing object is taken whole, and its
predecessor in the list is mistaken (`GrowWhole`: a null pointer, a lost list or a lost
neighbour); the address is handed out although the entry there is too small or
missing (`GrowAnyway`); part of a page is put back to an empty list (`Splinters`). The
branch of `kmalloc_obj_addr` for an address inside an entry is not in the model: the
address is always one where an object ends. The heap does not run out of entries.

### Threads
`threads.c` under the calls of the system call loop, and mpager beside it. An
`mthread_t` is never freed: `thread_release` puts it into its APD's pool, and the next
thread of that APD is given it, with its L4 thread. Other structures go on pointing to
it (`parent`, `PDX`, the queues), so a pointer may lead to another thread than the one
it was set for; the model keeps the pointers and lets that happen. Two fields are
history and say who was meant: `creator` (the tid behind `parent`) and `asked` (the tid
a thread waits for or has called). `answer` is what a `ThreadWait` was told in the last
step. A queue's blocks remember only whether their `pprev` leads into a block that was
freed, which is all that decides the next removal.

`waitq_cancel` goes on to the block behind the one it unlinks, and then to the one behind
that: if the one it unlinks is the last, it reads through NULL (`ReadsNull`). The kernel's
address space has no guard there, so the model has both outcomes: it stops (`memory`), or
the read finds nothing and the call goes on.

`ThreadWait` takes any thread that the caller is an ancestor of, and the caller itself,
PDX procedures included, as `thread_find_mthread_from_parent` does; a direct descendant,
as `docs/API/api.tex` demands, is not asked for. So a zombie may be reaped by a grandparent,
and its block stays in the parent's queue: blocks remember the tid they were made for (history),
and where the parent then reaps what is no zombie of its own any more (`Outdated`) the
structure would enter the pool twice and the model stops (`twice`). A PDX procedure that
returns forgets who waits for it (`returned` is history). The answer for any thread has
the tid `THREAD_ANY` and not that of the thread, which only `answer` records.

The fault of a thread is two steps, because system calls run in between: `Fault`
(mpager has looked the thread up) and its end (`FaultServed`, `FaultKills`). Whether a
page may be used is the validation's business. A thread may have a KILL handler, which
runs instead of its deletion; handlers, like the calls that are made, are a choice.
`ThreadWait` for any thread returns at once if there is no zombie, for the code tests
`children`, which nothing sets; `adopt` is ignored, and children outlive their parents,
for the code does the same.

The model stops (`stop`) where the kernel stops or goes on with damaged state:

| `stop` | What happened |
|---|---|
| `assertion` | a thread is deleted whose L4 slot is another's (`DeleteHalts`) |
| `loop` | a lookup meets a cycle of parents and never ends (`LookupHangs`) |
| `memory` | a queue that held two threads is read or written through a freed block, or `waitq_cancel` reads through NULL |
| `twice` | a thread that was reaped by another ancestor is about to be reaped again |
| `late` | mpager kills a thread that was deleted, or replaced, since its fault |
| `astray` | a reply or an upcall goes to an L4 thread that waits for something else |

Each of them is reachable. The properties say what holds until then.

### PdxCalls
`sys_pdx_call` and what it leaves behind. Heap blocks hold `apd_t`s; the kernel takes one
request at a time, and `req` says how far the call in progress is: `find`
(`apd_find_or_create`), `search` (`apd_pdx_cache_lookup`), `make` (`apd_pdx_merge`),
`insert` (`apd_pdx_cache_insert`), `start` (`thread_pdx_create`). mpager may kill a thread
(`Kill`) between two of them. `Call` itself is the validation, whose outcome is a choice,
and the PDX cache. Each PD object has a bucket of `apd_table` of its own. A call takes no
time: `Tick` waits for its end.

`users` is the count the code keeps; `extra`, history, counts the users no thread
accounts for: those a copy inherits from its original, and the one that a failed creation
leaves (`StartFails`). Blocks that are freed and entries that are removed get a fixed
content, because nothing reads them again. `lost` is history: the APDs whose entry a full
table overwrote. `verified` is the time of the validation behind a cached call, and `outlived` says that the
procedure's object was deleted since: `DeleteObject` ends the registration and, unlike
`Register` (`kill_pdx_slot`), leaves the PDX cache as it is.

| `stop` | What happened |
|---|---|
| `assertion` | an expired APD that is closing stays in the table (`SearchCloses`); the assertion past the end of a full table fails (`InsertFullHalts`); an APD is freed with an L4 thread that mpager killed (`Frees`) |
| `shared` | a call is given a thread of another APD's pool (`StartPooled`) |
| `vcache` | a validation cache is freed that another APD still uses |

All of them are reachable and come from `apd_clone`, which copies users, free threads,
validation cache and the closing mark of its original, or from the full table. Seen on
the way and not modelled: `ApdFlush` does not flush the PDX cache; `sys_thread_return` reads `thread->PDX` after the release of the structure;
`set_pdx_slot` that fails after `kill_pdx_slot` loses the registration.

### RamPager
A page fault from the user thread to its answer. mpager looks the page up in the shared
page table; if it is there it touches the page itself (a fault of its own, that rpager
answers) and hands it on (`Touch`, `MpagerMaps`), otherwise it asks rpager and goes on
(`Ask`). rpager saves the fault (`save_state`), requests the page from the RAM disk
unless it is requested already, and on the answer walks along the collisions (`Answer`),
entering and mapping the page for each fault on it, to apager for a thread or to mpager.
Each IPC is one step that both sides take: L4's is synchronous. The RAM disk's call is
synchronous too, so one request at most is outstanding; it fills the frame, and pages it
does not hold are left as they are. Pages are never taken out of memory, for nothing
calls `force_frame` or `invalidate_pte`. `abandoned` is history: `upcall_excp` may set a
thread that waits for a page going again, once; its mapping is then sent to a thread that does
not take it, and apager, rpager and mpager wait behind one another for good.

Three things the code does show up in the properties' conditions. A fault on page 0 is
never answered (`Take`). `find_pte` stops at the first larger page of a chain, while
`add_collision` never inserts before the head: a page smaller than the head is `Lost` to
lookups. And saved faults are never taken out, while only those after the first `MaxPf`
are looked at for a page that is requested already: the second fault on a lost page is
requested again, with a second frame, and a third passes for requested and gets no answer.

### ObjectIndex, BTree
`ObjectIndex` is what the index promises: disjoint intervals of addresses, each with its
object; an insertion that overlaps is refused, a deletion names an object by its base, and
an insertion may fail for want of memory. `BTree` is `btree.c`: search, insertion with
splits, deletion with redistribution and collapse, and the pool of pages below them
(`bitmap`). Pages are records in the value of `root`, with their numbers in the pool.
`BT_ORDER` is 3 and 5 instead of 255; the code asks for nothing of it but that it is odd.
`Clears` is the bit of the bitmap that freeing a page clears: the kernel's own in
`index_pool`, and the page's own bit in `object_index`, so that what comes after a
collapse can be explored.

| `stop` | What happened |
|---|---|
| `lost` | memory runs out above a page that was split: its right half is in no page |
| `garbage` | an inner page is split in the middle, and a key is read from a page as if it were an object (`btree.c:391`); at order 255 this takes more than 32,000 objects |
| `overwritten` | a left page gets keys from a full right page, and the loop that clears what was moved clears the first child too (`btree.c:583`) |
| `panic`, `pool` | `free_page` finds the bit it computes clear, or clears another page's |

Left out: the neighbour an insertion hands back, printing, objects of no length, and
`objtable_init`, which runs once (it clears a quarter of the bitmap, for it counts words
as bytes, and rounds the pool's base up inside the memory it got).

## 4. Runs, bounds, fairness

| Run | Instance | Shows |
|---|---|---|
| `validation` | 2 bases, 2 cells, 1 password, 2 rights, 2 slots per object, 2 cache entries, timeout 1, 3 ticks, 3 validations, 2 capabilities | a hit is recent (`HitJustified`), a flush is final (`FlushForgets`), the oldest entry is evicted (`EvictsOldest`), an entry whose object is gone serves no longer than the timeout (`OutlivesBriefly`) |
| `obj_passwd` | 4 passwords, 0 among them, 3 slots, memory with any password and mode in slots 1 and 2 | the slots implement the map (`ImplementsTable`), a password is in one slot (`PasswordsOnce`), verdicts do not depend on slot order (`VerdictFromTable`), success means registered (`SuccessTakesEffect`) |
| `apd_slots` | 4 clists, 4 slots | deleted clists are gone (`DeletedStaysOut`), locks hold (`LockedSlotsKept`), a deletion pops exactly one slot (`DeletePops`), counts stay in the array until a merge (`CountWithinArray`) |
| `semaphores` | 2 structures with their L4 threads, 2 addresses, 2 semaphores, 3 blocks, 1 token given and 1 entry dropped for each, values down to -2 | mutual exclusion (`NeverTooMany`), no idle token (`NoIdleToken`), values that add up after failures (`ValueAccounts`), sound queues (`QueueSound`), the `sem_t`'s lifetime (`BlockAccounted`) |
| `object_space` | 7 pages of 2 units; sizes of ½, 1 and 3 pages, resizes to 0, 1 and 3 pages | every page has one owner (`PagesAccounted`), entries are whole pages and joined (`EntriesWhole`), a refusal means that the pages are not free (`RefusedForWant`) |
| `threads` | 3 structures, 2 APDs, 4 threads one after the other | structures and use counts are accounted for (`StructuresKept`), waiters are known to the thread they wait for (`WaitersKnown`), exit statuses are kept (`ExitsKept`), an answer is the one asked for (`AnswersTrue`) |
| `threads_slot` | 4 structures, 2 APDs, 5 threads | violation: `OwnL4Thread` |
| `pdx_calls` | 4 blocks, 3 structures, 1 procedure, 2 Clists, 1 PD, a table of 2, 2 buckets, timeout 1, 3 ticks, 1 failure, serial numbers to 4 | nothing leads to an APD that was freed (`InUseAlive`), none is left behind (`UnusedCached`), a cached call was validated recently (`GrantsRecent`), and goes to the domain that was asked for (`DomainAsked`) |
| `pdx_domain` | the same | violation: `RunsInDomain` |
| `ram_pager` | 2 users, pages 0, 1, 4 and 7, 3 buckets, 3 collisions, 2 + 2 pending faults, 4 frames | a mapping on its way is waited for (`AnswersAsked`), a frame belongs to one page (`FramesOfPage`), every fault is answered (`FaultsAnswered`, under `FairSpec`) |
| `object_index` | objects at 9 addresses, and two over 2 and 3 of them; orders 3 and 5; pools of 3 and 8 pages | the tree implements a set of intervals (`ImplementsIndex`) |
| `index_pool` | the same, with the kernel's `free_page` | violation: `NotFreedTwice` |

Why the bounds are enough. *Validation*: two cache entries fill up and have to be
evicted; a timeout of one tick within three lets an entry be young, expired, and hit in
between; two cells and two bases let a cell hold another object than the one a thread
remembers; two capabilities let the first one deny what the second one would allow; three
validations let one fill, one race and one hit. *ObjPasswd*: four passwords for three
slots run out of room, and let slots be withdrawn and taken again in any order, beside
slots that the memory filled before.
*ApdSlots*: four slots are two more than a shift needs at its ends, and the lock can
lie below, between and above the counts. *Semaphores*: two semaphores share three blocks,
so that a freed block of one is taken by the other while a queue holds two; a structure
whose thread is gone can be queued again, for the same semaphore or the other, with its old
entry before or behind it, and a second thread signals.
*ObjectSpace*: seven pages are what three free entries below a growing object's entry
need, with objects between them, so each way of mistaking the predecessor occurs; half
a page lets an object end inside one. `RefusedForWant` speaks of growth only for
objects that end with a page, because the code looks for the extra pages of others in the
page they already have.
*Threads*: three structures are a thread, the one it waits for and a third that deletes
either or waits too, so queues of two occur; four threads let a structure serve twice, in
one APD or the other, while old pointers lead to it.
*PdxCalls*: three blocks besides the first threads' APD are a table of two that fills up
and a third APD that is entered into it, or that a PD was instantiated as; serial numbers
let one of them be freed and its block taken by another; two Clists let a registration
change under a cached call; two buckets let cached calls evict one another or not; three
structures let a procedure call a procedure; three ticks with a timeout of one let an
entry expire, and be found by a call in the table and in the cache.
*RamPager*: pages 1, 4 and 7 share a bucket of the page table and, with each other, the
slots of the pending faults (1 and 7; 4 has the other), so both collide; a page enters
the chain before, between and after others, and is lost; two users fault on one page or
on two, and mpager faults too; four frames are one more than the pages, so that the
assertion that there is a frame is met only by pages requested again.
*BTree*: nine objects in pages of three make a tree of three levels that is split, joined
and evened out at each; order 5 adds pages whose number of keys can be in the
middle of its range; a pool of three runs out at each level of a split.
The sets that are interchangeable are declared symmetric; none of the specifications
uses an order on them, and the run that checks liveness has no symmetry.

Deadlock is not checked: an operating system with no user that calls it is at rest, the
bounds stop the clock and the counters, and a halted kernel takes no step.

**Fairness.** `RamPager.FairSpec` assumes what the kernel's scheduling gives. mpager,
rpager and apager are loops, each in an L4 thread that L4 schedules for ever, so each of
their steps is weakly fair: once it can be taken and stays so, it is taken. `Take` is
strongly fair: mpager is busy in between, but L4 queues the senders to a thread in their
order, so none is passed over for ever. Nothing is assumed of user threads, which need
not fault nor give up a fault. `FaultsAnswered` is checked under these, and does not hold
without them. It exempts page 0, pages that the page table has lost, runs in which a
fault was given up, and a stopped kernel; each of the exemptions is a defect or a limit
described in [3](#rampager). In the other components a call is answered within one
action, or waits for a user who need not come, and no liveness is stated.

## 5. Where the code departs from its description

Each of these is a run that is expected to find a violation, and an entry under `findings`.

- **`OwnL4Thread`**: `l4task_thread_remove` asserts that a thread's L4 slot is its own. A
  zombie's slot is empty and its number is given to the next new thread, but the zombie's
  structure keeps the number and, used again, overwrites the slot. The deletion of the
  thread that lost it trips the assertion; until then its system calls are taken for
  those of the other.
- **`RunsInDomain`**: `docs/API/api.tex` says that a PdxCall runs in the union of the
  domain it is passed and the Clist of the PDX object. `apd_clone` copies the list of free
  threads with everything else, so the next call into the merged APD is given a thread of
  the original's L4 task, and runs without the Clist.
- **`NotFreedTwice`**: `free_page` panics when a page is freed twice. Its mask is
  `1 << (b % 8*sizeof(int))`, which is not the page's bit, so the first collapse panics
  although nothing was freed twice, or clears the bit of another page.

Others that the modules have, as conditions of their properties or as reasons to stop:

- `docs/API/api.tex:429` says that "reuse of virtual memory will only happen once it is
  certain that no validations are still cached". `object_delete` frees the space at once
  (its comment: "FIXME allocation lazy delete list") and flushes no cache.
  `OutlivesBriefly` is what remains of the promise.
- `object_add` initialises slot 0 only, and `object_passwd` compares all slots. A password
  that the memory held in a slot above `n_caps` is "changed" there with success, and never
  found by a validation; once other passwords have raised `n_caps` it may be valid without
  having been registered; and after withdrawals it may be in two slots that are searched,
  in spite of the comment "password only exists once". In memory never used this is so for
  the password 0, which `docs/API/api.tex:204` calls valid. The properties of `ObjPasswd`
  hold for all other passwords.
- `apd_slot_insert` shifts slots up but raises `n_apd` only to cover the slot it writes,
  so the last clist falls out of the domain.
- `waitq_remove` leaves the next block's `pprev` pointing into the freed block; the queue
  loses its head, and later signals wake threads in the wrong order
  or trip `_kfree`'s assertion. From then on (`misplaced`) the properties of `Semaphores`
  promise nothing.
- The deletion of a thread leaves its entry in a semaphore's queue, and so does its KILL
  handler. The signal that takes the entry off answers whatever system call the L4 thread
  waits in, for whichever thread has it by then: a wait for another semaphore is granted
  without a token (`robbed`), a `ThreadWait` ends with nobody dead. If it reaches nobody
  the signal fails. The entry's decrement of the value is not undone.
- `waitq_cancel` reads through NULL when the block it unlinks is the last of the queue, as
  every `ThreadWait` for a zombie that is the caller's only one, and every deletion of a
  thread's only waiter, makes it do.
- `ThreadWait` accepts any descendant of the caller, the caller itself and PDX procedures,
  where `docs/API/api.tex:1096` says the thread "must be a direct descendent". A zombie
  that its grandparent reaped stays in its parent's queue and may be reaped again: its
  structure is in the pool twice, and the APD's use count goes down twice.
- `docs/API/api.tex:1098` says that `ThreadWait` returns the id of the thread that was
  killed; for `THREAD_ANY` the kernel returns `THREAD_ANY`.
- A PDX procedure that returns forgets the threads that wait for it; they wait for ever.
- `object_delete` of a PDX object leaves the PDX cache as it is: a call that was validated
  before goes on into the domain of the registration that is gone, until the validation
  expires. `DomainAsked` exempts it.
- `kmalloc_obj_addr` returns the address when the entry there is too small, or when there
  is none but an entry lies before it, and `object_resize` takes any address for success:
  the object grows over the next one.
- `pdxcache_add` compares the caller's APD by address, and its block may be another APD's
  by now; `apd_pdx_cache_insert` closes the APD in the last position and overwrites
  the oldest entry, whose APD stays for good.

## 6. Proofs

Proofs are in modules of their own and are checked by TLAPS for every value of the
constants that meets the modules' assumptions (`PasswdAssumption`,
`ObjPasswdAssumption`, `ValidationAssumption`, `ApdAssumption`, `SemAssumption`,
`SpaceAssumption`, `ThreadsAssumption`, `PdxAssumption`, `PagerAssumption`, `NoneAssumption`). They say no more than that
sentinel values differ from proper ones, that sizes are natural numbers (not 0 where the
code divides by them or indexes with them), and that the sets that are counted are finite.

**`ObjPasswdProofs`.** `SlotsImplementTable`, `NoDuplicates`, `SuccessIsReal`,
`VerdictsFollowTable` and `TypeCorrect`, for memory with any contents and any passwords, 0
included. Lemmas about `PasswdSet` come first: the three things a call can do (set the slot that
has the password, take the first free one, refuse), and that it keeps the passwords
outside `left` single. The invariant adds to the properties that such a password with a
slot, searched or not, has no other, and that its slot is searched (`Single`): without it
the code may find a password where the validation does not look. The refinement needs one
counting argument, that
`object_passwd` refuses only when the map has `O_MAX_CAPS` passwords or one of `left` takes
room: distinct slots hold distinct passwords, so a full array is an injection into the
map's domain.

**`ValidationProofs`.** `TypeCorrect`, `HitsAreRecent`, `FlushIsFinal`, `EvictionIsFair`,
`StaleGrantsExpire`. The properties are not inductive by themselves: what
`Fill` records is what `Scan` read one step before. The invariant therefore adds
`UsedCells` (a pointer, stale as it may be, leads to a cell that held an object; the
table's cells hold the object they are entered for), `Looking` (a thread in a full
validation was not answered by the cache, and unless raced its cell is still in the
table, so that `Create` cannot give the cell away), `Filling` (a thread between scan and
fill holds the APD lock, which is what keeps a flush out, and what it read is recorded)
`Past` (no timestamp lies in the future), `Validated` (an entry's mode was given for its
base when it is dated, unless raced) and `Outlived` (an entry whose object is gone is dated
before the deletion). Each conjunct has a lemma per step that
disturbs it; `FlushIsFinal` rests on the lock, `HitsAreRecent` and `StaleGrantsExpire` on the
fact that nothing but `Fill` writes a timestamp.

**`ApdSlotsProofs`.** `TypeCorrect`, `DeletionIsFinal`, `CountStaysInArray`, `LocksHold`,
`DeletionPops`: every property of the run, from `TypeOK /\ DeletedStaysOut /\ CountWithinArray`. The order of the argument: a shift
down stays in the array because the count does, so it empties the slot it leaves, so
nothing is left behind for a later insertion to count again.

**`SemaphoresProofs`.** `TypeCorrect`, `MutualExclusion`, `NoTokenIdles`, `ValuesAccount`,
`QueuesAreSound`, `BlockIsAccounted`: every property of the run, for any number of threads,
semaphores, blocks and tokens, and whatever becomes of the threads. The properties of queues
hold until a block was taken off with another one behind it, and so does the invariant
behind them (`Sound`): a queue is a chain of its blocks, each of which knows its place,
with an end, and with no smaller set of blocks closed under `ptr` (`Chains`, which is what
`QueueEnd` needs to find the end); the blocks in use are the queues', each in one
(`Partition`); whoever waits for a semaphore owns a block of its queue (`Queued`). The counts
(`Tokens`) speak of the semaphores that were not robbed. An
operation's effect on pointers is one lemma, its effect on counts another. `Block` holds
always: the count is that of the slots in use, no address is in two of them, and the
`sem_t` exists while there is one or the last is being deleted.

**`ObjectSpaceProofs`.** `TypeCorrect`, `PagesAreAccounted`, `EntriesAreWhole`,
`RefusalsAreForWant`: every property of the run. The properties hold until the list is
spoiled, by a length that was not rounded or by a growing object whose next entry is taken
whole or is too small, and so does the invariant behind them: free
entries are whole pages of the region and do not touch (`Entries`, `Apart`), objects, their
sizes rounded up, lie in the region, apart from one another and from the entries
(`ObjsWhole`, `ObjsApart`, `ObjsClear`), and every page is in one or the other
(`Covered`). Two lemmas carry the operations: what taking the front of an entry leaves
(`AllocatedFacts`), and what putting a block back makes of the list, whichever
neighbours it joins (`JoinedFacts`). That a refusal is for want of space needs that free
pages side by side are in one entry (`RunInEntry`), which holds because entries do not
touch.

**`RamPagerProofs`.** `TypeCorrect`, `FramesStayWithPages`, `AnswersAreAsked`. A frame belongs to one page
from the moment it leaves the free list: entries of the table are in the bucket of their
page (`EntriesHome`), two entries with one frame are one page's and no frame in the table
is still free (`FramesApart`), the frame in rpager's request is in no entry of
another page (`RpagerFrame`), the entries that `ppf_map` still has to walk are linked
through saved faults (`Linked`), and every mapping that was made or is on its way is an
entry (`OnItsWay`). The lemma on which all rest is what `add_pte` does to a chain
(`AddedFacts`): one entry more, and all others kept, wherever it is put. A second
invariant, `HInv`, says whom the pagers work for: each of mpager, rpager and apager has
at most one thread in hand, a thread in hand waits for the page in hand, and no thread is
in two hands (`InHand`), as long as it gave no fault up. rpager's hand is only known
through the pending fault it saved, hence `OneEntry`: between the request and the answer
rpager takes no other fault, so that the fault is the first entry of the walk, and the
only one. The walk along collisions is in the model because it is in the code;
with this disk it has one step.

**`PdxCallsProofs`.** `TypeCorrect`, `NothingLeadsToFreed`, `NoneLeftBehind`,
`CachedGrantsRecent`, `DomainIsAsked`: every property of the run. The core is that the use
count is that of the APD's threads and of the users nobody accounts for (`Counted`), so
that an APD that is freed has no thread; its pool is exactly its own free threads, or it
is a copy with somebody else's pool, which has extra users and is never freed
(`PoolsSound`). Around it: a caller waits for one procedure (`ParentsWait`), which is what
lets `Return` find it; an APD that a PD was instantiated as never has users (`PdsUnused`);
an APD in the table that is closing has extra users, so closing it again cannot free it
under the table's entry (`TableSound`); serial numbers grow (`SerialsPast`), so that a
cached call whose serial number matches names the APD it was validated for
(`CacheSound`); what the call in progress holds stays true between its steps although
mpager kills threads (`CallerSound`, `OrigSound`, `ApdSound`); and an APD that left the
table while it was used is marked for its last thread to free (`LeftMarked`).

**`ThreadsProofs`.** `ThreadsTyped`, `StructuresAreKept`, `WaitersAreKnown`, `ExitsAreKept`,
`AnswersAreTrue`: every property of the run, for any number of structures, APDs and tids, with
no assumption on who waits for whom. `TypeOK` and `AnswersTrue` hold always, the others until the model stops (`stop`),
and so does what the invariant says behind them. A structure has one place, the table or the pool of its APD (`Placed`), and the
use counts are those of the table (`Counted`). A tid is given once, so the structure that
has the tid of a thread's creator is its parent, though the pointer may be stale
(`Names`). The links hold on both ends: who waits is in the queue of a living thread that
has the tid it asked for, or asked for a PDX procedure that has returned, and who is in a
queue waits for its owner (`Waiting`); a zombie
whose creator lives is in the creator's queue (`Zombies`). That queue may hold blocks of
threads that others have reaped, whose structures serve again; blocks are told apart by their
threads and tids, so that what is reaped is what the block was made for, or the model
stops. At last, an L4 thread that can
make a call, or whose fault mpager handles, is that of a structure in use that does not
wait (`L4s`, `FaultKnown`): this is why a call starts from a caller that is in no queue.
The proof has a lemma per step, and lemmas for what the steps share: `thread_release`
(`ReleaseFacts`), `waitq_cancel`, and the answers a death gives to those who wait.

Only model-checked, because beyond the prover: `FaultsAnswered` (liveness under
fairness), and `ImplementsIndex` (`BTree` is recursive over trees of any depth, and what
a recursive definition computes for every input needs induction over data).

## 7. What is not modelled

In the kernel:

- page copy and page flush (`pager.c`), which move data between pages that were validated
  and mapped, and change nothing the modules keep;
- `ThreadSleep`, `ThreadResume` and `ThreadInfo`, object and PDX information calls,
  exception registration: they read, or set one field;
- the special mappings of devices, `force_frame` and `invalidate_pte` of the RAM pager,
  and `vcache_flush_addr`: nothing calls the last three;
- the packing of the PDX arrays of an object, of which `PdxCalls` keeps the result;
- the heap's buckets but for the locks and blocks in `Semaphores`;
- booting, `startup.c`, the console, the clock's hardware, debugging output, and the
  kernel's string functions and `vsprintf`.

Outside it: system call stubs (one IPC per call), the C library and `mlib` (user code), the
naming library (a name server of user tasks, on top of objects; nothing in the kernel
uses it), applications, serial drivers (device I/O), vendored and architecture code. They
are most of the repository's lines, which is why the map covers a small share of the
whole: it covers about half of the kernel's own sources (`kernel/src` and the B+-tree),
and what is left of those is in the list above.

Abstractions that matter when reading the results: clists change between the steps of a
validation but not in the middle of one walk; the clists of an APD are one sequence in
`Validation`, their slots are `ApdSlots`' subject; a cell freed by one object is taken
only by another object; the clock's ticks are the units of timestamps; each of
`Validation`'s objects has a base of its own, and how bases are found is `ObjectSpace`'s
subject; in `Threads` each APD has one L4 task with room for all its threads, APDs do not
close (they do in `PdxCalls`), creations succeed, and mpager's steps do not fall into the
middle of a queue operation; in `PdxCalls` a call takes no time and its validation is a
choice; in `RamPager` the faults are on pages a thread may access, and page numbers are
below 2^32, so that hashing them loses nothing.
