------------------------------ MODULE RamPager ------------------------------
(***************************************************************************)
(* Page faults from the user thread to the mapping that answers it: mpager *)
(* and apager (pager.c) in the kernel's task, rpager (vm/rpager.c) with    *)
(* its tables (vm/ptable.c, vm/vm.c), and the RAM disk (vm/srdisk).  They  *)
(* are L4 threads that talk by synchronous IPC: a sender waits until the   *)
(* receiver takes the message, without a timeout.                          *)
(*                                                                         *)
(* The faults are on pages the thread may access.  No page is ever taken   *)
(* out of memory: nothing in the code calls force_frame or invalidate_pte. *)
(* The model stops when an assert fails and when a table is overrun.       *)
(***************************************************************************)
EXTENDS Integers, Sequences, FiniteSets, SequencesExt

CONSTANTS Users,       \* user threads, each in a task of its own
          Pages,       \* page numbers; page 0 holds the null pointer
          MaxPtable, MaxCtable, MaxPf,
          MaxFtable,   \* frames that are free at the start
          None

ASSUME PagerAssumption ==
    /\ Pages \subseteq Nat
    /\ {MaxPtable, MaxPf} \subseteq Nat \ {0}
    /\ {MaxCtable, MaxFtable} \subseteq Nat
    /\ None \notin Users \cup Nat

VARIABLES
    user,        \* what each thread does
    mapped,      \* the frames in each thread's task
    mpager, mpager_has,   \* mpager, and the frames mapped in its own task
    apager, rpager,
    ptable,      \* the pages of each bucket, in the order of the chain
    ppftable,    \* pending faults
    frames,      \* frames handed out
    abandoned,   \* history: threads that gave up a fault
    stop

vars == <<user, mapped, mpager, mpager_has, apager, rpager, ptable, ppftable, frames,
          abandoned, stop>>

Frames  == 1 .. MaxFtable
Buckets == 0 .. MaxPtable - 1
Offsets == 0 .. 2 * MaxPf - 1

OrNone(S) == S \cup {None}

Threads == [state : {"run", "sent", "wait"}, page : OrNone(Pages)]
Mpagers == [step : {"idle", "ask", "touch", "map"}, user : OrNone(Users),
            page : OrNone(Pages)]
Apagers == [step : {"idle", "send"}, user : OrNone(Users), page : OrNone(Pages),
            frame : OrNone(Frames)]

\* rpager, with the message in msg: the page, its frame, whom to map it to (apager
\* for a thread, or mpager for itself), and where ppf_map is.
Rpagers == [step : {"idle", "request", "answer", "walk", "map"}, page : OrNone(Pages),
            frame : OrNone(Frames), to : {"apager", "mpager"}, user : OrNone(Users),
            off : OrNone(Offsets)]

Ptes    == [page : Pages, frame : Frames]
Pending == [page : Pages, user : OrNone(Users), to : {"apager", "mpager"},
            collision : OrNone(Offsets)]

ASSUME NoneAssumption == None \notin Pending

TypeOK ==
    /\ user \in [Users -> Threads]
    /\ mapped \in [Users -> [Pages -> OrNone(Frames)]]
    /\ mpager \in Mpagers /\ mpager_has \in [Pages -> OrNone(Frames)]
    /\ apager \in Apagers /\ rpager \in Rpagers
    /\ ptable \in [Buckets -> Seq(Ptes)]
    /\ ppftable \in [Offsets -> OrNone(Pending)]
    /\ frames \in 0 .. MaxFtable
    /\ abandoned \subseteq Users
    /\ stop \in {"no", "assertion", "overrun"}

MpagerIdle == [step |-> "idle", user |-> None, page |-> None]
ApagerIdle == [step |-> "idle", user |-> None, page |-> None, frame |-> None]
RpagerIdle == [step |-> "idle", page |-> None, frame |-> None, to |-> "apager",
               user |-> None, off |-> None]

Init ==
    /\ user = [u \in Users |-> [state |-> "run", page |-> None]]
    /\ mapped = [u \in Users |-> [p \in Pages |-> None]]
    /\ mpager = MpagerIdle /\ mpager_has = [p \in Pages |-> None]
    /\ apager = ApagerIdle /\ rpager = RpagerIdle
    /\ ptable = [h \in Buckets |-> <<>>]
    /\ ppftable = [i \in Offsets |-> None]
    /\ frames = 0
    /\ abandoned = {}
    /\ stop = "no"

-----------------------------------------------------------------------------
(* The page table: a bucket is its head and the chain of collisions after it *)

Bucket(p) == ptable[p % MaxPtable]

\* find_pte follows the chain while it is below the page.
FoundAt(q, p, i) == /\ i \in DOMAIN q
                    /\ q[i].page = p
                    /\ \A j \in 1 .. i - 1 : q[j].page < p

Finds(p) == \E i \in DOMAIN Bucket(p) : FoundAt(Bucket(p), p, i)

\* The entry that find_pte returns.
PteOf(p) == LET q == Bucket(p) IN q[CHOOSE i \in DOMAIN q : FoundAt(q, p, i)]

\* add_collision stops at the first entry that is not below the page, or at the last.
StopsAt(q, p, i) == /\ i \in DOMAIN q
                    /\ \A j \in 1 .. i - 1 : q[j].page < p
                    /\ i = Len(q) \/ q[i].page >= p

\* It links the new entry before that one, but never before the head.
Position(q, p) == LET i == CHOOSE i \in DOMAIN q : StopsAt(q, p, i)
                  IN  IF i = 1 THEN 2 ELSE i

\* add_pte.
Added(q, p, f) ==
    IF q = <<>> THEN <<[page |-> p, frame |-> f]>>
    ELSE InsertAt(q, Position(q, p), [page |-> p, frame |-> f])

\* Entries of ctable in use.
Collisions == UNION {{<<h, i>> : i \in 2 .. Len(ptable[h])} : h \in Buckets}

\* A page that is in its bucket, but that find_pte does not find.
Lost(p) == /\ \E i \in DOMAIN Bucket(p) : Bucket(p)[i].page = p
           /\ ~Finds(p)

-----------------------------------------------------------------------------
(* Pending faults *)

\* save_state: the slot of the page, or the first free one after the slots.
Primary(p) == p % MaxPf

\* Variant: the search ends one entry after the table.
SlotPastEnd(p) ==
    IF ppftable[Primary(p)] = None THEN {Primary(p)}
    ELSE {i \in MaxPf .. 2 * MaxPf : /\ i \in Offsets => ppftable[i] = None
                                    /\ \A j \in MaxPf .. i - 1 : ppftable[j] # None}

SlotFor(p) ==
    IF ppftable[Primary(p)] = None THEN {Primary(p)}
    ELSE {i \in Offsets : /\ i >= MaxPf /\ ppftable[i] = None
                          /\ \A j \in MaxPf .. i - 1 : ppftable[j] # None}

\* Variant: any page in the slots it collides with passes for this one.
SlotIsTaken(p) == ppftable[Primary(p)] # None

\* The page is in one of the entries it passes, which are never taken out: it is
\* taken for requested.
AlreadyRequested(p) ==
    /\ ppftable[Primary(p)] # None
    /\ \E i \in Offsets : i >= MaxPf /\ ppftable[i] # None /\ ppftable[i].page = p

\* Variant: the new entry is put in front of the others.
SavedInFront(i, p, u, to) ==
    [ppftable EXCEPT ![i] = [page |-> p, user |-> u, to |-> to,
                             collision |-> IF i = Primary(p) THEN None ELSE Primary(p)]]

\* The first entry is linked to the last one that did not fit.
Saved(i, p, u, to) ==
    LET linked == IF i = Primary(p) THEN ppftable
                  ELSE [ppftable EXCEPT ![Primary(p)].collision = i]
    IN  [linked EXCEPT ![i] = [page |-> p, user |-> u, to |-> to, collision |-> None]]

-----------------------------------------------------------------------------
(* User threads *)

Fault(u, p) ==
    /\ stop = "no" /\ user[u].state = "run" /\ mapped[u][p] = None
    /\ user' = [user EXCEPT ![u] = [state |-> "sent", page |-> p]]
    /\ UNCHANGED <<mapped, mpager, mpager_has, apager, rpager, ptable, ppftable, frames,
                   abandoned, stop>>

\* upcall_excp: the upcall thread sets the thread going in its handler, which ends the
\* fault for the thread, not for the pagers.  One thread does so, once.
Abandon(u) ==
    /\ stop = "no" /\ abandoned = {} /\ user[u].state # "run"
    /\ user' = [user EXCEPT ![u] = [state |-> "run", page |-> None]]
    /\ abandoned' = abandoned \cup {u}
    /\ UNCHANGED <<mapped, mpager, mpager_has, apager, rpager, ptable, ppftable, frames,
                   stop>>

\* A mapping from a pager reaches a thread that waits, for whatever page.
Maps(u, p, f) ==
    /\ user[u].state = "wait"
    /\ user' = [user EXCEPT ![u] = [state |-> "run", page |-> None]]
    /\ mapped' = [mapped EXCEPT ![u][p] = f]

-----------------------------------------------------------------------------
(* mpager *)

\* get_fault and handle_fault.  Page 0 is ignored, and the thread not answered.
Take(u) ==
    /\ stop = "no" /\ mpager.step = "idle" /\ user[u].state = "sent"
    /\ user' = [user EXCEPT ![u].state = "wait"]
    /\ LET p == user[u].page
       IN  mpager' =
               IF p = 0 THEN MpagerIdle
               ELSE [step |-> IF ~Finds(p) THEN "ask"
                              ELSE IF mpager_has[p] = None THEN "touch" ELSE "map",
                     user |-> u, page |-> p]
    /\ UNCHANGED <<mapped, mpager_has, apager, rpager, ptable, ppftable, frames,
                   abandoned, stop>>

\* do_map hands on what mpager has mapped itself.
MpagerMaps ==
    /\ stop = "no" /\ mpager.step = "map"
    /\ Maps(mpager.user, mpager.page, mpager_has[mpager.page])
    /\ mpager' = MpagerIdle
    /\ UNCHANGED <<mpager_has, apager, rpager, ptable, ppftable, frames, abandoned, stop>>

-----------------------------------------------------------------------------
(* rpager *)

\* Variant: the frame stays at the front of the free list.
SameFrame == 1

\* alloc_frame_off_list.
NewFrame == frames + 1

\* A fault reaches rpager: for a user thread, to be answered to apager, or mpager's
\* own.  A page in the table is mapped.
Known(p, u, to) ==
    /\ Finds(p)
    /\ rpager' = [RpagerIdle EXCEPT !.step = "map", !.page = p, !.frame = PteOf(p).frame,
                                    !.to = to, !.user = u]
    /\ UNCHANGED <<ppftable, frames, stop>>

\* Any other is saved, and requested with a new frame; alloc_frame asserts that
\* there is one.
Unknown(p, u, to) ==
    /\ ~Finds(p)
    /\ \/ /\ SlotFor(p) = {}
          /\ stop' = "overrun"
          /\ UNCHANGED <<rpager, ppftable, frames>>
       \/ /\ \E i \in SlotFor(p) :
                /\ ppftable' = Saved(i, p, u, to)
                /\ rpager' = IF AlreadyRequested(p) \/ frames = MaxFtable THEN RpagerIdle
                             ELSE [RpagerIdle EXCEPT !.step = "request", !.page = p,
                                                     !.frame = NewFrame, !.off = i]
          /\ IF AlreadyRequested(p) THEN UNCHANGED <<frames, stop>>
             ELSE IF frames = MaxFtable
             THEN stop' = "assertion" /\ UNCHANGED frames
             ELSE frames' = frames + 1 /\ UNCHANGED stop

\* mpager asks for a page for a thread, and goes on to the next fault.
Ask ==
    /\ stop = "no" /\ mpager.step = "ask" /\ rpager.step = "idle"
    /\ \/ Known(mpager.page, mpager.user, "apager")
       \/ Unknown(mpager.page, mpager.user, "apager")
    /\ mpager' = MpagerIdle
    /\ UNCHANGED <<user, mapped, mpager_has, apager, ptable, abandoned>>

\* mpager touches a page that is not mapped in its own task, and waits.
Touch ==
    /\ stop = "no" /\ mpager.step = "touch" /\ rpager.step = "idle"
    /\ \/ Known(mpager.page, None, "mpager")
       \/ Unknown(mpager.page, None, "mpager")
    /\ UNCHANGED <<user, mapped, mpager, mpager_has, apager, ptable, abandoned>>

\* ramdisk's read_request, in the call that request_page makes: the frame is filled.
Read ==
    /\ stop = "no" /\ rpager.step = "request"
    /\ rpager' = [rpager EXCEPT !.step = "answer"]
    /\ UNCHANGED <<user, mapped, mpager, mpager_has, apager, ptable, ppftable, frames,
                   abandoned, stop>>

\* handle_mpr_message and ppf_map: from the entry that was requested along its
\* collisions, a fault on the page enters it in the table, and is mapped.
Answer ==
    /\ stop = "no" /\ rpager.step \in {"answer", "walk"}
    /\ IF rpager.off = None
       THEN rpager' = RpagerIdle /\ UNCHANGED <<ptable, stop>>
       ELSE LET pf == ppftable[rpager.off]
            IN  IF pf.page # rpager.page
                THEN /\ rpager' = [rpager EXCEPT !.step = "walk", !.off = pf.collision]
                     /\ UNCHANGED <<ptable, stop>>
                ELSE IF Bucket(pf.page) # <<>> /\ Cardinality(Collisions) = MaxCtable
                THEN stop' = "assertion" /\ UNCHANGED <<rpager, ptable>>
                ELSE /\ ptable' = [ptable EXCEPT ![pf.page % MaxPtable] =
                                       Added(@, pf.page, rpager.frame)]
                     /\ rpager' = [rpager EXCEPT !.step = "map", !.to = pf.to,
                                       !.user = pf.user, !.off = pf.collision]
                     /\ UNCHANGED stop
    /\ UNCHANGED <<user, mapped, mpager, mpager_has, apager, ppftable, frames, abandoned>>

\* After map_page, ppf_map goes on along the collisions, if it sent the mapping.
WalksOn(r) == IF r.off = None THEN RpagerIdle ELSE [r EXCEPT !.step = "walk"]

\* map_page to apager, when that takes messages.
MapForUser ==
    /\ stop = "no" /\ rpager.step = "map" /\ rpager.to = "apager"
    /\ apager.step = "idle"
    /\ apager' = [step |-> "send", user |-> rpager.user, page |-> rpager.page,
                  frame |-> rpager.frame]
    /\ rpager' = WalksOn(rpager)
    /\ UNCHANGED <<user, mapped, mpager, mpager_has, ptable, ppftable, frames, abandoned,
                   stop>>

\* map_page to mpager.
MapForMpager ==
    /\ stop = "no" /\ rpager.step = "map" /\ rpager.to = "mpager"
    /\ mpager.step = "touch"
    /\ mpager' = [mpager EXCEPT !.step = "map"]
    /\ mpager_has' = [mpager_has EXCEPT ![rpager.page] = rpager.frame]
    /\ rpager' = WalksOn(rpager)
    /\ UNCHANGED <<user, mapped, apager, ptable, ppftable, frames, abandoned, stop>>

-----------------------------------------------------------------------------
\* apager sends the mapping to the thread in mpager's name.
ApagerSends ==
    /\ stop = "no" /\ apager.step = "send"
    /\ Maps(apager.user, apager.page, apager.frame)
    /\ apager' = ApagerIdle
    /\ UNCHANGED <<mpager, mpager_has, rpager, ptable, ppftable, frames, abandoned, stop>>

Next ==
    \/ \E u \in Users, p \in Pages : Fault(u, p)
    \/ \E u \in Users : Abandon(u) \/ Take(u)
    \/ MpagerMaps \/ Ask \/ Touch
    \/ Read \/ Answer \/ MapForUser \/ MapForMpager
    \/ ApagerSends

\* The servers are loops that L4 schedules for ever, and it queues the senders to a
\* thread in their order.  Nothing makes a user thread fault.
Fairness ==
    /\ \A u \in Users : SF_vars(Take(u))
    /\ WF_vars(MpagerMaps) /\ WF_vars(Ask) /\ WF_vars(Touch)
    /\ WF_vars(Read) /\ WF_vars(Answer) /\ WF_vars(MapForUser) /\ WF_vars(MapForMpager)
    /\ WF_vars(ApagerSends)

Spec == Init /\ [][Next]_vars

FairSpec == Spec /\ Fairness

-----------------------------------------------------------------------------
(* Properties *)

\* A mapping that is on its way is for a page that the thread waits for, unless the
\* thread gave a fault up, whatever faults were pending in between (save_state's entries
\* are never taken out, ppf_map walks along them).
AnswersAsked ==
    /\ (apager.step = "send" /\ apager.user \notin abandoned) =>
           user[apager.user] = [state |-> "wait", page |-> apager.page]
    /\ (rpager.step = "map" /\ rpager.to = "apager" /\ rpager.user \notin abandoned) =>
           user[rpager.user] = [state |-> "wait", page |-> rpager.page]

\* What a thread sees at a page is a frame that was read for that page, and was given
\* to no other (request_page, alloc_frame, the frame in rpager's one message).
FramesOfPage ==
    LET entries(p) == {Bucket(p)[i] : i \in DOMAIN Bucket(p)}
    IN  /\ \A u \in Users, p \in Pages : mapped[u][p] # None =>
               [page |-> p, frame |-> mapped[u][p]] \in entries(p)
        /\ \A p, q \in Pages : \A e \in entries(p), d \in entries(q) :
               e.frame = d.frame => e.page = d.page

\* Every fault on a page above 0 is answered, unless the page table has lost the page,
\* or some thread gave a fault up: its mapping is never taken, and blocks the pagers (the
\* loops of mpager, rpager and apager; the IPC between them).
FaultsAnswered ==
    \A u \in Users :
        (user[u].state = "sent" /\ user[u].page # 0) ~>
            \/ user[u].state = "run" \/ Lost(user[u].page)
            \/ abandoned # {} \/ stop # "no"

=============================================================================
