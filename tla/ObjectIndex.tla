---------------------------- MODULE ObjectIndex ----------------------------
(***************************************************************************)
(* What the index of the object table promises (mungi/btree.h): a set of   *)
(* objects, each with an interval of addresses of its own, found by any of *)
(* its addresses.                                                          *)
(***************************************************************************)
EXTENDS Integers

CONSTANTS Objects,     \* records with their base and end
          None

VARIABLES at,          \* the object at each address
          reply        \* of an operation to its caller, or None

vars == <<at, reply>>

Addresses == UNION {o.base .. o.end - 1 : o \in Objects}
Span(o)   == o.base .. o.end - 1

Init ==
    /\ at = [a \in Addresses |-> None]
    /\ reply = None

\* The addresses and objects of an index with an object, and without it.
With(index, o)    == [a \in Addresses |-> IF a \in Span(o) THEN o ELSE index[a]]
Without(index, o) == [a \in Addresses |-> IF index[a] = o THEN None ELSE index[a]]

\* What an insertion of an object answers, and a deletion of the one with a key.
Inserted(o, status)  == reply' = [of |-> <<o.base, o.end>>, status |-> status]
Deleted(key, status) == reply' = [of |-> <<key>>, status |-> status]

\* BTIns: an object that overlaps another is refused, and any may be for want of memory.
BTIns(o) ==
    LET free == \A a \in Span(o) : at[a] = None
    IN  \/ free /\ Inserted(o, "ok") /\ at' = With(at, o)
        \/ ~free /\ (Inserted(o, "duplicate") \/ Inserted(o, "overlap")) /\ UNCHANGED at
        \/ Inserted(o, "alloc_fail") /\ UNCHANGED at

\* BTDel: only an object whose base is the key is deleted.
BTDel(key) ==
    LET o     == at[key]
        named == o # None /\ o.base = key
    IN  \/ named /\ Deleted(key, "ok") /\ at' = Without(at, o)
        \/ ~named /\ Deleted(key, "not_found") /\ UNCHANGED at

\* The caller has its answer.
Return == reply # None /\ reply' = None /\ UNCHANGED at

Next ==
    \/ Return
    \/ /\ reply = None
       /\ (\E o \in Objects : BTIns(o)) \/ (\E key \in Addresses : BTDel(key))

Spec == Init /\ [][Next]_vars
=============================================================================
