---------------------------- MODULE PasswdTable ----------------------------
(***************************************************************************)
(* What ObjCreate, ObjPasswd and ObjDelete promise about the passwords of  *)
(* an object: they are a map from passwords to access modes.  ObjPasswd    *)
(* registers a password, changes its mode, or withdraws it by giving it    *)
(* the null mode; it fails only for want of room.                          *)
(*                                                                         *)
(* Nothing is promised of the passwords that the object's memory held when *)
(* it was created, but that they leave all others alone and, without a     *)
(* mode, take no room.                                                     *)
(***************************************************************************)
EXTENDS Integers, FiniteSets

CONSTANTS Passwords,
          Modes,         \* sets of access bits
          OWNER,         \* the mode of the password the creator supplies
          O_MAX_CAPS     \* passwords an object can have

VARIABLES alive,         \* the object exists
          table,         \* password -> mode; the null mode is {}
          left,          \* the passwords that the memory held
          crowded,       \* a password outside the map takes room
          reply          \* what the last ObjPasswd was asked, and its status

Registered == {p \in Passwords : table[p] # {}}

Init ==
    /\ alive = FALSE
    /\ table = [p \in Passwords |-> {}]
    /\ left = {} /\ crowded = FALSE
    /\ reply = {}

ObjCreate(p) ==
    /\ ~alive
    /\ alive' = TRUE
    /\ left' \in SUBSET Passwords
    /\ crowded' \in BOOLEAN
    /\ table' = [q \in Passwords |-> IF q = p /\ p \notin left' THEN OWNER ELSE {}]
    /\ reply' = {}

Replies(p, mode, success) ==
    reply' = {[passwd |-> p, mode |-> mode, success |-> success]}

ObjPasswd(p, mode) ==
    /\ alive
    /\ p \notin left
    /\ p \in Registered \/ Cardinality(Registered) < O_MAX_CAPS
    /\ table' = [table EXCEPT ![p] = mode]
    /\ Replies(p, mode, TRUE)
    /\ UNCHANGED <<alive, left, crowded>>

\* A password that the memory held.
ObjPasswdLeft(p, mode) ==
    /\ alive
    /\ p \in left
    /\ Replies(p, mode, TRUE)
    /\ crowded' \in BOOLEAN
    /\ UNCHANGED <<alive, table, left>>

ObjPasswdFails(p, mode) ==
    /\ alive
    /\ p \notin Registered
    /\ Cardinality(Registered) = O_MAX_CAPS \/ crowded
    /\ Replies(p, mode, FALSE)
    /\ UNCHANGED <<alive, table, left, crowded>>

ObjDelete ==
    /\ alive
    /\ alive' = FALSE
    /\ table' = [p \in Passwords |-> {}]
    /\ left' = {} /\ crowded' = FALSE
    /\ reply' = {}

Next == \/ \E p \in Passwords : ObjCreate(p)
        \/ \E p \in Passwords, mode \in Modes :
              ObjPasswd(p, mode) \/ ObjPasswdLeft(p, mode) \/ ObjPasswdFails(p, mode)
        \/ ObjDelete

Spec == Init /\ [][Next]_<<alive, table, left, crowded, reply>>
=============================================================================
