----------------------------- MODULE ObjPasswd -----------------------------
(***************************************************************************)
(* The passwords of the objects that live, one after the other, in one     *)
(* cell of the kernel heap: object_add, object_passwd and object_delete    *)
(* (objects.c), and what do_validate_passwd_std (security.c) makes of the  *)
(* slots they leave.                                                       *)
(*                                                                         *)
(* kmalloc does not clear the cell, and object_add writes its first slot   *)
(* only: the others hold what the memory's last user left there.  In       *)
(* memory never used that is the password 0 without a mode, and 0 is a     *)
(* password like any other.  Of the passwords that the memory held the     *)
(* code makes what it likes; for all others the slots implement            *)
(* PasswdTable.                                                            *)
(***************************************************************************)
EXTENDS PasswdSlots

CONSTANTS UserModes,     \* bound: modes that users register
          Memory         \* what a cell may hold when kmalloc returns it

ASSUME ObjPasswdAssumption ==
    /\ UserModes \subseteq Modes
    /\ Memory \subseteq Infos

VARIABLES alive,         \* the cell holds an object
          info,          \* objinfo_t of the object; ZeroInfo while there is none
          left,          \* history: passwords that the memory held in the slots
                         \* object_add does not write
          reply          \* what the last ObjPasswd of the object was asked, and
                         \* its status

vars == <<alive, info, left, reply>>

Replies == [passwd : Passwords, mode : Modes, success : BOOLEAN]

TypeOK ==
    /\ alive \in BOOLEAN
    /\ info \in Infos
    /\ left \subseteq Passwords
    /\ reply \in {{}} \cup {{r} : r \in Replies}

Init ==
    /\ alive = FALSE
    /\ info = ZeroInfo
    /\ left = {}
    /\ reply = {}

\* object_add, in memory that kmalloc does not clear.
Create(p, memory) ==
    /\ ~alive
    /\ alive' = TRUE
    /\ info' = AddedInfo(memory, p)
    /\ left' = {memory.slot[i].passwd : i \in PasswdPos \ {0}} \cap Passwords
    /\ reply' = {}

\* object_passwd: it fails if the password is in no slot and none is free.
Passwd(p, mode) ==
    /\ alive
    /\ LET fits == MatchingSlots(info, p) # {} \/ FreeSlots(info) # {}
       IN  /\ reply' = {[passwd |-> p, mode |-> mode, success |-> fits]}
           /\ \/ fits /\ info' \in PasswdSet(info, p, mode)
              \/ ~fits /\ UNCHANGED info
    /\ UNCHANGED <<alive, left>>

\* object_delete: kfree leaves in the cell what Memory says it may hold.
Delete ==
    /\ alive
    /\ alive' = FALSE
    /\ info' = ZeroInfo
    /\ left' = {}
    /\ reply' = {}

Next == \/ \E p \in Passwords, memory \in Memory : Create(p, memory)
        \/ \E p \in Passwords, mode \in UserModes : Passwd(p, mode)
        \/ Delete

Spec == Init /\ [][Next]_vars

-----------------------------------------------------------------------------
(* The map the slots stand for *)

\* The slots that hold password p, as far as the validation looks.
Held(p) == {i \in PasswdPos : i < info.n_caps /\ info.slot[i].passwd = p}

TableOf == [p \in Passwords |->
              IF alive /\ p \notin left
              THEN UNION {info.slot[i].rights : i \in Held(p)} ELSE {}]

\* A password that is not in the map has a mode in some slot, searched or not.
Crowded == alive /\ \E i \in PasswdPos : /\ info.slot[i].rights # {}
                                         /\ info.slot[i].passwd \notin Passwords \ left

Abstract == INSTANCE PasswdTable WITH table <- TableOf, crowded <- Crowded

\* The slots implement the map: every ObjCreate, ObjPasswd and ObjDelete does to
\* the map what it promises, and ObjPasswd fails only when O_MAX_CAPS passwords
\* are registered or one that the memory held takes room, however often slots were
\* withdrawn and taken again.
ImplementsTable == Abstract!Spec

\* "password only exists once" (object_passwd), among the slots that are searched and
\* for every password that the memory of the object did not hold.
PasswordsOnce ==
    alive => \A i, j \in 0 .. info.n_caps - 1 :
                /\ info.slot[i].passwd = info.slot[j].passwd
                /\ info.slot[i].passwd \in Passwords \ left
                => i = j

\* do_validate_passwd_std decides every request with a password that the memory did
\* not hold as the map says, though it stops at the first slot that decides and
\* object_passwd does not keep the slots in any order.
VerdictFromTable ==
    \A p \in Passwords \ left, access \in SUBSET Rights :
        alive /\ access # {} =>
            LET verdict == First(DecidingSlots(info, p, access))
                mode    == TableOf[p]
            IN  /\ Denies(mode, access) \/ Allows(mode, access) <=> verdict # {}
                /\ \A i \in verdict : info.slot[i].rights = mode

\* ObjPasswd, as its description has it: it registers a capability, of the
\* strength asked for, when it reports success.  A password that the memory held may be
\* "changed" in a slot that is not searched.
SuccessTakesEffect ==
    \A r \in reply : r.success /\ r.passwd \notin left => TableOf[r.passwd] = r.mode
=============================================================================
