---------------------------- MODULE PasswdSlots ----------------------------
(***************************************************************************)
(* The password slots of an object (objinfo_t.passwd, .rights and .n_caps) *)
(* and what object_add, object_passwd and do_validate_passwd_std do with   *)
(* them.                                                                   *)
(*                                                                         *)
(* A mode is a set of rights; it may hold NOT, the bit of a negative       *)
(* capability.  The empty mode marks a slot that is free: never used, or   *)
(* withdrawn.  Slots from n_caps on are not searched by the validation.    *)
(***************************************************************************)
EXTENDS Integers

CONSTANTS Passwords,     \* passwords users may present or register
          ZeroPasswd,    \* the password 0, that of a slot in memory never used
          Rights,        \* positive access bits: M_EXECUTE .. M_DESTROY
          NOT,           \* M_NOT, the bit of a negative capability
          O_MAX_CAPS     \* password slots of an object

ASSUME PasswdAssumption ==
    /\ NOT \notin Rights
    /\ O_MAX_CAPS \in Nat \ {0}

Modes == SUBSET (Rights \cup {NOT})

\* M_OWNER: every positive right.
OWNER == Rights

PasswdPos == 0 .. O_MAX_CAPS - 1

Infos == [slot   : [PasswdPos -> [passwd : Passwords \cup {ZeroPasswd},
                                  rights : Modes]],
          n_caps : 0 .. O_MAX_CAPS]

\* Memory no object has used yet.
ZeroInfo == [slot   |-> [i \in PasswdPos |-> [passwd |-> ZeroPasswd,
                                              rights |-> {}]],
             n_caps |-> 0]

\* The least element of a set of slots or positions, as a set: empty if the set
\* is.
First(S) == {i \in S : \A j \in S : i <= j}

\* Variant: n_caps is not set.
AddedInfoUncounted(info, p) ==
    [info EXCEPT !.slot[0] = [passwd |-> p, rights |-> OWNER]]

\* object_add writes the first slot and n_caps; the others keep what the memory
\* held before.
AddedInfo(info, p) ==
    [slot   |-> [info.slot EXCEPT ![0] = [passwd |-> p, rights |-> OWNER]],
     n_caps |-> 1]

FreeSlots(info) == {i \in PasswdPos : info.slot[i].rights = {}}

\* Variant: no free slot is compared.
MatchingSlotsTaken(info, p) ==
    {i \in PasswdPos : info.slot[i].passwd = p} \ FreeSlots(info)

\* The slots object_passwd takes to hold the password already.  It compares all
\* slots, those from n_caps on too, except the first free one.
MatchingSlots(info, p) ==
    {i \in PasswdPos : info.slot[i].passwd = p} \ First(FreeSlots(info))

\* Variants: n_caps does not grow, or grows whenever a slot is taken.
GrownNever(n_caps, i) == n_caps
GrownAlways(n_caps, i) == n_caps + 1

\* n_caps once slot i is taken.
Grown(n_caps, i) == IF i >= n_caps THEN i + 1 ELSE n_caps

\* What object_passwd may leave behind: the password's own slot changes, else
\* the first free one is taken and n_caps grows to cover it.  The empty set if
\* there is no such slot: it fails.
PasswdSet(info, p, mode) ==
    LET changed(i) == [info EXCEPT !.slot[i].rights = mode]
        taken(i)   == [slot   |-> [info.slot EXCEPT
                                      ![i] = [passwd |-> p, rights |-> mode]],
                       n_caps |-> Grown(info.n_caps, i)]
        matching   == MatchingSlots(info, p)
    IN  {changed(i) : i \in First(matching)}
        \cup {taken(i) : i \in {k \in First(FreeSlots(info)) : matching = {}}}

\* do_validate_passwd_std: a slot of the password decides a request if it is
\* negative and meets it (denied), or if it covers it (allowed).
Denies(mode, access) == NOT \in mode /\ access \cap mode # {}
Allows(mode, access) == ~Denies(mode, access) /\ access \subseteq mode

\* Variant: the last slot is not searched.
DecidingSlotsShort(info, p, access) ==
    {i \in PasswdPos :
        /\ i + 1 < info.n_caps
        /\ info.slot[i].passwd = p
        /\ \/ Denies(info.slot[i].rights, access)
           \/ Allows(info.slot[i].rights, access)}

DecidingSlots(info, p, access) ==
    {i \in PasswdPos :
        /\ i < info.n_caps
        /\ info.slot[i].passwd = p
        /\ \/ Denies(info.slot[i].rights, access)
           \/ Allows(info.slot[i].rights, access)}
=============================================================================
