-------------------------- MODULE ObjPasswdProofs --------------------------
(***************************************************************************)
(* What the runs of ObjPasswd check, proved for any sets of passwords and  *)
(* rights, any number of slots, and objects in memory that holds anything. *)
(***************************************************************************)
EXTENDS ObjPasswd, FiniteSetTheorems, TLAPS

-----------------------------------------------------------------------------
(* The slots of an object *)

\* Whatever object_passwd does to the slots of an object gives slots again.
LEMMA PasswdSetInfos ==
    ASSUME NEW old \in Infos, NEW p \in Passwords, NEW m \in Modes
    PROVE  PasswdSet(old, p, m) \subseteq Infos
<1>1. ASSUME NEW i \in PasswdPos
      PROVE  [old EXCEPT !.slot[i].rights = m] \in Infos
  BY <1>1 DEF Infos
<1>2. ASSUME NEW i \in PasswdPos
      PROVE  [slot   |-> [old.slot EXCEPT ![i] = [passwd |-> p, rights |-> m]],
              n_caps |-> Grown(old.n_caps, i)] \in Infos
  BY <1>2, PasswdAssumption DEF Infos, PasswdPos, Grown
<1>3. /\ First(MatchingSlots(old, p)) \subseteq PasswdPos
      /\ First(FreeSlots(old)) \subseteq PasswdPos
  BY DEF First, MatchingSlots, FreeSlots
<1> QED
  BY <1>1, <1>2, <1>3 DEF PasswdSet

\* The slots of a new object.
LEMMA AddedInfos ==
    ASSUME NEW old \in Infos, NEW p \in Passwords
    PROVE  AddedInfo(old, p) \in Infos
  BY PasswdAssumption DEF AddedInfo, Infos, PasswdPos, OWNER, Modes

\* A password that is not among those of l is in one slot, which is searched.
Single(old, l) ==
    \A i \in PasswdPos : old.slot[i].passwd \in Passwords \ l =>
        /\ i < old.n_caps
        /\ \A j \in PasswdPos : old.slot[j].passwd = old.slot[i].passwd => j = i

\* object_add leaves such slots, with l what the memory held.
LEMMA AddedSingle ==
    ASSUME NEW memory \in Infos, NEW p \in Passwords, NEW l,
           l = {memory.slot[i].passwd : i \in PasswdPos \ {0}} \cap Passwords
    PROVE  Single(AddedInfo(memory, p), l)
<1> DEFINE new == AddedInfo(memory, p)
<1>1. /\ new.n_caps = 1
      /\ \A i \in PasswdPos \ {0} : new.slot[i] = memory.slot[i]
  BY DEF AddedInfo, Infos
<1>2. PasswdPos \subseteq Int
  BY DEF PasswdPos
<1> HIDE DEF new
<1>3. ASSUME NEW i \in PasswdPos, new.slot[i].passwd \in Passwords \ l PROVE i = 0
  BY <1>1, <1>3
<1>4. ASSUME NEW i \in PasswdPos, new.slot[i].passwd \in Passwords \ l
      PROVE  i < new.n_caps
  BY <1>1, <1>3, <1>4
<1>5. ASSUME NEW i \in PasswdPos, NEW j \in PasswdPos,
             new.slot[i].passwd \in Passwords \ l, new.slot[j].passwd = new.slot[i].passwd
      PROVE  j = i
  BY <1>3, <1>5
<1> QED
  BY <1>4, <1>5 DEF Single, new

\* What object_passwd leaves behind: slot i holds the password, and had it before or was
\* free; if it is not one of l the slot is searched, and no other holds it.
Put(old, after, l, p, m, i) ==
    /\ after.slot = [old.slot EXCEPT ![i] = [passwd |-> p, rights |-> m]]
    /\ after.n_caps >= old.n_caps
    /\ old.slot[i].passwd = p \/ old.slot[i].rights = {}
    /\ p \notin l => /\ i < after.n_caps
                     /\ \A j \in PasswdPos : j # i => old.slot[j].passwd # p

LEMMA PasswdSetCases ==
    ASSUME NEW old \in Infos, NEW l, Single(old, l),
           NEW p \in Passwords, NEW m \in Modes, NEW after \in PasswdSet(old, p, m)
    PROVE  \E i \in PasswdPos : Put(old, after, l, p, m, i)
<1> DEFINE changed(i) == [old EXCEPT !.slot[i].rights = m]
           taken(i)   == [slot   |-> [old.slot EXCEPT
                                         ![i] = [passwd |-> p, rights |-> m]],
                          n_caps |-> Grown(old.n_caps, i)]
<1>1. /\ old.n_caps \in 0 .. O_MAX_CAPS
      /\ old.slot \in [PasswdPos -> [passwd : Passwords \cup {ZeroPasswd},
                                      rights : Modes]]
      /\ PasswdPos \subseteq Int
  BY DEF Infos, PasswdPos
<1>2. CASE \E i \in First(MatchingSlots(old, p)) : after = changed(i)
  <2>1. PICK i \in PasswdPos : old.slot[i].passwd = p /\ after = changed(i)
    BY <1>2 DEF First, MatchingSlots
  <2>2. /\ after.n_caps = old.n_caps
        /\ after.slot = [old.slot EXCEPT ![i] = [passwd |-> p, rights |-> m]]
    <3>1. old.slot[i] = [passwd |-> p, rights |-> old.slot[i].rights]
      BY <1>1, <2>1
    <3>2. after = [slot   |-> [old.slot EXCEPT ![i].rights = m],
                   n_caps |-> old.n_caps]
      BY <2>1 DEF Infos
    <3> QED
      BY <1>1, <3>1, <3>2
  <2>3. p \notin l => /\ i < old.n_caps
                     /\ \A j \in PasswdPos : j # i => old.slot[j].passwd # p
    BY <2>1 DEF Single
  <2>4. after.n_caps >= old.n_caps
    BY <1>1, <2>2
  <2> QED
    BY <2>1, <2>2, <2>3, <2>4 DEF Put
<1>3. CASE /\ MatchingSlots(old, p) = {}
           /\ \E i \in First(FreeSlots(old)) : after = taken(i)
  <2>1. PICK i \in First(FreeSlots(old)) : after = taken(i)
    BY <1>3
  <2>2. /\ i \in PasswdPos
        /\ old.slot[i].rights = {}
        /\ First(FreeSlots(old)) = {i}
    <3>1. FreeSlots(old) \subseteq Int /\ i \in FreeSlots(old)
      BY <1>1 DEF First, FreeSlots
    <3>2. First(FreeSlots(old)) = {i}
      BY <3>1 DEF First
    <3> QED
      BY <3>1, <3>2 DEF FreeSlots
  <2>3. \A j \in PasswdPos : j # i => old.slot[j].passwd # p
    BY <1>3, <2>2 DEF MatchingSlots
  <2>4. /\ after.slot = [old.slot EXCEPT ![i] = [passwd |-> p, rights |-> m]]
        /\ after.n_caps = IF i >= old.n_caps THEN i + 1 ELSE old.n_caps
    BY <2>1 DEF Grown
  <2>5. i < after.n_caps /\ after.n_caps >= old.n_caps
    BY <1>1, <2>2, <2>4
  <2> QED
    BY <2>2, <2>3, <2>4, <2>5 DEF Put
<1> QED
  BY <1>2, <1>3 DEF PasswdSet

-----------------------------------------------------------------------------

\* The inductive invariant: what object_add establishes for the passwords that the memory
\* did not hold, object_passwd keeps.
Sound == alive => Single(info, left)

IInv == TypeOK /\ Sound /\ SuccessTakesEffect

-----------------------------------------------------------------------------
(* The map *)

\* A password held in one slot has that slot's mode.
LEMMA HeldOne ==
    ASSUME alive, NEW p \in Passwords \ left, NEW k \in PasswdPos, Held(p) = {k}
    PROVE  TableOf[p] = info.slot[k].rights
  BY DEF TableOf

\* A password held in no slot has the null mode.
LEMMA HeldNone ==
    ASSUME NEW p \in Passwords, Held(p) = {}
    PROVE  TableOf[p] = {}
  BY DEF TableOf

\* No password is held twice.
LEMMA HeldAtMostOnce ==
    ASSUME TypeOK, Sound, alive, NEW p \in Passwords \ left
    PROVE  Held(p) = {} \/ \E k \in PasswdPos : Held(p) = {k}
<1>1. ASSUME NEW i \in Held(p), NEW j \in Held(p) PROVE i = j
  BY <1>1 DEF Held, Sound, Single
<1>2. Held(p) \subseteq PasswdPos
  BY DEF Held
<1> QED
  BY <1>1, <1>2

-----------------------------------------------------------------------------
(* Steps *)

LEMMA TypeInit == Init => TypeOK
<1> SUFFICES ASSUME Init PROVE TypeOK
  OBVIOUS
<1>1. ZeroInfo \in Infos
  BY PasswdAssumption DEF ZeroInfo, Infos, Modes, PasswdPos
<1> QED
  BY <1>1 DEF Init, TypeOK

LEMMA TypeStep == TypeOK /\ [Next]_vars => TypeOK'
<1> SUFFICES ASSUME TypeOK, [Next]_vars PROVE TypeOK'
  OBVIOUS
<1>1. ASSUME NEW p \in Passwords, NEW memory \in Memory, Create(p, memory) PROVE TypeOK'
  <2>1. info' \in Infos
    BY <1>1, AddedInfos, ObjPasswdAssumption DEF Create
  <2> QED
    BY <1>1, <2>1 DEF TypeOK, Create
<1>2. ASSUME NEW p \in Passwords, NEW mode \in UserModes, Passwd(p, mode)
      PROVE  TypeOK'
  <2>1. mode \in Modes
    BY ObjPasswdAssumption
  <2>2. info' \in Infos
    BY <1>2, <2>1, PasswdSetInfos DEF Passwd, TypeOK
  <2>3. PICK r \in Replies : reply' = {r}
    <3>1. PICK fits \in BOOLEAN :
             reply' = {[passwd |-> p, mode |-> mode, success |-> fits]}
      BY <1>2 DEF Passwd
    <3>2. [passwd |-> p, mode |-> mode, success |-> fits] \in Replies
      BY <2>1 DEF Replies
    <3> QED
      BY <3>1, <3>2
  <2> QED
    BY <1>2, <2>2, <2>3 DEF Passwd, TypeOK
<1>3. CASE Delete
  <2>1. ZeroInfo \in Infos
    BY PasswdAssumption DEF ZeroInfo, Infos, Modes, PasswdPos
  <2> QED
    BY <1>3, <2>1 DEF TypeOK, Delete
<1>4. CASE UNCHANGED vars
  BY <1>4 DEF TypeOK, vars
<1> QED
  BY <1>1, <1>2, <1>3, <1>4 DEF Next

\* A successful ObjPasswd changes one slot.
LEMMA PasswdPuts ==
    ASSUME TypeOK, Sound, NEW p \in Passwords, NEW mode \in UserModes,
           Passwd(p, mode), info' \in PasswdSet(info, p, mode)
    PROVE  \E i \in PasswdPos :
              /\ Put(info, info', left, p, mode, i)
              /\ info'.slot[i] = [passwd |-> p, rights |-> mode]
              /\ \A j \in PasswdPos : j # i => info'.slot[j] = info.slot[j]
<1>1. info \in Infos /\ mode \in Modes /\ Single(info, left)
  BY ObjPasswdAssumption DEF TypeOK, Sound, Passwd
<1>2. PICK i \in PasswdPos : Put(info, info', left, p, mode, i)
  BY <1>1, PasswdSetCases
<1>3. info.slot \in [PasswdPos -> [passwd : Passwords \cup {ZeroPasswd}, rights : Modes]]
  BY <1>1 DEF Infos
<1> QED
  BY <1>2, <1>3 DEF Put

\* What a successful ObjPasswd does: every password outside left is held where it was, but
\* the one it is about has its new mode.
LEMMA PasswdEffect ==
    ASSUME TypeOK, Sound, NEW p \in Passwords, NEW mode \in UserModes,
           Passwd(p, mode), info' \in PasswdSet(info, p, mode)
    PROVE  /\ Single(info', left)
           /\ TableOf' = IF p \in left THEN TableOf ELSE [TableOf EXCEPT ![p] = mode]
           /\ p \notin left => Crowded' = Crowded
           /\ p \notin left => \E i \in PasswdPos :
                 info.slot[i].rights = {} \/ i \in Held(p)
<1>1. alive /\ alive' /\ left' = left /\ Single(info, left) /\ info \in Infos
  BY DEF Passwd, Sound, TypeOK
<1>2. PICK i \in PasswdPos :
         /\ Put(info, info', left, p, mode, i)
         /\ info'.slot[i] = [passwd |-> p, rights |-> mode]
         /\ \A j \in PasswdPos : j # i => info'.slot[j] = info.slot[j]
  BY PasswdPuts
<1>3. /\ info.n_caps \in Int /\ info'.n_caps \in Int /\ PasswdPos \subseteq Int
      /\ info'.n_caps >= info.n_caps
  <2>1. info' \in Infos
    BY <1>1, ObjPasswdAssumption, PasswdSetInfos
  <2> QED
    BY <1>1, <1>2, <2>1 DEF Infos, PasswdPos, Put
<1>4. Single(info', left)
  <2>1. ASSUME NEW j \in PasswdPos, info'.slot[j].passwd \in Passwords \ left
        PROVE  j < info'.n_caps
    <3>1. CASE j = i
      BY <1>2, <2>1, <3>1 DEF Put
    <3>2. CASE j # i
      BY <1>1, <1>2, <1>3, <2>1, <3>2 DEF Single
    <3> QED
      BY <3>1, <3>2
  <2>2. ASSUME NEW j \in PasswdPos, NEW k \in PasswdPos,
               info'.slot[j].passwd \in Passwords \ left,
               info'.slot[k].passwd = info'.slot[j].passwd
        PROVE  k = j
    <3>1. CASE j # i /\ k # i
      BY <1>1, <1>2, <2>2, <3>1 DEF Single
    <3>2. CASE j = i \/ k = i
      BY <1>2, <2>2, <3>2 DEF Put
    <3> QED
      BY <3>1, <3>2
  <2> QED
    BY <2>1, <2>2 DEF Single
<1>5. ASSUME NEW q \in Passwords \ left, q # p
      PROVE  TableOf'[q] = TableOf[q]
  <2>1. \A j \in Held(q)' : j # i /\ j \in Held(q)
    BY <1>1, <1>2, <1>5 DEF Held, Single
  <2>2. \A j \in Held(q) : j # i => j \in Held(q)'
    BY <1>2, <1>3 DEF Held
  <2>3. TableOf'[q] = UNION {info.slot[j].rights : j \in Held(q)'}
    <3>1. TableOf'[q] = UNION {info'.slot[j].rights : j \in Held(q)'}
      BY <1>1 DEF TableOf
    <3>2. \A j \in Held(q)' : info'.slot[j].rights = info.slot[j].rights
      BY <1>2, <2>1 DEF Held
    <3> QED
      BY <3>1, <3>2
  <2>4. TableOf[q] = UNION {info.slot[j].rights : j \in Held(q)}
    BY <1>1 DEF TableOf
  <2>5. i \in Held(q) => info.slot[i].rights = {}
    BY <1>2, <1>5 DEF Held, Put
  <2> QED
    BY <2>1, <2>2, <2>3, <2>4, <2>5
<1>6. ASSUME NEW q \in Passwords, q \in left PROVE TableOf'[q] = TableOf[q]
  BY <1>1, <1>6 DEF TableOf
<1>7. p \notin left => TableOf'[p] = mode
  <2> SUFFICES ASSUME p \notin left PROVE TableOf'[p] = mode
    OBVIOUS
  <2>1. Held(p)' = {i}
    BY <1>2 DEF Held, Put
  <2>2. TableOf'[p] = UNION {info'.slot[j].rights : j \in Held(p)'}
    BY <1>1 DEF TableOf
  <2> QED
    BY <1>2, <2>1, <2>2
<1>8. TableOf' = IF p \in left THEN TableOf ELSE [TableOf EXCEPT ![p] = mode]
  <2>1. TableOf' = [q \in Passwords |-> TableOf'[q]]
    BY DEF TableOf
  <2>2. TableOf = [q \in Passwords |-> TableOf[q]]
    BY DEF TableOf
  <2>3. CASE p \in left
    <3>1. \A q \in Passwords : TableOf'[q] = TableOf[q]
      BY <1>5, <1>6, <2>3
    <3> QED
      BY <2>1, <2>2, <2>3, <3>1
  <2>4. CASE p \notin left
    <3>1. \A q \in Passwords : TableOf'[q] = IF q = p THEN mode ELSE TableOf[q]
      BY <1>5, <1>6, <1>7, <2>4
    <3> QED
      BY <2>1, <2>2, <2>4, <3>1
  <2> QED
    BY <2>3, <2>4
<1>9. ASSUME p \notin left PROVE Crowded' = Crowded
  <2>1. ASSUME NEW j \in PasswdPos
        PROVE  (/\ info'.slot[j].rights # {}
                /\ info'.slot[j].passwd \notin Passwords \ left) <=>
               (/\ info.slot[j].rights # {}
                /\ info.slot[j].passwd \notin Passwords \ left)
    <3>1. CASE j = i
      BY <1>2, <1>9, <3>1 DEF Put
    <3>2. CASE j # i
      BY <1>2, <3>2
    <3> QED
      BY <3>1, <3>2
  <2> QED
    BY <1>1, <2>1 DEF Crowded
<1>10. ASSUME p \notin left PROVE info.slot[i].rights = {} \/ i \in Held(p)
  <2>1. info.slot[i].passwd = p => i < info.n_caps
    BY <1>1, <1>10 DEF Single
  <2> QED
    BY <1>2, <2>1 DEF Held, Put
<1> QED
  BY <1>4, <1>8, <1>9, <1>10

LEMMA SoundStep == TypeOK /\ Sound /\ [Next]_vars => Sound'
<1> SUFFICES ASSUME TypeOK, Sound, [Next]_vars PROVE Sound'
  OBVIOUS
<1>1. ASSUME NEW p \in Passwords, NEW memory \in Memory, Create(p, memory) PROVE Sound'
  <2>1. Single(info', left')
    BY <1>1, AddedSingle, ObjPasswdAssumption DEF Create
  <2> QED
    BY <2>1 DEF Sound
<1>2. ASSUME NEW p \in Passwords, NEW mode \in UserModes, Passwd(p, mode)
      PROVE  Sound'
  <2>1. CASE info' = info
    BY <1>2, <2>1 DEF Passwd, Sound
  <2>2. CASE info' \in PasswdSet(info, p, mode)
    <3>1. Single(info', left)
      BY <1>2, <2>2, PasswdEffect
    <3> QED
      BY <1>2, <3>1 DEF Sound, Passwd
  <2> QED
    BY <1>2, <2>1, <2>2 DEF Passwd
<1>3. CASE Delete
  BY <1>3 DEF Delete, Sound
<1>4. CASE UNCHANGED vars
  BY <1>4 DEF vars, Sound
<1> QED
  BY <1>1, <1>2, <1>3, <1>4 DEF Next

LEMMA EffectStep ==
    TypeOK /\ Sound /\ SuccessTakesEffect /\ [Next]_vars => SuccessTakesEffect'
<1> SUFFICES ASSUME TypeOK, Sound, SuccessTakesEffect, [Next]_vars
             PROVE  SuccessTakesEffect'
  OBVIOUS
<1>1. ASSUME NEW p \in Passwords, NEW memory \in Memory, Create(p, memory)
      PROVE  SuccessTakesEffect'
  BY <1>1 DEF Create, SuccessTakesEffect
<1>2. ASSUME NEW p \in Passwords, NEW mode \in UserModes, Passwd(p, mode)
      PROVE  SuccessTakesEffect'
  <2>1. PICK fits \in BOOLEAN :
           /\ reply' = {[passwd |-> p, mode |-> mode, success |-> fits]}
           /\ fits => info' \in PasswdSet(info, p, mode)
    BY <1>2 DEF Passwd
  <2>2. ASSUME fits, p \notin left' PROVE TableOf'[p] = mode
    <3>1. p \notin left
      BY <1>2, <2>2 DEF Passwd
    <3>2. TableOf' = [TableOf EXCEPT ![p] = mode]
      BY <1>2, <2>1, <2>2, <3>1, PasswdEffect
    <3>3. TableOf = [q \in Passwords |-> TableOf[q]]
      BY DEF TableOf
    <3> QED
      BY <3>2, <3>3
  <2> QED
    BY <2>1, <2>2 DEF SuccessTakesEffect
<1>3. CASE Delete
  BY <1>3 DEF Delete, SuccessTakesEffect
<1>4. CASE UNCHANGED vars
  <2>1. TableOf' = TableOf
    BY <1>4 DEF vars, TableOf, Held
  <2> QED
    BY <1>4, <2>1 DEF vars, SuccessTakesEffect
<1> QED
  BY <1>1, <1>2, <1>3, <1>4 DEF Next

LEMMA Invariance == Spec => []IInv
<1>1. Init => IInv
  BY TypeInit DEF Init, IInv, Sound, SuccessTakesEffect
<1>2. IInv /\ [Next]_vars => IInv'
  BY TypeStep, SoundStep, EffectStep DEF IInv
<1> QED
  BY <1>1, <1>2, PTL DEF Spec

-----------------------------------------------------------------------------
(* Results *)

\* Every reachable state is well typed; n_caps never passes the slots.
THEOREM TypeCorrect == Spec => []TypeOK
  BY TypeInit, TypeStep, PTL DEF Spec

\* However passwords are registered, changed, withdrawn and registered again, a
\* password that the memory of the object did not hold is never in two of the slots that
\* are searched.
THEOREM NoDuplicates == Spec => []PasswordsOnce
<1>1. IInv => PasswordsOnce
  <2> SUFFICES ASSUME IInv, alive,
                      NEW i \in 0 .. info.n_caps - 1, NEW j \in 0 .. info.n_caps - 1,
                      info.slot[i].passwd = info.slot[j].passwd,
                      info.slot[i].passwd \in Passwords \ left
               PROVE  i = j
    BY DEF PasswordsOnce
  <2>1. i \in PasswdPos /\ j \in PasswdPos
    BY PasswdAssumption DEF IInv, TypeOK, Infos, PasswdPos
  <2> QED
    BY <2>1 DEF IInv, Sound, Single
<1> QED
  BY <1>1, Invariance, PTL

\* When ObjPasswd reports success the password has the mode asked for, if the memory of
\* the object did not hold it.
THEOREM SuccessIsReal == Spec => []SuccessTakesEffect
<1>1. IInv => SuccessTakesEffect
  BY DEF IInv
<1> QED
  BY <1>1, Invariance, PTL

\* do_validate_passwd_std decides every request with a password that the memory did not
\* hold as the map of passwords says, wherever the passwords are in the slots.
THEOREM VerdictsFollowTable == Spec => []VerdictFromTable
<1>1. IInv => VerdictFromTable
  <2> SUFFICES ASSUME IInv, alive,
                      NEW p \in Passwords \ left, NEW access \in SUBSET Rights,
                      access # {}
               PROVE  LET verdict == First(DecidingSlots(info, p, access))
                          mode    == TableOf[p]
                      IN  /\ Denies(mode, access) \/ Allows(mode, access)
                                <=> verdict # {}
                          /\ \A i \in verdict : info.slot[i].rights = mode
    BY DEF VerdictFromTable
  <2> DEFINE D == DecidingSlots(info, p, access)
             Decides(mode) == Denies(mode, access) \/ Allows(mode, access)
  <2>1. D = {i \in Held(p) : Decides(info.slot[i].rights)}
    BY DEF DecidingSlots, Held
  <2>2. CASE Held(p) = {}
    <3>1. TableOf[p] = {} /\ First(D) = {}
      BY <2>1, <2>2, HeldNone DEF First
    <3>2. ~Decides({})
      BY DEF Denies, Allows
    <3> QED
      BY <3>1, <3>2
  <2>3. CASE Held(p) # {}
    <3>1. PICK k \in PasswdPos : Held(p) = {k}
      BY <2>3, HeldAtMostOnce DEF IInv
    <3>2. TableOf[p] = info.slot[k].rights
      BY <3>1, HeldOne DEF IInv
    <3>3. CASE Decides(info.slot[k].rights)
      <4>1. D = {k} /\ k <= k
        BY <2>1, <3>1, <3>3 DEF PasswdPos
      <4>2. First(D) = {k}
        BY <4>1 DEF First
      <4> QED
        BY <3>2, <3>3, <4>2
    <3>4. CASE ~Decides(info.slot[k].rights)
      <4>1. First(D) = {}
        BY <2>1, <3>1, <3>4 DEF First
      <4> QED
        BY <3>2, <3>4, <4>1
    <3> QED
      BY <3>3, <3>4
  <2> QED
    BY <2>2, <2>3
<1> QED
  BY <1>1, Invariance, PTL

-----------------------------------------------------------------------------
(* Refinement *)

\* PasswdTable counts as this module does.
LEMMA SameCardinality == \A S : Abstract!Cardinality(S) = Cardinality(S)
  BY DEF Cardinality, Abstract!Cardinality

\* The passwords in the map have a slot each, among those with a mode.
LEMMA SlotEach ==
    ASSUME TypeOK, Sound, alive, NEW T \in SUBSET PasswdPos,
           \A i \in PasswdPos \ T : info.slot[i].rights = {}
    PROVE  /\ IsFiniteSet(Abstract!Registered) /\ IsFiniteSet(T)
           /\ Cardinality(Abstract!Registered) <= Cardinality(T)
<1> DEFINE R == Abstract!Registered
           slotOf == [p \in R |-> CHOOSE k \in PasswdPos : Held(p) = {k}]
<1>1. ASSUME NEW p \in R
      PROVE  slotOf[p] \in T /\ Held(p) = {slotOf[p]}
  <2>1. p \in Passwords \ left /\ TableOf[p] # {}
    BY DEF Abstract!Registered, TableOf
  <2>2. \E k \in PasswdPos : Held(p) = {k}
    BY <2>1, HeldNone, HeldAtMostOnce
  <2>3. slotOf[p] \in PasswdPos /\ Held(p) = {slotOf[p]}
    BY <2>2
  <2>4. TableOf[p] = info.slot[slotOf[p]].rights
    BY <2>1, <2>3, HeldOne
  <2> QED
    BY <2>1, <2>3, <2>4
<1> HIDE DEF slotOf
<1>2. ASSUME NEW p \in R, NEW q \in R, slotOf[p] = slotOf[q] PROVE p = q
  <2>1. slotOf[p] \in Held(p) /\ slotOf[p] \in Held(q)
    BY <1>1, <1>2
  <2> QED
    BY <2>1 DEF Held
<1>3. slotOf \in [R -> T]
  <2>1. slotOf = [p \in R |-> slotOf[p]]
    BY DEF slotOf
  <2> QED
    BY <1>1, <2>1
<1>4. slotOf \in Injection(R, T)
  BY <1>2, <1>3 DEF Injection, IsInjective
<1>5. IsFiniteSet(T)
  <2>1. IsFiniteSet(PasswdPos)
    BY FS_Interval, PasswdAssumption DEF PasswdPos
  <2> QED
    BY <2>1, FS_Subset
<1> QED
  BY <1>4, <1>5, FS_Injection

LEMMA PasswdPosFinite == IsFiniteSet(PasswdPos) /\ Cardinality(PasswdPos) = O_MAX_CAPS
  BY FS_Interval, PasswdAssumption DEF PasswdPos

\* When ObjPasswd can take or change a slot without a mode, fewer passwords are
\* registered than there are slots.
LEMMA RoomIfFree ==
    ASSUME TypeOK, Sound, alive, NEW i \in PasswdPos, info.slot[i].rights = {}
    PROVE  Cardinality(Abstract!Registered) < O_MAX_CAPS
<1> DEFINE T == PasswdPos \ {i}
<1>1. /\ IsFiniteSet(Abstract!Registered)
      /\ Cardinality(Abstract!Registered) <= Cardinality(T)
  BY SlotEach
<1>2. Cardinality(T) = O_MAX_CAPS - 1
  BY PasswdPosFinite, FS_RemoveElement
<1>3. Cardinality(Abstract!Registered) \in Nat
  BY <1>1, FS_CardinalityType
<1> QED
  BY <1>1, <1>2, <1>3, PasswdAssumption

\* When no slot is free and none holds a password outside the map, as many passwords are
\* registered as there are slots.
LEMMA FullIfNoneFree ==
    ASSUME TypeOK, Sound, alive, ~Crowded, FreeSlots(info) = {}
    PROVE  Cardinality(Abstract!Registered) = O_MAX_CAPS
<1> DEFINE R == Abstract!Registered
           passwdOf == [i \in PasswdPos |-> info.slot[i].passwd]
<1>1. ASSUME NEW i \in PasswdPos PROVE passwdOf[i] \in R
  <2>1. info.slot[i].rights # {} /\ info.slot[i].passwd \in Passwords \ left
    BY DEF FreeSlots, Crowded
  <2>2. i \in Held(info.slot[i].passwd)
    BY <2>1 DEF Sound, Single, Held
  <2>3. TableOf[info.slot[i].passwd] # {}
    BY <2>1, <2>2 DEF TableOf
  <2> QED
    BY <2>1, <2>3 DEF Abstract!Registered
<1>2. ASSUME NEW i \in PasswdPos, NEW j \in PasswdPos, passwdOf[i] = passwdOf[j] PROVE i = j
  <2>1. info.slot[i].passwd \in Passwords \ left
    BY DEF FreeSlots, Crowded
  <2> QED
    BY <1>2, <2>1 DEF Sound, Single
<1> HIDE DEF passwdOf
<1>3. passwdOf \in [PasswdPos -> R]
  <2>1. passwdOf = [i \in PasswdPos |-> passwdOf[i]]
    BY DEF passwdOf
  <2> QED
    BY <1>1, <2>1
<1>4. passwdOf \in Injection(PasswdPos, R)
  BY <1>2, <1>3 DEF Injection, IsInjective
<1>5. IsFiniteSet(R) /\ Cardinality(R) <= O_MAX_CAPS
  BY SlotEach, PasswdPosFinite
<1>6. O_MAX_CAPS <= Cardinality(R)
  BY <1>4, <1>5, PasswdPosFinite, FS_Injection
<1>7. Cardinality(R) \in Nat
  BY <1>5, FS_CardinalityType
<1> QED
  BY <1>5, <1>6, <1>7, PasswdAssumption

LEMMA CreateImplements ==
    ASSUME IInv, NEW p \in Passwords, NEW memory \in Memory, Create(p, memory)
    PROVE  Abstract!ObjCreate(p)
<1>1. info' = AddedInfo(memory, p) /\ ~alive /\ alive' /\ reply' = {}
  BY DEF Create
<1>2. /\ info'.n_caps = 1 /\ 0 \in PasswdPos
      /\ info'.slot[0] = [passwd |-> p, rights |-> OWNER]
      /\ PasswdPos \subseteq Nat
  <2>1. memory \in Infos
    BY ObjPasswdAssumption
  <2> QED
    BY <1>1, <2>1, PasswdAssumption DEF AddedInfo, Infos, PasswdPos
<1>3. \A q \in Passwords : Held(q)' = IF q = p THEN {0} ELSE {}
  <2>1. \A q \in Passwords, i \in PasswdPos : i \in Held(q)' <=> i = 0 /\ q = p
    <3>1. \A i \in PasswdPos : i < info'.n_caps <=> i = 0
      BY <1>2
    <3> QED
      BY <1>2, <3>1 DEF Held
  <2>2. \A q \in Passwords : Held(q)' \subseteq PasswdPos
    BY DEF Held
  <2> QED
    BY <1>2, <2>1, <2>2
<1>4. ASSUME NEW q \in Passwords
      PROVE  TableOf'[q] = IF q = p /\ p \notin left' THEN OWNER ELSE {}
  <2>1. TableOf'[q] = IF q \notin left' THEN UNION {info'.slot[i].rights : i \in Held(q)'}
                      ELSE {}
    BY <1>1 DEF TableOf
  <2>2. CASE q = p
    <3>1. UNION {info'.slot[i].rights : i \in Held(q)'} = OWNER
      BY <1>2, <1>3, <2>2
    <3> QED
      BY <2>1, <2>2, <3>1
  <2>3. CASE q # p
    BY <1>3, <2>1, <2>3
  <2> QED
    BY <2>2, <2>3
<1>5. TableOf' = [q \in Passwords |-> IF q = p /\ p \notin left' THEN OWNER ELSE {}]
  <2>1. TableOf' = [q \in Passwords |-> TableOf'[q]]
    BY DEF TableOf
  <2> QED
    BY <1>4, <2>1
<1>6. left' \in SUBSET Passwords /\ Crowded' \in BOOLEAN
  BY DEF Create, Crowded
<1> QED
  BY <1>1, <1>5, <1>6 DEF Abstract!ObjCreate

\* An ObjPasswd that is refused.
LEMMA RefusalImplements ==
    ASSUME IInv, NEW p \in Passwords, NEW mode \in UserModes, Passwd(p, mode),
           reply' = {[passwd |-> p, mode |-> mode, success |-> FALSE]},
           MatchingSlots(info, p) = {}, FreeSlots(info) = {}, info' = info
    PROVE  Abstract!ObjPasswdFails(p, mode)
<1>1. alive /\ alive' = alive /\ left' = left
  BY DEF Passwd
<1>2. UNCHANGED <<alive, TableOf, left, Crowded>>
  BY <1>1 DEF TableOf, Held, Crowded
<1>3. Cardinality(Abstract!Registered) = O_MAX_CAPS \/ Crowded
  BY <1>1, FullIfNoneFree DEF IInv
<1>4. p \notin Abstract!Registered
  <2>1. First(FreeSlots(info)) = {}
    BY DEF First
  <2>2. \A i \in PasswdPos : info.slot[i].passwd # p
    BY <2>1 DEF MatchingSlots
  <2>3. Held(p) = {}
    BY <2>2 DEF Held
  <2> QED
    BY <2>3, HeldNone DEF Abstract!Registered
<1> QED
  BY <1>1, <1>2, <1>3, <1>4, SameCardinality DEF Abstract!ObjPasswdFails, Abstract!Replies

LEMMA PasswdImplements ==
    ASSUME IInv, NEW p \in Passwords, NEW mode \in UserModes, Passwd(p, mode)
    PROVE  \/ Abstract!ObjPasswd(p, mode)
           \/ Abstract!ObjPasswdLeft(p, mode)
           \/ Abstract!ObjPasswdFails(p, mode)
<1> USE DEF IInv
<1>1. alive /\ alive' = alive /\ left' = left
  BY DEF Passwd
<1>2. CASE MatchingSlots(info, p) # {} \/ FreeSlots(info) # {}
  <2>1. /\ reply' = {[passwd |-> p, mode |-> mode, success |-> TRUE]}
        /\ info' \in PasswdSet(info, p, mode)
    BY <1>2 DEF Passwd
  <2>2. CASE p \in left
    <3>1. TableOf' = TableOf
      BY <2>1, <2>2, PasswdEffect
    <3>2. Crowded' \in BOOLEAN
      BY DEF Crowded
    <3> QED
      BY <1>1, <2>1, <2>2, <3>1, <3>2 DEF Abstract!ObjPasswdLeft, Abstract!Replies
  <2>3. CASE p \notin left
    <3>1. /\ TableOf' = [TableOf EXCEPT ![p] = mode] /\ Crowded' = Crowded
          /\ \E i \in PasswdPos : info.slot[i].rights = {} \/ i \in Held(p)
      BY <2>1, <2>3, PasswdEffect
    <3>2. PICK i \in PasswdPos : info.slot[i].rights = {} \/ i \in Held(p)
      BY <3>1
    <3>3. p \in Abstract!Registered \/ Cardinality(Abstract!Registered) < O_MAX_CAPS
      <4>1. CASE info.slot[i].rights = {}
        BY <1>1, <4>1, RoomIfFree
      <4>2. CASE info.slot[i].rights # {} /\ i \in Held(p)
        <5>1. Held(p) = {i}
          BY <1>1, <2>3, <4>2, HeldAtMostOnce
        <5>2. TableOf[p] # {}
          BY <1>1, <2>3, <4>2, <5>1, HeldOne
        <5> QED
          BY <5>2 DEF Abstract!Registered
      <4> QED
        BY <3>2, <4>1, <4>2
    <3> QED
      BY <1>1, <2>1, <2>3, <3>1, <3>3, SameCardinality
         DEF Abstract!ObjPasswd, Abstract!Replies
  <2> QED
    BY <2>2, <2>3
<1>3. CASE MatchingSlots(info, p) = {} /\ FreeSlots(info) = {}
  <2>1. /\ reply' = {[passwd |-> p, mode |-> mode, success |-> FALSE]}
        /\ info' = info
    BY <1>3 DEF Passwd
  <2> QED
    BY <1>3, <2>1, RefusalImplements
<1> QED
  BY <1>2, <1>3

\* The slots implement the map, whatever the memory of an object held: every step of
\* object_add, object_passwd and object_delete is a step of PasswdTable on the map of the
\* passwords that the memory did not hold, a refusal one for want of room.
THEOREM SlotsImplementTable == Spec => ImplementsTable
<1>1. Init => Abstract!Init
  BY DEF Init, Abstract!Init, TableOf, Crowded
<1>2. ASSUME IInv, [Next]_vars
      PROVE  [Abstract!Next]_<<alive, TableOf, left, Crowded, reply>>
  <2>1. ASSUME NEW p \in Passwords, NEW memory \in Memory, Create(p, memory)
        PROVE  Abstract!Next
    BY <1>2, <2>1, CreateImplements DEF Abstract!Next
  <2>2. ASSUME NEW p \in Passwords, NEW mode \in UserModes, Passwd(p, mode)
        PROVE  Abstract!Next
    <3>1. mode \in Modes
      BY ObjPasswdAssumption
    <3> QED
      BY <1>2, <2>2, <3>1, PasswdImplements DEF Abstract!Next
  <2>3. CASE Delete
    <3>1. alive /\ alive' = FALSE /\ left' = {} /\ reply' = {} /\ Crowded' = FALSE
      BY <2>3 DEF Delete, Crowded
    <3>2. TableOf' = [p \in Passwords |-> {}]
      BY <3>1 DEF TableOf
    <3> QED
      BY <3>1, <3>2 DEF Abstract!Next, Abstract!ObjDelete
  <2>4. CASE UNCHANGED vars
    BY <2>4 DEF vars, TableOf, Held, Crowded
  <2> QED
    BY <1>2, <2>1, <2>2, <2>3, <2>4 DEF Next
<1> QED
  BY <1>1, <1>2, Invariance, PTL DEF Spec, ImplementsTable, Abstract!Spec
=============================================================================
