---------------------------- MODULE MCObjPasswd ----------------------------
(***************************************************************************)
(* Model-checking instance of ObjPasswd.  The password 0 is one that users *)
(* register; the others are interchangeable.  A cell holds any passwords   *)
(* with any of the modes that users register in the slots that object_add  *)
(* does not write.                                                         *)
(***************************************************************************)
EXTENDS ObjPasswd, TLC

CONSTANT read

\* Withdrawn, read, denied read, everything.
MCUserModes == {{}, {read}, {read, NOT}, Rights}

MCMemory ==
    LET held == [passwd : Passwords, rights : MCUserModes]
    IN  {[slot |-> [i \in PasswdPos |-> IF i = 0 THEN ZeroInfo.slot[0] ELSE s[i]],
          n_caps |-> 0] : s \in [PasswdPos \ {0} -> held]}

Symmetry == Permutations(Passwords \ {ZeroPasswd})
=============================================================================
