SPECIFICATION Spec
CONSTANTS
    Clists = {c1, c2, c3, c4}
    SysClist = sys
    NullCap = null
    APD_MAX_ENTRY = 4
SYMMETRY Symmetry
INVARIANTS
    TypeOK
    DeletedStaysOut
    CountWithinArray
PROPERTIES
    LockedSlotsKept
    DeletePops
CHECK_DEADLOCK FALSE
