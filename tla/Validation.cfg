SPECIFICATION Spec
CONSTANTS
    Bases = {b1, b2}
    Cells = {c1, c2}
    Passwords = {p1}
    Rights = {r, d}
    DESTROY = d
    NOT = not
    ZeroPasswd = zero
    None = none
    O_MAX_CAPS = 2
    VCACHE_SIZE = 2
    VCACHE_TIMEOUT = 1
    MaxTime = 2
    MaxClist = 2
    MaxCalls = 3
    r = r
    UserModes <- MCUserModes
SYMMETRY Symmetry
INVARIANTS
    TypeOK
    HitJustified
    FlushForgets
PROPERTIES
    EvictsOldest
    OutlivesBriefly
CHECK_DEADLOCK FALSE
