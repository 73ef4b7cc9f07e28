SPECIFICATION Spec
CONSTANTS
    Threads = {t1, t2, t3}
    Apds = {home, pdx}
    HomeApd = home
    PdxApd = pdx
    None = none
    MaxTid = 4
SYMMETRY Symmetry
INVARIANTS
    TypeOK
    StructuresKept
    
    ExitsKept
    
CHECK_DEADLOCK FALSE
