SPECIFICATION Spec
CONSTANTS
    Threads = {t1, t2, t3, t4}
    Apds = {home, pdx}
    HomeApd = home
    PdxApd = pdx
    None = none
    MaxTid = 5
SYMMETRY Symmetry
INVARIANT OwnL4Thread
CHECK_DEADLOCK FALSE
