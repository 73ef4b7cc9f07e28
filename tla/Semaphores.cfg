SPECIFICATION Spec
CONSTANTS
    Threads = {t1, t2}
    Addresses = {a1, a2}
    Slots = {s1, s2}
    Blocks = {b1, b2, b3}
    None = none
    Elsewhere = elsewhere
    MaxValue = 1
    MaxOwed = 2
SYMMETRY Symmetry
INVARIANTS
    TypeOK
    NeverTooMany
    NoIdleToken
    ValueAccounts
    QueueSound
    BlockAccounted
CHECK_DEADLOCK FALSE
