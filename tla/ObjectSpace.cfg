SPECIFICATION Spec
CONSTANTS
    PageSize = 2
    Pages = 7
    Sizes <- MCSizes
INVARIANTS
    TypeOK
    PagesAccounted
    EntriesWhole
    RefusedForWant
CHECK_DEADLOCK FALSE
