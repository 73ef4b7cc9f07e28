SPECIFICATION FairSpec
CONSTANTS
    u1 = u1  u2 = u2  u3 = u3
    None = None
    Users = {u1, u2}
    Pages = {0, 1, 4, 7}
    MaxPtable = 3
    MaxCtable = 3
    MaxPf = 2
    MaxFtable = 4
INVARIANTS
    TypeOK AnswersAsked FramesOfPage
PROPERTIES
    FaultsAnswered
CHECK_DEADLOCK FALSE
