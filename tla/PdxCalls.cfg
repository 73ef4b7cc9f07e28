SPECIFICATION Spec
CONSTANTS
    b1 = b1  b2 = b2  b3 = b3
    s3 = s3
    p1 = p1  c1 = c1  c2 = c2  d1 = d1
    Home = Home  Root = Root  Child = Child
    Merge = Merge  Empty = Empty  None = None
    Blocks <- MCBlocks
    Structs <- MCStructs
    Procs = {p1}
    Clists = {c1, c2}
    Pds = {d1}
    TableSize = 2
    Buckets = {0, 1}
    Hash <- ByPd
    Timeout = 1
    MaxTime = 2
    MaxFaults = 1
    MaxSerial = 4
SYMMETRY Symmetry
INVARIANTS
    TypeOK InUseAlive UnusedCached GrantsRecent DomainAsked
CHECK_DEADLOCK FALSE
