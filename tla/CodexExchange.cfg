SPECIFICATION FairSpec
CONSTANTS
    t1 = t1
    t2 = t2
    t3 = t3
    n = n
    o = o
    Thread = {t1, t2, t3}
    Name = {n, o}
    Canonical = {t1, t2}
    Flushed = {t1, t3}
    None = None
    Pending = Pending
    Refused = Refused
    NotFound = NotFound
    Ambiguous = Ambiguous
    MaxPages = 2
    MaxRecords = 3
    MaxPending = 2
    MaxTouches = 1
    MaxFaults = 1
    MaxNotices = 1
INVARIANTS
    NoServerIsLeft
PROPERTIES
    LookupSpecified
    LookupEnds
CHECK_DEADLOCK FALSE
