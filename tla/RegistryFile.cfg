SPECIFICATION FairSpec
CONSTANTS
    Proc = {x, y}
    Nobody = Nobody
    NoRepo = NoRepo
    Nothing = Nothing
    n = n
    r = r
    p1 = p1
    p2 = p2
    b = b
    i1 = i1
    i2 = i2
    i3 = i3
    Name = {n}
    Repo = {r}
    Path = {p1, p2}
    Branch = {b}
    Inst = {i1, i2, i3}
    Entry <- MCEntry
INVARIANTS
    OneRowPerSlot
    SnapshotIsCurrent
    DestroyedRowStillHeld
PROPERTIES
    RowsLeaveForCause
    StoreSpecified
    WaitEnds
