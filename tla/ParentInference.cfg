SPECIFICATION Spec
CONSTANTS
    Session = {1, 2, 3}
    Worlds <- MCWorlds
    Requests <- MCRequests
    Wild = {1}
    MaxCandidates = 2
    MaxWrites = 2
    MaxFaults = 1
    None = None
INVARIANTS
    CachedScreensAreExact
    ParentsFormNoCircle
PROPERTIES
    RecordedParentIsBest
CHECK_DEADLOCK FALSE
