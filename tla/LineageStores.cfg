SPECIFICATION Spec
CONSTANTS
    c1 = c1
    c2 = c2
    i1 = i1
    i2 = i2
    d1 = d1
    s1 = s1
    u1 = u1
    u2 = u2
    None = None
    Earlier = Earlier
    Child = {c1, c2}
    Universe = {u1, u2}
    Telling = {u1}
    Analyses = {i1, i2}
    Deletes = {d1}
    Sessions = {s1}
    Active = {c1}
    Targets <- MCTargets
    Origins <- MCOrigins
    MaxChanges = 1
    MaxFaults = 1
INVARIANTS
    RejectedStaysRejected
    CorroborationIsNotLost
    ReportedRemovalIsComplete
    NoCircularWait
SYMMETRY Symmetry
CHECK_DEADLOCK FALSE
