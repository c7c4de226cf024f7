CONSTANTS
    s = s
    u = u
    c1 = c1
    c2 = c2
    Absent = Absent
    Ita = Ita
    Blank = c2
    Locked = Locked
    Nested = Nested
    EditLimit = 2
    Depth = 2
    Source = s
    Recorded = c1
    Path <- MCPath
    Content <- MCContent
    Ignored = {}
    Starts <- MCStarts
SPECIFICATION Spec
INVARIANTS
    VerifiedSubmodulesAreExact
    SubmodulesAreAccountedFor
    QuietFailuresAreExplained
CHECK_DEADLOCK FALSE
