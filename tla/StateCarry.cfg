SPECIFICATION Spec
CHECK_DEADLOCK FALSE
CONSTANTS
    p = p
    q = q
    a = a
    b = b
    Path = {p, q}
    Content = {a, b}
    Ignored = {q}
    Absent = Absent
    Ita = Ita
    Blank = a
    Locked = Locked
    Nested = Nested
    Lone = 2
    Paired = 2
    Starts <- MCStarts
INVARIANTS
    VerifiedForkIsExact
    NothingIsOmittedSilently
    SkippedEntriesStayUncopyable
    OneEditKeepsRenamesWhole
    QuietFailuresAreExplained
