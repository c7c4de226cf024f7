SPECIFICATION FairSpec
CHECK_DEADLOCK FALSE
CONSTANTS
    f = f
    g = g
    h = h
    n = n
    m = m
    p1 = p1
    p2 = p2
    b1 = b1
    b2 = b2
    Path = {p1, p2}
    Branch = {b1, b2}
    Name = {n, m}
    Maker = {f, g}
    Cleaner = {c, d}
    Pruner = {}
    Claude = {f}
    Forcing = {c}
    MaxSignals = 1
    MaxMeddling = 0
    Alien = Alien
    Nothing = Nothing
    Pair <- TwicePair
    NameOf <- TwiceName
PROPERTIES
    CleanupSparesOtherForks
    CleanupIsWhole
    ForksEnd
    CleanupsEnd
