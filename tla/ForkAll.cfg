SPECIFICATION Spec
CHECK_DEADLOCK FALSE
CONSTANTS
    f = f
    g = g
    h = h
    n = n
    m = m
    p1 = p1
    p2 = p2
    b1 = b1
    b2 = b2
    Path = {p1, p2}
    Branch = {b1, b2}
    Name = {n, m}
    Maker = {f, g, h}
    Cleaner = {d}
    Pruner = {q}
    Claude = {f}
    Forcing = {d}
    MaxSignals = 1
    MaxMeddling = 1
    Alien = Alien
    Nothing = Nothing
    Pair <- CrossPair
    NameOf <- CrossName
INVARIANTS
    HarmIsConfined
    FailedForksLeaveNothing
PROPERTIES
    RollbackTakesOnlyItsOwn
CONSTRAINT OneDisturbance
