SPECIFICATION GuardsSpec
CONSTANTS
    p1 = p1
    p2 = p2
    Piece = {p1, p2}
    MaxMoves = 7
INVARIANTS
    StandingWorkIsNotLost
SYMMETRY Interchangeable
CHECK_DEADLOCK FALSE
