SPECIFICATION Spec
CONSTANTS
    Task = {a, b}
    Goroutine = {g1, g2, g3, g4}
    Background = bg
    Nobody = nobody
    NoTask = none
    Ops = {"add", "delete", "start", "info", "tick"}
    Calm = FALSE
    a = a
    b = b
    g1 = g1
    g2 = g2
    g3 = g3
    g4 = g4
SYMMETRY Symmetric
CHECK_DEADLOCK FALSE
INVARIANTS
    TypeOK
    OnlyDeleteBlocks
    CheckStillHolds
