SPECIFICATION Spec
CONSTANTS
    Task = {a, b, c}
    Goroutine = {g1, g2, g3, g4}
    Limits = {1, 2}
    Ops = {"torrent", "magnet", "delete", "configure"}
    Calm = TRUE
    NoOwner = NoOwner
    NoJob = NoJob
    a = a
    b = b
    c = c
    g1 = g1
    g2 = g2
    g3 = g3
    g4 = g4
SYMMETRY Symmetric
CHECK_DEADLOCK FALSE
INVARIANTS
    QueuedIsWaiting
    NoIdleSlotWhileWaiting
    ActiveIsRunning
    WaitingIsCached
