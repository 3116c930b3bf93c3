SPECIFICATION Spec
CONSTANTS
    Task = {a, b}
    Goroutine = {g1, g2, g3}
    Limits = {1, 2}
    Ops = {"torrent", "delete", "move2wait", "configure", "specfail"}
    Calm = FALSE
    NoOwner = NoOwner
    NoJob = NoJob
    a = a
    b = b
    g1 = g1
    g2 = g2
    g3 = g3
SYMMETRY Symmetric
CONSTRAINT WaitBound
CHECK_DEADLOCK FALSE
INVARIANTS
    EveryTorrentWatched
