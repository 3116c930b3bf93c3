SPECIFICATION FairSpec
CONSTANTS
    Task = {a, b}
    Goroutine = {g1, g2, g3}
    Limits = {1}
    Ops = {"torrent", "delete", "expire"}
    Calm = FALSE
    NoOwner = NoOwner
    NoJob = NoJob
    a = a
    b = b
    g1 = g1
    g2 = g2
    g3 = g3
PROPERTIES
    OneCallReturns
    ImplementsFairPool
INVARIANTS
    TypeOK
    SlotLimit
    NoSlotLeak
    WaitingListed
