SPECIFICATION FairSpec
CONSTANTS
    Client = {c1, c2, c3, c4}
    Ticker = {t1, t2}
    Leaves = {c1, c2, c3}
    c1 = c1
    c2 = c2
    c3 = c3
    c4 = c4
    t1 = t1
    t2 = t2
CHECK_DEADLOCK FALSE
INVARIANTS
    TypeOK
    OneTicker
PROPERTIES
    ClientLetIn
    TickerStops
