SPECIFICATION FairSpec
CONSTANTS
    Client = {c1, c2}
    Ticker = {t1, t2}
    Leaves = {c1}
    c1 = c1
    c2 = c2
    t1 = t1
    t2 = t2
CHECK_DEADLOCK FALSE
PROPERTIES
    ClientTicked
