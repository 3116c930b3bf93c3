SPECIFICATION Spec
CONSTANTS
    Handler = {h1, h2}
    Port = {0, 1}
    Dir = {d1, full}
    Unusable = {full}
    Rate = {unlimited, odd}
    Unrecognised = {odd}
    Unlimited = unlimited
    Watch = {w1, w2}
    Missing = {w2}
    Tracker = {t0, t1}
    Remote = {t0}
    TrackerLists = {{}, {t0}, {t0, t1}}
    DefaultList = {t0}
    Cmd = {c1, c2}
    DebugTorrent = TRUE
    Default <- MCDefault
    Installed <- MCDefault
    MaxRequests = 2
    MaxEdits = 1
    Torn = Torn
    None = None
    d1 = d1
    full = full
    unlimited = unlimited
    odd = odd
    w1 = w1
    w2 = w2
    t0 = t0
    t1 = t1
    c1 = c1
    c2 = c2
    h1 = h1
    h2 = h2
SYMMETRY Symmetric
CHECK_DEADLOCK FALSE
INVARIANTS
    TypeOK
    ClientOrExit
    
    
PROPERTIES
    DoneCmdFixed
