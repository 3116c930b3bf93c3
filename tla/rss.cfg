SPECIFICATION FairSpec
CONSTANTS
    f1 = f1
    f2 = f2
    Feed = {f1, f2}
    Lists <- MCLists
    Updater = {t, u}
    Ticker = t
    Cap = 3
    Window = 3
    MaxItems = 4
    MaxEdits = 1
    NoMark = NoMark
    t = t
    u = u
INVARIANTS
    TypeOK
    NoRepeats
    MarkedIsShown
PROPERTIES
    NeverBack
    Shown
