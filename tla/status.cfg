SPECIFICATION Spec
CONSTANTS
    File = {f1, f2}
    Whole = whole
    Processor = {p1, p2}
    AutoStart = TRUE
    Ops = {"start", "stop", "startFile", "stopFile", "delete", "expire"}
    Calm = TRUE
    f1 = f1
    f2 = f2
    p1 = p1
    p2 = p2
SYMMETRY Symmetric
CHECK_DEADLOCK FALSE
INVARIANTS
    TypeOK
    StartedWanted
    StoppedStopsFiles
    ReportedOnce
    CompletionNotMissed
