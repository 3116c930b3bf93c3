SPECIFICATION FairSpec
CONSTANTS
    Task = {a, b}
    Goroutine = {g1, g2}
    Background = bg
    Nobody = nobody
    NoTask = none
    Ops = {"add", "delete", "move2wait", "start", "info", "tick"}
    Calm = TRUE
    a = a
    b = b
    g1 = g1
    g2 = g2
PROPERTIES
    CallsReturn
    ChangesShown
