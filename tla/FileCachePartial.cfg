\* Two threads get the same name; nothing fails and the reaper finds nothing.
SPECIFICATION Spec
CONSTANTS
    Thread = {th1, th2}
    Name = {a}
    None = None
    MaxTries = 2
    FileSize = 2
    Limit = 4
    CallFails = FALSE
    MayStall = FALSE
    MayStop = FALSE
    MayCrash = FALSE
INVARIANTS
    GetsComplete
