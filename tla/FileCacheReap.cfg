\* Two threads, two names; the reaper, failing callbacks, stalls, a stop, a crash.
SPECIFICATION FairSpec
CONSTANTS
    Thread = {th1, th2}
    Name = {a, b}
    None = None
    MaxTries = 2
    FileSize = 1
    Limit = 2
    CallFails = TRUE
    MayStall = TRUE
    MayStop = TRUE
    MayCrash = TRUE
INVARIANTS
    TypeOK SoleCreator NoDebris
PROPERTIES
    CompleteStays NeverBelowLimit GetReturns
