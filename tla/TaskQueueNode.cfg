\* One node whose calls may fail: workers come and go, it stops or crashes.
SPECIFICATION Spec
CONSTANTS
    Node = {n1}
    Task = {t1}
    NoTask = NoTask
    Thread = {th1, th2, th3}
    Type = {Print}
    TypeOf <- OneType
    Dynamic = {Print}
    Periodic = {t1}
    Period = 2
    Parallel = 2
    Latency = 2
    Delays = {0}
    Expiries = {Forever}
    Forever = Forever
    Late = {}
    Cancelable = {t1}
    Crashable = {n1}
    Stoppable = {n1}
    Faults = TRUE
    Timely = FALSE
    MaxBacklog = 2
SYMMETRY ThreadSymmetry
CHECK_DEADLOCK FALSE
INVARIANTS
    TypeOK PermitAccounting
