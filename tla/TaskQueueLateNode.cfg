\* One node joins late, the other may crash.
SPECIFICATION FairSpec
CONSTANTS
    Node = {n1, n2}
    Task = {t1}
    NoTask = NoTask
    Thread = {th1}
    Type = {Print}
    TypeOf <- OneType
    Dynamic = {}
    Periodic = {}
    Period = 2
    Parallel = 1
    Latency = 2
    Delays = {0}
    Expiries = {Forever}
    Forever = Forever
    Late = {n2}
    Cancelable = {}
    Crashable = {n1}
    Stoppable = {}
    Faults = FALSE
    Timely = TRUE
    MaxBacklog = 2
CHECK_DEADLOCK FALSE
PROPERTIES EventuallyExecuted
