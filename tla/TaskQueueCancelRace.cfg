\* A client cancels a task that is being executed.
SPECIFICATION Spec
CONSTANTS
    Node = {n1}
    Task = {t1}
    NoTask = NoTask
    Thread = {th1}
    Type = {Print}
    TypeOf <- OneType
    Dynamic = {}
    Periodic = {}
    Period = 2
    Parallel = 1
    Latency = 2
    Delays = {0}
    Expiries = {Forever}
    Forever = Forever
    Late = {}
    Cancelable = {t1}
    Crashable = {}
    Stoppable = {}
    Faults = FALSE
    Timely = TRUE
    MaxBacklog = 1
CHECK_DEADLOCK FALSE
INVARIANTS
    CancelFinal
