\* A worker, or a client thread in insert, may take longer than the latency.
SPECIFICATION Spec
CONSTANTS
    Node = {n1}
    Task = {t1}
    NoTask = NoTask
    Thread = {th1, th2}
    Type = {Print}
    TypeOf <- OneType
    Dynamic = {}
    Periodic = {}
    Period = 2
    Parallel = 2
    Latency = 2
    Delays = {0}
    Expiries = {Forever}
    Forever = Forever
    Late = {}
    Cancelable = {}
    Crashable = {}
    Stoppable = {}
    Faults = FALSE
    Timely = FALSE
    MaxBacklog = 1
CHECK_DEADLOCK FALSE
INVARIANTS
    ExecutedOnce
