\* A one-shot and a periodic task while every worker is back within the latency; one node may crash.
SPECIFICATION FairSpec
CONSTANTS
    Node = {n1, n2}
    Task = {t1, t2}
    NoTask = NoTask
    Thread = {th1}
    Type = {Print}
    TypeOf <- OneType
    Dynamic = {}
    Periodic = {t2}
    Period = 2
    Parallel = 1
    Latency = 2
    Delays = {0}
    Expiries = {3, Forever}
    Forever = Forever
    Late = {}
    Cancelable = {}
    Crashable = {n1}
    Stoppable = {}
    Faults = FALSE
    Timely = TRUE
    MaxBacklog = 2
CHECK_DEADLOCK FALSE
INVARIANTS
    ExecutedOnce
PROPERTIES EventuallyExecuted ExpiryEndsRetries
