\* Two nodes at arbitrary speeds and a delayed task; one node may crash, the other joins late.
SPECIFICATION Spec
CONSTANTS
    Node = {n1, n2}
    Task = {t1}
    NoTask = NoTask
    Thread = {th1}
    Type = {Print}
    TypeOf <- OneType
    Dynamic = {}
    Periodic = {}
    Period = 2
    Parallel = 1
    Latency = 2
    Delays = {1}
    Expiries = {Forever}
    Forever = Forever
    Late = {n2}
    Cancelable = {}
    Crashable = {n1}
    Stoppable = {}
    Faults = FALSE
    Timely = FALSE
    MaxBacklog = 1
CHECK_DEADLOCK FALSE
PROPERTIES ImplementsTaskBoard SettledStays
INVARIANTS
    SweepExclusive NotBeforeDue
