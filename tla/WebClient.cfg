\* The browser's framework: every module on a small instance, one in each behaviour.
SPECIFICATION Spec
CONSTANTS
    Null = Null
    Undefined = Undefined
    None = None
    NaN = NaN
    Request <- Requests
    Address = {"/a", "/b"}
    UrlOf <- UrlsOf
    Cached = {"r1", "r2"}
    Limited = {"r1", "r3"}
    Throwing = {"r2"}
    Unstable = {"r1"}
    Timer = {"t"}
    Unapplied = {"t"}
    Deferred <- Deferreds
    Chainable <- FourOfThem
    Group = {"all"}
    MaxLinks = 2
    Capacity = 2
    Url <- Urls
    RouteOf <- Routes
    Redirect <- Redirects
    Remote = {"item"}
    Plain = {}
    KeepOnSearch = {"list"}
    MaxMoves = 3
INVARIANTS
    ScopesSettle
    AllDelivered
    RequestsAccounted
    RouteInStep
    FormInStep
    OnceInOrder
    PageHolds
    ReadsBack
    FiltersShow
PROPERTIES
    DigestEnds
    Answered
    PageSteps
\* The algorithms stop after their step, and so do documents that are done.
CHECK_DEADLOCK FALSE
