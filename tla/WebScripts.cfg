\* The drawing libraries and the services behind the pages: every module on a small instance, one in each behaviour.
SPECIFICATION Spec
CONSTANTS
    Null = Null
    NaN = NaN
    Http = {"h1", "h2"}
    Factory = {"f", "g", "k"}
    AliasOf <- Aliases
    MaxCalls = 4
    None = None
    Builder = {1, 2}
    Name = {"x", "d/", "/"}
    Path <- Files
    Folder = {"d/", "/"}
    Slash = "/"
    Blob = {1, 2}
    MaxAdds = 2
INVARIANTS
    PageDrawn
    GesturesHold
    NumbersFit
    LayoutsDrawn
    XRayShown
    DrawingHolds
    WidgetsInStep
    ServicesHold
    CatalogLeads
PROPERTIES
    ComesToRest
    GesturesFollow
    CallsDo
    XRayUpToDate
\* The algorithms stop after their step.
CHECK_DEADLOCK FALSE
