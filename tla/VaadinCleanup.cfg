\* A factory that goes before an http service comes.
SPECIFICATION VaadinSpec
CONSTANTS
    Null = Null
    Http = {h1}
    Factory = {f1}
    AliasOf <- OneAlias
    MaxCalls = 2
INVARIANTS
    CleanedUp
\* Services that have gone do not come back.
CHECK_DEADLOCK FALSE
