\* A listener of a bundle that came after the bundles were read.
SPECIFICATION Spec
CONSTANTS
    Null = Null
    NaN = NaN
    Name <- NameValue
    Frameworks <- FrameworksValue
    First <- Alone
    MaxChanges = 1
    MaxOpen = 1
    MaxLost = 0
PROPERTIES
    ProvidesState
CHECK_DEADLOCK FALSE
