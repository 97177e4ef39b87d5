SPECIFICATION Spec
CONSTANTS
    None = None
    Caller <- TwoCallers
    MaxCalls = 4
INVARIANTS
    WritesKept
PROPERTIES
    AppliesInOrder
    CallsBack
CHECK_DEADLOCK FALSE
