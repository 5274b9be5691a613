SPECIFICATION Spec
CONSTANTS
    Tab = {b1, b2}
    Account = {a1, a2}
    None = none
    Open = 2
    WebLocks = TRUE
    MaxCalls = 2
    MaxSigns = 1
    MaxFaults = 0
CHECK_DEADLOCK FALSE
INVARIANTS
    ContextFollowsToken
