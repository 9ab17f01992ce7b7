SPECIFICATION Spec
CONSTANTS
    dispatch = dispatch
    lookup = lookup
    None = None
    Calls = {c1, c2}
    Tools <- MCTools
    Keys = {k1}
    Inputs = {i1, i2}
    External <- MCOne
    ApprovalTools <- MCOne
    IdempotentTools = {lookup}
    MaxRetries <- MCMaxRetries
    MaxFaults = 0
CHECK_DEADLOCK FALSE
INVARIANTS EffectOnce
