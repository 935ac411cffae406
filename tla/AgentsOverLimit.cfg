SPECIFICATION ResidencySpec
CONSTANTS
    ToolCalls = {c1, c2}
    SubAgents = {t1, t2, t3}
    None = None
    Capacity = 1
    MaxQueue = 1
    MaxCalls = 4
INVARIANT
    ActiveWithinLimit
CHECK_DEADLOCK FALSE
