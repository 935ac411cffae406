SPECIFICATION ResidencySpec
CONSTANTS
    ToolCalls = {c1, c2}
    SubAgents = {t1, t2, t3}
    None = None
    Capacity = 1
    MaxQueue = 1
    MaxCalls = 4
INVARIANTS
    ResidencyBounded
    LoadedIsTracked
PROPERTY
    CallReturns
CHECK_DEADLOCK FALSE
