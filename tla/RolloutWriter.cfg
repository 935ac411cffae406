SPECIFICATION Spec
CONSTANTS
    Callers = {"c1", "c2"}
    MaxItems = 3
    ChannelCap = 2
PROPERTIES
    KeepsPromise
    BarrierIsAnswered
CHECK_DEADLOCK FALSE
