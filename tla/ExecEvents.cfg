SPECIFICATION Spec
CONSTANTS
    Streams = {"stdout"}
    NConns = 2
    MaxOutput = 2
    MaxEarly = 0
    Retained = 1
INVARIANTS
    PublishedIsLog
    AbandonedIsKilled
PROPERTIES
    EndIsHeard
CHECK_DEADLOCK FALSE
