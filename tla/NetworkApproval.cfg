SPECIFICATION FairSpec
CONSTANTS
    Requests = {"r1", "r2", "r3"}
    Droppable = {"r2"}
    HostOf <- MCHostOf
    EnvOf <- MCEnvOf
    Calls = {"c1", "c2"}
    CallEnv <- MCCallEnv
    PrimaryEnv = "local"
    Observers = {"o"}
    NoEnv = "-"
    NoCall = "no_call"
    NoRequest = "no_request"
CONSTRAINT Bounds
INVARIANTS
    OneOwnerPerHost
    CacheIsLastAnswer
    DenialIsRecorded
PROPERTIES
    RequestIsAnswered
