SPECIFICATION FairSpec
CONSTANTS
    w1 = w1
    s1 = s1
    s2 = s2
    u1 = u1
    a = a
    b = b
    NoScope = NoScope
    Requests = {w1, s1, s2, u1}
    Conns = {a, b}
    Starts = {u1}
    Panics = {s2}
    ConnOf <- MCConnOf
    ScopeOf <- MCScopeOf
INVARIANTS
    ExclusiveAccess
    FifoPerKey
    NoStrandedQueue
    CleanupIsFinal
PROPERTIES
    QueuedIsServed
    LoopStops
