SPECIFICATION Spec
CONSTANTS
    Callers = {a, b, c}
    Closers = {"k"}
    Threads = {"root", "t1", "t2"}
    Root = "root"
    Paths = {"/root/p"}
    RootPath = "/root"
    NoPath = "-"
    NoThread = "none"
    Vacant = "vacant"
    MaxThreads = 2
    NoLimit = NoLimit
    Resumable = TRUE
INVARIANTS
    TypeOK
    SlotsCovered
    LimitHolds
    ReservedIsHeld
SYMMETRY
    CallerSymmetry
