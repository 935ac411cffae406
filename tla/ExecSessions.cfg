SPECIFICATION Spec
CONSTANTS
    Conns = {c1, c2, c3}
    Sessions = {s1}
    NULL = NULL
    MaxWrites = 2
    Retained = 1
INVARIANTS
    AttachedIsKept
    WrittenOnce
PROPERTIES
    GraceIsKept
    DetachedGoes
CHECK_DEADLOCK FALSE
