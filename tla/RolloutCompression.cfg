SPECIFICATION CompressionSpec
CONSTANTS
    Appenders = {"a1", "a2"}
    Creates = {}
    Readers = {"r"}
    MaxAppends = 2
    MaxTries = 4
    None = None
INVARIANTS
    CheckedIsKept
    ReaderFinds
