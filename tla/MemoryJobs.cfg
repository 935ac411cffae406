SPECIFICATION FairSpec
CONSTANTS
    Workers = {"w1", "w2"}
    Threads = {"t1"}
    MaxUpdated = 2
    MaxClaimed = 1
    Retries = 2
    MaxRaw = 1
    MaxEvents = 2
    Stalls = {"agent"}
CONSTRAINT
    ResetAlone
INVARIANTS
    StoredIsLatest
    SelectedIsConsolidated
PROPERTIES
    EventuallyCurrent
    PollutedIsForgotten
