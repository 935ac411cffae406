SPECIFICATION FairSpec
CONSTANTS
    Actors = {"loop", "ext", "guard"}
    Tasks = {1, 2}
    TurnStates = {"s1", "s2", "s3", "s4", "s5", "s6"}
    NoTask = 0
    NoTurn = "none"
    UserInputs = {"u1"}
    Mails = {"m"}
    Triggers = {"m"}
    Injected = {"j"}
    IdleItems = {"x"}
    Compacts = {"c"}
    Interrupts = {"i"}
    Denials = {"d"}
    MayShutdown = TRUE
CONSTRAINT
    Apart
INVARIANTS
    AtMostOneTask
    TurnEndsOnce
    AcceptedIsKept
    AbortIsFinal
    RestIsIdle
PROPERTIES
    StartedTurnEnds
    CallersReturn
