SPECIFICATION FairSpec
CONSTANTS
    Actors = {"loop", "ext"}
    Tasks = {1, 2, 3}
    TurnStates = {"s1", "s2", "s3", "s4", "s5", "s6"}
    NoTask = 0
    NoTurn = "none"
    UserInputs = {"u1"}
    Mails = {}
    Triggers = {}
    Injected = {}
    IdleItems = {"x"}
    Compacts = {}
    Interrupts = {}
    Denials = {}
    MayShutdown = FALSE
INVARIANT
    SlotIsFree
