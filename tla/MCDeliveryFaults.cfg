\* Two recipients, one of them an invalid address, every fault once.
SPECIFICATION Spec
CONSTANTS
    e1 = e1
    r1 = r1
    r2 = r2
    h1 = h1
    h2 = h2
    NoMsg = NoMsg
    Events <- OneEvent
    Recipients <- TwoRecipients
    Handlers <- TwoHandlers
    Invalid <- OnlyR2
    ConfigBlocked = {}
    Published <- ToBoth
    MaxRetries = 1
    MaxRlWaits = 1
    ReplayLimit = 1
    Budget <- FaultBudget
SYMMETRY HandlerSymmetry
INVARIANTS
    TypeOK HandoffInv AtMostOneHandoff SentMeansAccepted BlockedMeansNotMailed
    NoMessageLost AckLeavesTrace
PROPERTIES ImplementsAtMostOnce
CHECK_DEADLOCK FALSE
