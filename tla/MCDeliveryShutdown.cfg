\* A graceful shutdown, an operator's retry and a panic, with fairness.
SPECIFICATION FairSpec
CONSTANTS
    e1 = e1
    r1 = r1
    r2 = r2
    h1 = h1
    h2 = h2
    NoMsg = NoMsg
    Events <- OneEvent
    Recipients <- OneRecipient
    Handlers <- TwoHandlers
    Invalid = {}
    ConfigBlocked = {}
    Published <- ToOne
    MaxRetries = 1
    MaxRlWaits = 1
    ReplayLimit = 1
    Budget <- ShutdownBudget
PROPERTIES PermitReturnsOrSpins PendingEnds
CHECK_DEADLOCK FALSE
