\* One delivery whose send fails once.
SPECIFICATION FairSpec
CONSTANTS
    e1 = e1
    r1 = r1
    r2 = r2
    h1 = h1
    h2 = h2
    NoMsg = NoMsg
    Events <- OneEvent
    Recipients <- OneRecipient
    Handlers <- TwoHandlers
    Invalid = {}
    ConfigBlocked = {}
    Published <- ToOne
    MaxRetries = 1
    MaxRlWaits = 1
    ReplayLimit = 1
    Budget <- QuietBudget
PROPERTIES BackoffLeadsToSend
CHECK_DEADLOCK FALSE
