\* Two deliveries to two recipients, every fault once.
SPECIFICATION Spec
CONSTANTS
    r1 = r1
    r2 = r2
    r3 = r3
    h1 = h1
    h2 = h2
    To <- TwoTo
    Handlers <- TwoHandlers
    MaxRetries = 1
    MaxRlWaits = 1
    ReplayLimit = 2
    Budget <- RedeliveryBudget
SYMMETRY HandlerSymmetry
INVARIANTS TypeOK GroupAtMostOnce SentMeansAccepted FallbackFindsRow
CHECK_DEADLOCK FALSE
