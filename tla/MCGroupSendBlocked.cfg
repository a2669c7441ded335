\* One delivery to three recipients, any of them blocked.
SPECIFICATION Spec
CONSTANTS
    r1 = r1
    r2 = r2
    r3 = r3
    h1 = h1
    h2 = h2
    To <- ThreeTo
    Handlers <- OneHandler
    MaxRetries = 1
    MaxRlWaits = 1
    ReplayLimit = 1
    Budget <- QuietBudget
INVARIANTS MailIsToAllowed
CHECK_DEADLOCK FALSE
