\* One scheduled message and no fault.
SPECIFICATION Spec
CONSTANTS
    m1 = m1
    m2 = m2
    h1 = h1
    h2 = h2
    NoMsg = NoMsg
    Msgs <- OneMsg
    BodyChoices <- OneLater
    Handlers <- OneHandler
    MaxRecipients = 1
    FetchMaxRetries = 1
    MaxDelayed = 2
    Budget <- NoFaults
INVARIANTS OneCopy
CHECK_DEADLOCK FALSE
