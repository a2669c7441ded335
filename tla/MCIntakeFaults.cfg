\* A scheduled event with attachments next to one of every kind, every fault once.
SPECIFICATION FairSpec
CONSTANTS
    m1 = m1
    m2 = m2
    h1 = h1
    h2 = h2
    NoMsg = NoMsg
    Msgs <- TwoMsgs
    BodyChoices <- FilesAndAny
    Handlers <- TwoHandlers
    MaxRecipients = 1
    FetchMaxRetries = 1
    MaxDelayed = 2
    Budget <- OneOfEach
INVARIANTS TypeOK LeavesTrace AcceptedIsNotRefused SentIsDeadOnlyIfCopied
    RequeueIfAnyRetryable
PROPERTIES NothingCirculates
CHECK_DEADLOCK FALSE
