\* One worker and its reaper, with every fault once.
SPECIFICATION FairSpec
CONSTANTS
    w1 = w1
    w2 = w2
    Rows <- TwoRows
    Priority <- UrgentLast
    Malformed = {}
    Workers <- OneWorker
    BatchSize = 2
    MaxFailures = 2
    Budget <- OneOfEach
PROPERTIES RowSettles
CHECK_DEADLOCK FALSE
