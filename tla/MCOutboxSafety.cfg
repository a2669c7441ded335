\* Two workers share two rows, the second malformed, one fault of each kind.
SPECIFICATION Spec
CONSTANTS
    w1 = w1
    w2 = w2
    Rows <- TwoRows
    Priority <- UrgentLast
    Malformed = {2}
    Workers <- TwoWorkers
    BatchSize = 1
    MaxFailures = 2
    Budget <- OneOfEach
SYMMETRY WorkerSymmetry
INVARIANTS TypeOK PublishedWasAcked FailedIffExhausted OneOwner CopiesAccounted
CHECK_DEADLOCK FALSE
