\* A worker that publishes before the consumer ever ran.
SPECIFICATION Spec
CONSTANTS
    w1 = w1
    w2 = w2
    Rows <- TwoRows
    Priority <- UrgentLast
    Malformed = {}
    Workers <- OneWorker
    BatchSize = 2
    MaxFailures = 2
    Budget <- NoFaults
INVARIANTS PublishedIsQueued
CHECK_DEADLOCK FALSE
