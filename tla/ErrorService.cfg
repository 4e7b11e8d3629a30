\* Two goroutines report up to two events each to a queue of two.
SPECIFICATION Spec
CONSTANTS
    Producers = {p1, p2}
    Levels = {"fatal", "error", "debug"}
    Handlers = {"fatal", "error"}
    Debug = TRUE
    MaxQueueCap = 2
    MaxEvents = 2
INVARIANTS
    TypeOK
    NoLostWakeUp
    LossIsReported
    HandledInOrder
PROPERTIES
    ReportersReturn
    FatalStops
\* Once every event was handled Run waits for ever.
CHECK_DEADLOCK FALSE
