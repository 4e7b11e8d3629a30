\* A client and the preloader's workers, every id created once: what the loop guarantees.
SPECIFICATION Spec
CONSTANTS
    Ids = {a, b}
    ExecTimes = {1, 2}
    Nil = Nil
    Clients = {c1}
    GreedyProcessingLimit = 1
    IdReuse = FALSE
    MaxClock = 5
INVARIANTS
    TypeOK
    NeverEarly
    EarliestFirst
    NothingLost
PROPERTIES
    CancelRemovesCopy
    EveryTaskReleased
    CallersReturn
\* Once every task was handled and the clock is at its bound the loop sleeps.
CHECK_DEADLOCK FALSE
