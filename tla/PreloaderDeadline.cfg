\* No fault of the database, but a round that outlives its context.
SPECIFICATION Spec
CONSTANTS
    Ids = {a, b}
    Nil = Nil
    MaxCollections = 2
    MaxCountTasksInCollection = 2
    CleanAge = 1
    Creators = {c1, c2}
    Deleters = {}
    Workers = {w1}
    ExecTimes = {4}
    TimePreload = 2
    CoefTimePreloadOfNewTask = 2
    CtxTimeout = 2
    CleaningFrequency = 1
    MaxRetry = 2
    MaxCreateDelay = 1
    MaxFaults = 0
    MaxInstances = 1
    MaxClock = 5
INVARIANTS
    EveryTaskHasALoader
SYMMETRY Symmetry
\* At the bounds of clock and restarts nothing may be left to do.
CHECK_DEADLOCK FALSE
