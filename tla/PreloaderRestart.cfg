\* A restart and a fault of the database at any step; every created task is loaded.
SPECIFICATION Spec
CONSTANTS
    Ids = {a, b}
    Nil = Nil
    MaxCollections = 2
    MaxCountTasksInCollection = 2
    CleanAge = 1
    Creators = {c1}
    Deleters = {}
    Workers = {w1}
    ExecTimes = {4}
    TimePreload = 2
    CoefTimePreloadOfNewTask = 2
    CtxTimeout = 2
    CleaningFrequency = 1
    MaxRetry = 2
    MaxCreateDelay = 1
    MaxFaults = 1
    MaxInstances = 2
    MaxClock = 5
PROPERTIES
    EveryTaskLoaded
    ImplementsPreloaderSpec
\* At the bounds of clock and restarts nothing may be left to do.
CHECK_DEADLOCK FALSE
