\* Two creators, a deleter that also cleans, the preloader, a fault; due and later times.
SPECIFICATION Spec
CONSTANTS
    Ids = {a, b}
    Nil = Nil
    MaxCollections = 2
    MaxCountTasksInCollection = 2
    CleanAge = 1
    Creators = {c1, c2}
    Deleters = {d1}
    Workers = {w1}
    ExecTimes = {1, 4}
    TimePreload = 2
    CoefTimePreloadOfNewTask = 2
    CtxTimeout = 2
    CleaningFrequency = 1
    MaxRetry = 2
    MaxCreateDelay = 1
    MaxFaults = 1
    MaxInstances = 1
    MaxClock = 4
INVARIANTS
    TypeOK
    NoStrandedTask
    ChosenCollectionSurvives
PROPERTIES
    ImplementsPreloaderSpec
SYMMETRY Symmetry
\* At the bounds of clock and restarts nothing may be left to do.
CHECK_DEADLOCK FALSE
