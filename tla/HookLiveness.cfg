\* One task, two callers, faults and a crash: it is executed or cancelled in the end.
SPECIFICATION HookSpec
CONSTANTS
    Ids = {a}
    ExecTimes = {1, 2}
    Nil = Nil
    Clients = {c1, c2}
    GreedyProcessingLimit = 1
    IdReuse = FALSE
    MaxClock = 5
    MaxFaults = 2
    MaxCrashes = 1
PROPERTIES
    EveryTaskExecuted
\* Once every task was executed and the clock is at its bound nothing is left to do.
CHECK_DEADLOCK FALSE
