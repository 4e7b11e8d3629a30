\* An id is created again after it was deleted.
SPECIFICATION HookSpec
CONSTANTS
    Ids = {a}
    ExecTimes = {1, 2}
    Nil = Nil
    Clients = {c1, c2}
    GreedyProcessingLimit = 1
    IdReuse = TRUE
    MaxClock = 5
    MaxFaults = 0
    MaxCrashes = 0
PROPERTIES
    ImplementsDeliverySpec
\* Once every task was executed and the clock is at its bound nothing is left to do.
CHECK_DEADLOCK FALSE
