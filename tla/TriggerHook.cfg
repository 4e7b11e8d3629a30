\* Two tasks through every service, a fault of the database and a crash at any step.
SPECIFICATION HookSpec
CONSTANTS
    Ids = {a, b}
    ExecTimes = {1}
    Nil = Nil
    Clients = {c1, c2}
    GreedyProcessingLimit = 1
    IdReuse = FALSE
    MaxClock = 3
    MaxFaults = 1
    MaxCrashes = 1
INVARIANTS
    NoRowForgotten
    AtMostTwoCopies
    AllCountsRows
PROPERTIES
    ImplementsDeliverySpec
SYMMETRY Symmetry
\* Once every task was executed and the clock is at its bound nothing is left to do.
CHECK_DEADLOCK FALSE
