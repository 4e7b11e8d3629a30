\* The README's example, with two consumers.
SPECIFICATION Spec
CONSTANTS
    Tasks = {t1, t2}
    Nil = Nil
    Consumers = {c1, c2}
    Objects = {o1, o2}
    Workers = {w1}
    BatchMaxItems = 2
    ConfirmAfterRollback = TRUE
    MaxFaults = 0
INVARIANTS
    DeletedOnlyWhenCompleted
SYMMETRY Symmetry
\* When every task is deleted the goroutines wait for ever.
CHECK_DEADLOCK FALSE
