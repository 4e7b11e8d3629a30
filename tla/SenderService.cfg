\* Consumers that answer a task once: nothing is lost, doubled, deleted early or left behind.
SPECIFICATION Spec
CONSTANTS
    Tasks = {t1, t2}
    Nil = Nil
    Consumers = {c1, c2}
    Objects = {o1, o2}
    Workers = {w1, w2}
    BatchMaxItems = 2
    ConfirmAfterRollback = FALSE
    MaxFaults = 1
INVARIANTS
    TypeOK
    ObjectsNotShared
    DeletedOnlyWhenCompleted
    NoLostWakeUp
    MetricSettles
PROPERTIES
    ConfirmedIsDeleted
    RolledBackIsRedelivered
    ImplementsSenderSpec
\* When every task is deleted the goroutines wait for ever.
CHECK_DEADLOCK FALSE
