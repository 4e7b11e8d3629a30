\* A metric of each kind and a subscription to a topic that nobody initialises.
SPECIFICATION Spec
CONSTANTS
    Integral = {all}
    Velocity = {sendingRate}
    Listened = {preloaded}
    Subscribed = {all, sendingRate, preloaded, waitingForSending}
    EventCap = 1
    MaxPublish = 2
    Nil = Nil
INVARIANTS
    TypeOK
    NothingUncounted
PROPERTIES
    SubscribersConverge
    MeasuredForEver
