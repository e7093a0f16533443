SPECIFICATION FairSpec
CONSTANTS
    StartAfter <- FromTheStart
    PageSize = 1
    MaxEvents = 2
    MaxStops = 1
    Faults = {"firstRead", "secondRead", "drop", "close"}
INVARIANTS
    TypeOK
    LiveMeansCaughtUp
    LiveQueueDrained
    OnlyEarlyCloseThrows
PROPERTIES
    ImplementsPromise
    EveryEventDelivered
    LastProcessedAtDrop
    StopDrops
CHECK_DEADLOCK FALSE
