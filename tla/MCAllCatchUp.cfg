SPECIFICATION FairSpec
CONSTANTS
    StartAfter = 1
    PageSize = 1
    MaxEvents = 6
    MaxStops = 0
    Faults = {"firstRead", "secondRead", "drop"}
    Pos <- MCPos
INVARIANTS
    TypeOK
    LiveMeansCaughtUp
    NothingBehindReadPosition
PROPERTIES
    ImplementsPromise
    EveryEventDelivered
CHECK_DEADLOCK FALSE
