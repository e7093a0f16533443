SPECIFICATION Spec
CONSTANTS
    StartAfter <- FromTheStart
    PageSize = 1
    MaxEvents = 3
    MaxStops = 0
    Faults = {"secondRead"}
INVARIANTS
    DeliveredWithoutGap
CHECK_DEADLOCK FALSE
