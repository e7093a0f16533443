SPECIFICATION Spec
CONSTANTS
    StartAfter = 0
    PageSize = 2
    MaxEvents = 2
    MaxStops = 0
    Faults = {}
INVARIANTS
    StartsAfterTheGivenEvent

CHECK_DEADLOCK FALSE
