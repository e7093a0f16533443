SPECIFICATION Spec
CONSTANTS
    StartAfter <- FromTheStart
    PageSize = 2
    MaxEvents = 2
    MaxStops = 1
    Faults = {}
INVARIANTS
    DroppedIsLast

CHECK_DEADLOCK FALSE
