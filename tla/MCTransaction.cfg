SPECIFICATION Spec
CONSTANTS
    Events = {"deposit", "withdrawal"}
    MaxCalls = 3
    MaxOthers = 1
    Faults = {"denied", "timeout", "badRequest", "deleted", "unparsable", "close", "noCallback"}
INVARIANTS
    TypeOK
    CommitsCallsInOrder
    AcknowledgedWritesCommitted
    RefusedMeansNotCommitted
CHECK_DEADLOCK FALSE
