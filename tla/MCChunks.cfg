SPECIFICATION Spec
CONSTANTS
    Packets = 3
    Boundary <- MCBoundary
    Sent <- MCSent
    Stream <- MCStream
INVARIANTS
    PacketsIntact
    NothingHeldBack
    CrashOnlyInsidePrefix
    MessagesReceived
CHECK_DEADLOCK FALSE
