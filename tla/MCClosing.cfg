SPECIFICATION FairSpec
CONSTANTS
    append = append
    read = read
    transaction = transaction
    sub1 = sub1
    sub2 = sub2
    beat = beat
    none = none
    Ops = {append}
    Subs = {}
    Beats = {beat}
    NoId = none
    Kind <- MCKind
    Replies = {"Success"}
    Faults = {"fin", "noCallback"}
    AwaitConnect = FALSE
    MaxConnects = 2
    MaxCloses = 2
    MaxAnswers = 1
    MaxPushes = 0
INVARIANTS
    ConnectedMeansEstablished
PROPERTIES
    OperationAnswered
    CloseAnswered
    HeartbeatAnswered
CHECK_DEADLOCK FALSE
