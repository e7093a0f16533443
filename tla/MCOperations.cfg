SPECIFICATION Spec
CONSTANTS
    append = append
    read = read
    transaction = transaction
    sub1 = sub1
    sub2 = sub2
    beat = beat
    none = none
    Ops = {append, read}
    Subs = {}
    Beats = {}
    NoId = none
    Kind <- MCKind
    Replies = {"Success", "StreamDeleted"}
    Faults = {"refuse", "reset", "fin", "nothandled"}
    AwaitConnect = FALSE
    MaxConnects = 1
    MaxCloses = 1
    MaxAnswers = 2
    MaxPushes = 0
INVARIANTS
    EveryMessageHasTick
    OneHomePerOperation
    AnswerIsFirstReply
PROPERTIES
    QuietAfterClose
CHECK_DEADLOCK FALSE
