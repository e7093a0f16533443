SPECIFICATION FairSpec
CONSTANTS
    append = append
    read = read
    transaction = transaction
    sub1 = sub1
    sub2 = sub2
    beat = beat
    none = none
    Ops = {append}
    Subs = {}
    Beats = {}
    NoId = none
    Kind <- MCKind
    Replies = {"Success"}
    Faults = {"fin"}
    AwaitConnect = TRUE
    MaxConnects = 1
    MaxCloses = 0
    MaxAnswers = 1
    MaxPushes = 0

PROPERTIES
    EveryOperationAnswered
CHECK_DEADLOCK FALSE
