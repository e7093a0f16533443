SPECIFICATION FairSpec
CONSTANTS
    append = append
    read = read
    transaction = transaction
    sub1 = sub1
    sub2 = sub2
    beat = beat
    none = none
    Ops = {append}
    Subs = {sub1}
    Beats = {}
    NoId = none
    Kind <- MCKind
    Replies = {"Success"}
    Faults = {"fin", "nothandled", "unparsable"}
    AwaitConnect = FALSE
    MaxConnects = 1
    MaxCloses = 1
    MaxAnswers = 1
    MaxPushes = 4
INVARIANTS
    TypeOK
    UnsubscribeNeverOvertakes
    PushesInOrder
PROPERTIES
    QuietAfterClose
    UnsubscribeServed
CHECK_DEADLOCK FALSE
