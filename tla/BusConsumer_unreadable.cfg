\* No fault at all but a message that cannot be parsed.
CONSTANTS
    w1 = w1
    w2 = w2
    e1 = e1
    e2 = e2
    torn = torn
    NoWorker = NoWorker
    Events <- OneAndTorn
    Unreadable <- OneTorn
    Workers <- OneWorker
    MaxAttempts = 2
    WithDlq <- OneWorker
    Faults <- Nothing
    MaxLog = 2
    MaxFaults = 0
SPECIFICATION FairSpec
PROPERTY PoisonCannotStall
CHECK_DEADLOCK FALSE
