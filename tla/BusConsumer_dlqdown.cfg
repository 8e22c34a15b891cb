\* The DLQ producer refuses the message: "deferred".
CONSTANTS
    w1 = w1
    w2 = w2
    e1 = e1
    e2 = e2
    torn = torn
    NoWorker = NoWorker
    Events <- TwoEvents
    Unreadable <- Nothing
    Workers <- OneWorker
    MaxAttempts = 2
    WithDlq <- OneWorker
    Faults <- DlqDown
    MaxLog = 2
    MaxFaults = 0
SPECIFICATION Spec
INVARIANT NothingLost
CHECK_DEADLOCK FALSE
