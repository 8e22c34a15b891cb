\* Two workers, one without a DLQ, every fault of the environment, and a message
\* that cannot be parsed.
CONSTANTS
    w1 = w1
    w2 = w2
    e1 = e1
    e2 = e2
    torn = torn
    NoWorker = NoWorker
    Events <- TwoAndTorn
    Unreadable <- OneTorn
    Workers <- TwoWorkers
    WithDlq <- OneWorker
    MaxAttempts = 2
    Faults <- AllFaults
    MaxLog = 2
    MaxFaults = 2
SPECIFICATION FairSpec
INVARIANTS
    TypeOK
    MarkedWasHandled
    RerunsNeedFaults
    CommittedIsAccounted
PROPERTIES
    CommitNeverRegresses
    DeliversAtLeastOnce
    EverythingSettles
CHECK_DEADLOCK FALSE
