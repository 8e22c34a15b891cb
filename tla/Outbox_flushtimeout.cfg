\* The broker does not answer within the flush timeout.
CONSTANTS
    createP = createP
    deleteP = deleteP
    pCreated = pCreated
    pMention = pMention
    pDeleted = pDeleted
    r1 = r1
    r2 = r2
    NoEntry = NoEntry
    Writes <- TwoWrites
    Entries <- RowsOfP
    WriteOf <- RowWrites
    After <- ReadsBefore
    Relays <- OneRelay
    Transactional <- TwoWrites
    BatchSize = 2
    Faults <- FlushTimeout
    MaxFaults = 1
SPECIFICATION Spec
INVARIANT PublishedWasSent
CHECK_DEADLOCK FALSE
