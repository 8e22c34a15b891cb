\* Two relays at once, every failure, and both ways of writing.
CONSTANTS
    createP = createP
    deleteP = deleteP
    pCreated = pCreated
    pMention = pMention
    pDeleted = pDeleted
    r1 = r1
    r2 = r2
    NoEntry = NoEntry
    Writes <- TwoWrites
    Entries <- RowsOfP
    WriteOf <- RowWrites
    After <- ReadsBefore
    Relays <- TwoRelays
    Transactional <- CreateOnly
    BatchSize = 2
    Faults <- AllFaults
    MaxFaults = 1
SPECIFICATION FairSpec
INVARIANTS
    TypeOK
    VisibleIsAccounted
    PublishedIsAccounted
    SentInOrder
PROPERTIES
    SendsOnlyOwed
    EveryRowSent
CHECK_DEADLOCK FALSE
