\* Every action happens, topics are read in any order, and one fault of any kind.
CONSTANTS
    a = a
    f = f
    g = g
    r = r
    p = p
    q = q
    Users <- Readers
    Posts <- OnePost
    Author <- OnePostOfA
    MayFollow <- FollowA
    Acts <- AllActs
    Threshold = 2
    MaxHome = 3
    RecentLimit = 2
    Faults <- AllFaults
    MaxFaults = 1
    MaxEvents = 4
SPECIFICATION Spec
INVARIANT TypeOK
INVARIANT EdgesAgree
INVARIANT CelebritiesAgree
INVARIANT GraphCurrent
INVARIANT FeedComplete
INVARIANT FeedSound
SYMMETRY ReaderSymmetry
CHECK_DEADLOCK FALSE
