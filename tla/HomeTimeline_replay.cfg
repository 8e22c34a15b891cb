\* No fault at all: two topics are consumed each at its own pace.
CONSTANTS
    a = a
    f = f
    g = g
    r = r
    p = p
    q = q
    Users <- Readers
    Posts <- OnePost
    Author <- OnePostOfA
    MayFollow <- FollowA
    Acts <- EdgeEvents
    Threshold = 2
    MaxHome = 3
    RecentLimit = 2
    Faults <- NoFaults
    MaxFaults = 0
    MaxEvents = 3
SPECIFICATION Spec
INVARIANT GraphConverges
CHECK_DEADLOCK FALSE
