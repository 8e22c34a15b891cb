\* Every component in turn, every call may be refused or lost.
CONSTANTS
    Faults = {"refused", "lost"}
    MaxActs <- Bounds
    Viewport = 2
    MaxZoom = 2
    Shape <- Photos
    Moves <- Drags
    Queries = {"x", "y"}
    NoteLimit = 2
    Conversations = {1, 2}
    PageSize = 1
    Feeds <- TwoFeeds
    Cards = {"a", "b", "c"}
    PostOf <- Watches
    MaxSockets = 3
    MaxDrops = 1
    MaxMounts = 3
SPECIFICATION Spec
INVARIANT TypeOK
INVARIANT SettledCardAgrees
 
INVARIANT CropCovers
 
INVARIANT ResultsMatchQuery
INVARIANT UnreadCountsItems
INVARIANT ThreadAgrees
INVARIANT ViewerShowsStory
INVARIANT SubscribedWhenOpen
PROPERTY Settles
CHECK_DEADLOCK FALSE
