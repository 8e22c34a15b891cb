\* Posts arrive, move and vanish while a viewer scrolls, and calls fail.
CONSTANTS
    p1 = p1
    p2 = p2
    Posts <- TwoPosts
    Limit = 1
    Environment <- Everything
    MaxScore = 2
SPECIFICATION FairSpec
INVARIANTS
    TypeOK
    NoDuplicateCells
    NothingSkipped
PROPERTIES
    PagesDisjoint
    ScrollEnds
CHECK_DEADLOCK FALSE
