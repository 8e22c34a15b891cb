\* Every group of services in turn; publishes are lost, workers die and park
\* events, caches are wiped, inserts fail.
CONSTANTS
    Users = {u, v}
    Owner = u
    Requests = {q1, q2}
    MaxActs <- Bounds
    MaxLive = 2
    Media = {m1, m2}
    Posts = {p1, p2}
SYMMETRY Symmetry
SPECIFICATION Spec
INVARIANT TypeOK
INVARIANT EdgesRespectBlocks
INVARIANT StoryFeedAgrees
 
CHECK_DEADLOCK FALSE
