\* Two users, two requests: an unlike is enough to take a sum to -1.
CONSTANTS
    Users = {u, v}
    Requests = {q1, q2}
    MaxActs = 2
SPECIFICATION Spec
INVARIANT ScoresDefined
CHECK_DEADLOCK FALSE
