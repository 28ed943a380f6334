SPECIFICATION Spec
CONSTANTS
    Chat = {a, b, star}
    Starred = {star}
    Pause = 2
    MaxCalls = 5
    MaxTime = 6
INVARIANTS TypeOK SentInOrder BurstBound
CHECK_DEADLOCK FALSE
