SPECIFICATION CollectSpec
CONSTANTS
    Paths = 3
    Size = {0, 1, 2, 3}
    StreamLimit = 2
    AggregateLimit = 3
    FileLimit = 2
INVARIANTS LimitsHold CollectionIsAllOrNothing
CHECK_DEADLOCK FALSE
