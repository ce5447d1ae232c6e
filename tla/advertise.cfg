SPECIFICATION AdvertiseSpec
CONSTANTS
    None = None
    Stop = Stop
    Answers <- Addresses
    QueueSize = 2
    MaxMoves = 3
CHECK_DEADLOCK FALSE
INVARIANTS TypeOK WireFollows WithdrawnOnExit
PROPERTIES LeavesWhenInterrupted WireCatchesUp
