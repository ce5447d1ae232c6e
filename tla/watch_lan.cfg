SPECIFICATION Spec
CONSTANTS
    None = None
    LinkTables <- LanLinks
    AddressTables <- LanAddresses
    RouteTables <- LanRoutes
    Resolve <- MCResolve
    Answer <- MCAnswer
    Affects <- MCAffects
    Requested <- MCRequested
    MaxChanges = 3
    MaxFailures = 1
CHECK_DEADLOCK FALSE
INVARIANTS TypeOK QuietMeansTold
PROPERTIES FeedSafe CatchesUp StopsWhenInterrupted
