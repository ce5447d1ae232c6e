SPECIFICATION Spec
CONSTANTS
    None = None
    Absent = Absent
    Torn = Torn
    LinkTables <- Links
    AddressTables <- Leaving
    RouteTables <- Routes
    Resolve <- MCResolve
    Answer <- MCAnswer
    Affects <- MCAffects
    Requested <- MCRequested
    ChildCodes <- Codes
    MaxChanges = 1
    MaxFailures = 1
CHECK_DEADLOCK FALSE
INVARIANT RemovedOnExit
