SPECIFICATION Spec
CONSTANTS
    None = None
    LinkTables <- TunnelLinks
    AddressTables <- TunnelAddresses
    RouteTables <- TunnelRoutes
    Resolve <- MCResolve
    Answer <- MCAnswer
    Affects <- MCAffects
    Requested <- MCRequested
    MaxChanges = 2
    MaxFailures = 0
CHECK_DEADLOCK FALSE
PROPERTY CatchesUp
