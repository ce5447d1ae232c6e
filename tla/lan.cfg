SPECIFICATION Spec
CONSTANTS
    None = None
    LinkOptions <- LanLinks
    AddressOptions <- LanAddresses
    RouteOptions <- LanRoutes
    Configs <- LanConfigs
    MaxAddresses = 2
    MaxRoutes = 2
INVARIANT OrderIndependent
PROPERTY GateSound
