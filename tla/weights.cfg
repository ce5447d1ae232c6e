SPECIFICATION Spec
CONSTANTS
    None = None
    LinkOptions <- WeightLinks
    AddressOptions <- WeightAddresses
    RouteOptions <- WeightRoutes
    Configs <- WeightConfigs
    MaxAddresses = 1
    MaxRoutes = 1
INVARIANT WeightsKeepOrder
