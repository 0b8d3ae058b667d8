SPECIFICATION Spec
CONSTANTS
    i1 = i1
    i2 = i2
    c1 = c1
    c2 = c2
    s1 = s1
    Instances <- MCInstances
    Conns <- MCConns
    Subs <- MCSubs
    Words <- MCWords
    Base <- MCBase
    None = None
    RouteTTL = 3
    MaxFaults = 1
    MaxDeletes = 1
INVARIANTS RegistryExact OneOwner OnlineRouted DisconnectedIsQuiet ActiveRowLeaks
PROPERTIES StaleRouteExpires RouteHeals
