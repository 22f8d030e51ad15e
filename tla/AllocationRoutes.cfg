SPECIFICATION Spec
CONSTANTS
    r1 = r1  r2 = r2  h1 = h1  h2 = h2  o1 = o1  o2 = o2
    n1 = n1  n2 = n2  k1 = k1  k2 = k2
    Replicas = {r1}
    Handlers = {h1, h2}
    On <- OnOneReplica
    Owners = {o1}
    Names = {n1, n2}
    Keys = {k1, k2}
    Manual <- ManualDual
    Prefixes <- RoutePrefixes
    ReservedPoints <- VpnPoints
    Size4 = 3
    Size6 = 4
    MaxDevicesPerUser = 0
    Distributed = FALSE
    SessionsDrop = FALSE
    Automatic = Automatic
    NoDevice = NoDevice  NoAddr = NoAddr  Nobody = Nobody
SYMMETRY Symmetric
INVARIANTS
    TypeOK AddressesUsable RoutesDisjoint
PROPERTIES ImplementsTable
