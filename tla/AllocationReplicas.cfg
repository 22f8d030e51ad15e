SPECIFICATION Spec
CONSTANTS
    r1 = r1  r2 = r2  h1 = h1  h2 = h2  o1 = o1  o2 = o2
    n1 = n1  n2 = n2  k1 = k1  k2 = k2
    Replicas = {r1, r2}
    Handlers = {h1, h2}
    On <- OnTwoReplicas
    Owners = {o1, o2}
    Names = {n1, n2}
    Keys = {k1, k2}
    Manual <- ManualAddresses
    Prefixes = {}
    ReservedPoints = {}
    Size4 = 4
    Size6 = 0
    MaxDevicesPerUser = 1
    Distributed = TRUE
    SessionsDrop = FALSE
    Automatic = Automatic
    NoDevice = NoDevice  NoAddr = NoAddr  Nobody = Nobody
SYMMETRY Symmetric
INVARIANTS
    LockExclusion AddressesUniqueUnderLock QuotaHeld NoStrayLock
