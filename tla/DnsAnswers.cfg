SPECIFICATION Spec
CONSTANTS
    u1 = u1  u2 = u2  q1 = q1  q2 = q2  h1 = h1  h2 = h2  n1 = n1
    Devices <- SomeDevices
    Addresses <- SomeAddresses
    Fold <- LowerCase
    Handlers = {h1, h2}
    Questions = {q1, q2}
    Subnets = {n1, NoSubnet}
    Upstreams <- TwoUpstreams
    TTLs = {0, 2}
    CacheSize = 1
    Timeout = 1
    Cooldown = 2
    MaxTime = 3
    MaxChanges = 3
    MaxQueries = 2
    NoSubnet = NoSubnet  NoEntry = NoEntry  NoZone = NoZone  Server = Server
CONSTRAINT OneHalf
CHECK_DEADLOCK FALSE
INVARIANTS DevicesFound AnswersFresh AnswersForAll EveryUpstreamAsked
PROPERTIES ZoneCatchesUp
