SPECIFICATION FairSpec
CONSTANTS
    r1 = r1  r2 = r2  r3 = r3  h1 = h1  h2 = h2
    s1 = s1  s2 = s2  s3 = s3  v1 = v1  v2 = v2  k = k  c = c
    Replicas = {r1}
    Handlers = {h1}
    Deployments <- OneProcess
    Slots = {s1}
    Keys = {v1, v2}
    Confs = {c}
    Requests <- AccessRequests
    Changes <- AllChanges
    MaxTime = 1
    MaxNotes = 2
    MaxFails = 1
    MaxRestarts = 1
    Never = Never  Keep = Keep
    NoDevice = NoDevice  NoPeer = NoPeer  Nobody = Nobody
PROPERTIES BlockedLosesPeer EventuallyInSync
