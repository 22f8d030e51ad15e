SPECIFICATION Spec
CONSTANTS
    r1 = r1  r2 = r2  r3 = r3  h1 = h1  h2 = h2
    s1 = s1  s2 = s2  s3 = s3  v1 = v1  v2 = v2  k = k  c = c
    Replicas = {r1, r2, r3}
    Handlers = {h1, h2}
    Deployments <- AllDeployments
    Slots = {s1, s2, s3}
    Keys = {v1, v2, k}
    Confs = {v1, v2, c}
    Requests <- RequestsOfBoth
    Changes <- BlockChanges
    MaxTime = 0
    MaxNotes = 1
    MaxFails = 0
    MaxRestarts = 0
    Never = Never  Keep = Keep
    NoDevice = NoDevice  NoPeer = NoPeer  Nobody = Nobody
SYMMETRY Symmetric
CONSTRAINT Unraced
INVARIANTS PeersFollow
