SPECIFICATION Spec
CONSTANTS
    r1 = r1  r2 = r2  s1 = s1  s2 = s2  k1 = k1  k2 = k2
    Replicas = {r1, r2}
    Slots = {s1}
    Keys = {k1}
    Window = 2
    Grace = 4
    MaxTime = 6
    MaxEvents = 4
    NoDevice = NoDevice  NoPeer = NoPeer
CHECK_DEADLOCK FALSE
INVARIANTS CountedOnce
PROPERTIES ActiveStay InactiveGo
