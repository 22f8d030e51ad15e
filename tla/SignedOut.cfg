SPECIFICATION Spec
CONSTANTS
    q1 = q1  q2 = q2  s1 = s1  s2 = s2  t1 = t1  d1 = d1
    Requests = {q1, q2}
    Sessions = {s1, s2}
    Tokens = {t1}
    Devices = {d1}
    Kinds = {"signIn", "signOut", "createToken", "addDevice", "deleteSession",
             "deleteOthers", "deleteToken", "password", "revoke", "deleteUser"}
    MaxErrors = 1
    MaxExpired = 1
    MaxCuts = 1
    None = None
SYMMETRY Symmetric
INVARIANTS SignedOutElsewhere WaysInFirst
PROPERTIES EndedStaysEnded AskerStaysSignedIn
CHECK_DEADLOCK FALSE
