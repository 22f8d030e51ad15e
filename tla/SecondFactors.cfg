SPECIFICATION Spec
CONSTANTS
    a = a  q1 = q1  q2 = q2  k1 = k1  c1 = c1  c2 = c2
    p1 = p1  h1 = h1  h2 = h2  h3 = h3
    Replicas = {a}
    Requests = {q1, q2}
    Home <- SameProcess
    OpSets <- CodesAndPasskeys
    Storage = "sql"
    Secrets = {k1}
    RecoveryCodes = {c1, c2}
    Passkeys = {p1}
    Challenges = {h1, h2, h3}
    Now = 2  MaxTime = 3
    PendingFor = 1
    MaxWrong = 1
    MaxErrors = 1
    None = None
SYMMETRY Alike
INVARIANTS CodesOnce RemovedStaysRemoved GuessesLimited PasswordNotEnough
