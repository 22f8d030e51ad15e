SPECIFICATION Spec
CONSTANTS
    b1 = b1
    b2 = b2
    q1 = q1
    q2 = q2
    alice = alice
    n1 = n1
    n2 = n2
    i1 = i1
    i2 = i2
    none = none
    Browsers = {b1, b2}
    Requests = {q1, q2}
    Accounts = {alice}
    Logins = {n1, n2}
    Sids = {i1, i2}
    Oidc <- MCOidc
    Github <- MCGithub
    BuiltIn <- MCBuiltIn
    IDToken = {"corp"}
    PKCE = {"cloud"}
    EmailDomains = {"corp"}
    AccessClaim = {"corp"}
    Setups <- MCSetups
    Subjects <- MCSubjects
    SubjectOf <- MCSubjectOf
    AdminUsername = "s1"
    Standings <- MCStandings
    None = none
    MaxAge = 1
    MaxTime = 1
    MaxChanges = 1
    MaxRequests = 4
SYMMETRY SignInSymmetry
CHECK_DEADLOCK FALSE
INVARIANTS
    OwnSignIn
    OneOwner
    RevokedInTime
