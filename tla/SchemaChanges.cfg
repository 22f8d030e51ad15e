SPECIFICATION Spec
CONSTANTS
    old = old  new = new  copier = copier
    devices = devices  passkeys = passkeys  challenge = challenge  wide = wide
    Servers = {old, new}
    Copiers = {copier}
    Backends = {"postgres", "mysql", "sqlite3"}
    Migrations <- ThreeMigrations
    Knows <- OldAndNew
    NotOnSQLite = {wide}
    Items <- OneOfEach
    MaxStarts = 4
    MaxFaults = 2
    NoBody = NoBody
CHECK_DEADLOCK FALSE
INVARIANTS RecordedIsThere TakeTurns UpdatesReported CopyWhole
PROPERTIES NewerRefused
