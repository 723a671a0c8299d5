SPECIFICATION Spec
CONSTANTS
    Procs = {p1, p2}
    NoProc = NoProc
    Secrets = {s1, s2, s3}
    NoSecret = NoSecret
    ScopeSets <- MCScopeSets
    GrantSets <- MCGrantSets
    Overlap = 1
    MaxClock = 1
SYMMETRY Symmetry
INVARIANTS
    AuditTrail
    DeletedClientIsOut
    WithinRegistration
PROPERTIES
    SecretsMoveForward
