SPECIFICATION Spec
CONSTANTS
    Procs = {p1, p2}
    Tokens = {t1, t2}
    NoToken = NoToken
    Secrets = {s1, s2}
    NoSecret = NoSecret
    Attempts = 1
    MaxTries = 2
    MaxCopies = 2
SYMMETRY Symmetry
INVARIANTS OnlyVerified CodesFollowEnrollment CodesInsertedOnce ClosedForGood AttemptsBounded
