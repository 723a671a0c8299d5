SPECIFICATION Spec
CONSTANTS
    Procs = {p1, p2, p3}
    Challenges = {c1}
    NoChallenge = NoChallenge
    Codes = {r1}
    NoCode = NoCode
    Attempts = 2
    MaxTime = 2
SYMMETRY Symmetry
INVARIANT AttemptsBounded
PROPERTIES TOTPReplayNeedsCrossing RecoveryCodesAreOneShot
