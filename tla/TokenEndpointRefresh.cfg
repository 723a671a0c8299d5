SPECIFICATION Spec
CONSTANTS
    Procs = {p1, p2}
    NoProc = NoProc
    Tokens = {1, 2, 3}
    NoToken = 0
    MaxUpsets = 1
    CodeTTL = 1
    RefreshTTLs = {1, 2}
    MaxClock = 1
SYMMETRY Symmetry
ACTION_CONSTRAINT MintedInOrder
INVARIANTS CutoffRespected ReplayKillsExchange RevokedFamilyStaysDead RotatedOnce AbsoluteExpiry
PROPERTIES CodeIsOneShot
