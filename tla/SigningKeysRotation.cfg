SPECIFICATION KeysSpec
CONSTANTS
    Keys = {k1, k2, k3}
    NoKey = NoKey
    Tasks = {p1, p2}
    AccessTTL = 1
    Grace = 3
    MaxDelay = 1
    MaxClock = 4
SYMMETRY Symmetry
INVARIANTS KeyAvailable Verifiable OneActiveKey
PROPERTIES Lifecycle
