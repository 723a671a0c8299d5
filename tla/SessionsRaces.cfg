SPECIFICATION Spec
CONSTANTS
    Tokens = {t1, t2}
    NoToken = NoToken
    Procs = {p1, p2}
    TTL = 2
    Faults = TRUE
SYMMETRY Symmetry
INVARIANTS DisabledNeverServed IndexCovers EndedStaysEnded
