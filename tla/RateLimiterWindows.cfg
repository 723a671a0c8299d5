SPECIFICATION Spec
CONSTANTS
    Procs = {p1, p2, p3}
    Members = {m1, m2, m3}
    NoMember = NoMember
    Limit = 1
    Window = 2
    MaxDelay = 1
    MaxCount = 3
SYMMETRY Symmetry
INVARIANTS SlidingBound TokenWindow
PROPERTIES UnderLimitAdmitted
