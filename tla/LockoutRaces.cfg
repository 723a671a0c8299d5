SPECIFICATION LockoutSpec
CONSTANTS
    Logins = {p1, p2}
    Thresholds = {1, 2}
    Durations = {2}
    MaxTime = 4
    MaxFailed = 3
SYMMETRY Symmetry
INVARIANT ThresholdLocks
PROPERTIES NoLoginWhileLocked LockedForFullDuration
