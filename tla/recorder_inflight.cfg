CONSTANTS
    s1 = s1
    s2 = s2
    Recorders <- TwoSessions
    MaxRuns = 2
    MaxEvents = 1
    SoftCap = 1
    HardCap = 1
SPECIFICATION Spec
CHECK_DEADLOCK FALSE
INVARIANTS
    InFlightIsKept
