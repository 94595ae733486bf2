CONSTANTS
    s1 = s1
    s2 = s2
    Recorders <- TwoSessions
    MaxRuns = 3
    MaxEvents = 1
    SoftCap = 1
    HardCap = 2
SPECIFICATION Spec
CHECK_DEADLOCK FALSE
SYMMETRY Symmetry
INVARIANTS
    TypeOK
    TraceIsComplete
    TerminalIsComplete
    InFlightBelowHardCap
PROPERTIES
    RetentionKeepsFailures
