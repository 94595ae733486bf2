CONSTANTS
    Ops = {"push", "edit"}
    Claims = {"c1", "c2"}
    Worlds <- WithGone
    Gone <- GoneWorld
    MaxRuns = 1
    Real = TRUE
SPECIFICATION FairSpec
INVARIANTS
    EffectMatchesEnvelope
    EffectsWereFresh
    RealEffectsAreTraced
PROPERTIES
    RunsEnd
