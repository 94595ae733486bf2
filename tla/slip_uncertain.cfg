CONSTANTS
    Ops = {"push"}
    Claims = {"c1"}
    Worlds <- OneWorld
    Gone <- NoneGone
    MaxRuns = 1
    Real = TRUE
SPECIFICATION Spec
INVARIANTS
    HangingEffectIsUncertain
