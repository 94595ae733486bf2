CONSTANTS
    Ops = {"push"}
    Claims = {"c1"}
    Worlds <- OneWorld
    Gone <- NoneGone
    MaxRuns = 2
    Real = FALSE
SPECIFICATION Spec
INVARIANTS
    TypeOK
    EffectsAreCommitted
    AskedNeedsApproval
    ReceiptsAreHonest
    GateAgrees
    OrphanOnlyIfLost
PROPERTIES
    FailsClosedAfterMissing
