SPECIFICATION FairSpec
CONSTANTS
    Adopters = {a1, a2}
    Importers = {}
    Loaders = {}
    Digests = {d1, d2}
    None = None
    Malformed = Malformed
    Nobody = Nobody
    Calls <- ChainCalls
INVARIANTS
    TypeOK
    MutualExclusion
    NeverStranded
    SwapChain
PROPERTIES
    PointerMovesOnlyByAdoption
    ImplementsRegister
    AdoptionsEnd
CHECK_DEADLOCK FALSE
