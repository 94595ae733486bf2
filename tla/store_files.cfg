SPECIFICATION Spec
CONSTANTS
    Adopters = {a1}
    Importers = {i1}
    Loaders = {r1}
    Digests = {d1, d2}
    None = None
    Malformed = Malformed
    Nobody = Nobody
    Calls <- AllCalls
INVARIANTS
    ActiveVerifies
    LoadFailsOnlyIfDamaged
CHECK_DEADLOCK FALSE
