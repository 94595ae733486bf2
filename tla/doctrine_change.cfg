SPECIFICATION FairSpec
CONSTANTS
    p1 = p1
    p2 = p2
    People = {p1, p2}
    Documents <- MCDocuments
    Content <- MCContent
    SchemaId = "v1"
    Shapes = {"edit", "merge"}
    Situations <- MCSituations
    Drafts = {"wider"}
    Envelopes <- MCEnvelopes
    None = None
INVARIANTS TypeOK DiffHidesNothing
PROPERTIES AdoptedAsReviewed ImportsEnd
CHECK_DEADLOCK FALSE
