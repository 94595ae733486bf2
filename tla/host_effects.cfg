SPECIFICATION Spec
CONSTANTS
    Sessions = {s1, s2}
    Kinds = {"edit", "push", "merge", "tests"}
    Bodies = {b1}
    c0 = c0
    c1 = c1
    Commits <- MCCommits
    Before <- MCBefore
    Branches = {main, feature}
    Features = {feature}
    MaxMoves = 2
INVARIANTS AdmittedOrRaced RefusalsChangeNothing 
CHECK_DEADLOCK FALSE
SYMMETRY MCSymmetry
