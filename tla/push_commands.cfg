SPECIFICATION Normalizing
CONSTANTS
    Words <- MCWords
    Spec <- MCSpec
    Options <- MCOptions
    Remotes = {"origin"}
    Features = {"feature/x", "feature/new"}
    Protected = {"main"}
    Unborn = {"feature/new"}
    Actors = {"hermes"}
    MaxTokens = 4
    MaxCommands = 1
INVARIANTS StandingPushIsNarrow DeletionIsNamed
CHECK_DEADLOCK FALSE
