CONSTANTS
    N = 3
    Owner <- PairThenOne
    Modes <- PublishingModes
    WarnOnly = {FALSE, TRUE}
    Policies <- OnOnly
    MaxTokens = 1
    MaxRetries = 0
    MaxRestarts = 1
    ProgressCap = 1
    StreamCap = 1
    MaxRuns = 1
    NoText = NoText
SPECIFICATION Spec
CHECK_DEADLOCK FALSE
INVARIANTS OrderedOutput OwnersWhole
