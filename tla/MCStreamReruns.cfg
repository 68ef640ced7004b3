CONSTANTS
    N = 2
    Owner <- PairThenOne
    Modes <- AllModes
    WarnOnly = {TRUE}
    Policies <- CachingPolicies
    MaxTokens = 1
    MaxRetries = 1
    MaxRestarts = 0
    ProgressCap = 1
    StreamCap = 1
    MaxRuns = 2
    NoText = NoText
SPECIFICATION FairSpec
CHECK_DEADLOCK FALSE
INVARIANTS ShownIsFinal StoreSound
PROPERTIES StoredAfterDelivery ProofIsFirstHand EveryRunEnds ImplementsContract
