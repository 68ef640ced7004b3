CONSTANTS
    draft = draft
    kept = kept
    Workers <- Both
    Drafting <- OnlyDraft
    Replies <- SomeReplies
    Permits = 1
    MaxRetries = 2
    MaxRepeats = 1
    Cap = 1
SPECIFICATION FairSpec
CHECK_DEADLOCK FALSE
INVARIANTS AnswerIsOneBody ColdIsFirst PostsBounded LoadBounded
PROPERTIES EverySegmentEnds PermitsReturn ImplementsAttempt
