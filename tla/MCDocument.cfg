CONSTANTS
    Limit = 4
    Capacity = 7
    Framing = 1
    Factor = 2
    Skip = TRUE
    Sources <- Documents
    Modes <- AllModes
    Replies <- SomeReplies
    MaxHits = 2
    NoText = NoText
SPECIFICATION Spec
CHECK_DEADLOCK FALSE
INVARIANTS PlanWhole StreamsTheDocument RegionsExact PublishedWhenSettled EchoKeepsDocument
