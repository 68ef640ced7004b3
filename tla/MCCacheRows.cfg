CONSTANTS
    r1 = r1
    r2 = r2
    r3 = r3
    Requests = {r1, r2}
    Kind <- AllPosts
    Payload <- SamePayload
    LastBackend = 1
    MaxClears = 1
    MaxCrashes = 0
    MaxChanges = 1
SPECIFICATION FairSpec
CHECK_DEADLOCK FALSE
INVARIANTS RowsHonest RowsCurrent HitsHonest
PROPERTIES AuthorityInOrder ClearIsFinal EveryRequestEnds
