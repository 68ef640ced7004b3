CONSTANTS
    r1 = r1
    r2 = r2
    r3 = r3
    Requests = {r1, r3}
    Kind <- OneGet
    Payload <- SamePayload
    LastBackend = 1
    MaxClears = 1
    MaxCrashes = 1
    MaxChanges = 3
SPECIFICATION Spec
CHECK_DEADLOCK FALSE
PROPERTIES InterruptedBlocksReplay
