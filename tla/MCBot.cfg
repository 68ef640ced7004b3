CONSTANTS
    mine = mine
    team = team
    Inboxes <- SomeInboxes
    Groups <- TeamOnly
    Options <- SomeOptions
    Reasons = {"signal", "replaced", "disabled", "tokenless"}
    Segments = 2
    MaxUnits = 3
    Limit = 2
    MaxEnds = 1
    Nothing = Nothing
SPECIFICATION FairSpec
CHECK_DEADLOCK FALSE
INVARIANTS NoneSkipped RepeatedOnlyAfterLoss FinalShown RepliesHonest
PROPERTIES EveryUpdateHandled
