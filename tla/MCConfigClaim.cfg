CONSTANTS
    bot = bot
    cli = cli
    run = run
    look = look
    own = own
    pass = pass
    near = near
    far = far
    Processes <- BotAndCli
    Threads <- ClaimAndRegenerate
    Home <- ClaimHome
    Job <- ClaimJob
    Endpoints <- TwoEndpoints
    Settings <- SomeSettings
    Tomls <- SomeTomls
    Says <- SomeReplies
    Orders <- SomeOrders
    Profiles <- TwoProfiles
    Aliases <- KnownNames
    Punctuation <- OneMark
    Marked <- OneTemplate
    MaxU32 = 1000000
    MaxI32 = 500000
    Now = 9
    MaxSaves = 0
SPECIFICATION Spec
CHECK_DEADLOCK FALSE
INVARIANTS ClaimSurvives
