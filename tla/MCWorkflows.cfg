CONSTANTS
    k1 = k1
    k2 = k2
    NoText = NoText
    Nobody = Nobody
    Missing = Missing
    Processes <- TwoProcesses
    Jobs <- MixedJobs
    Outcomes = {"first", "kept", "error"}
    Piece = 2
    Listing <- TwoNotes
    Disk <- TwoDocuments
    Beginnings <- OldOrNone
    Prints <- Printed
    ExecStreams = {"out", "err"}
    SkippedCommands = {"ed"}
    SkippedMatches = {}
    PluginBlocklist = {"make"}
    ShellHistory <- Histories
    OnPath = {"git", "ls", "make"}
    RecentLimit = 2
    LineLimit = 3
    SharedPages <- Installed
    Primary = "zh"
    Secondary = "en"
    MaxFaults = 1
SPECIFICATION Spec
CHECK_DEADLOCK FALSE
INVARIANTS OutputsWhole StatusHonest RetainedNotCached
PROPERTIES RowsSurvive
