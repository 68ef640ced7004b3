CONSTANTS
    k1 = k1
    k2 = k2
    NoText = NoText
    Nobody = Nobody
    Missing = Missing
    Processes <- TwoProcesses
    Jobs <- TwoDocs
    Outcomes = {"first", "kept", "error"}
    Piece = 2
    Listing <- OneNote
    Disk <- OneDocument
    Beginnings <- None
    Prints <- Printed
    ExecStreams = {"out", "err"}
    SkippedCommands = {"ed"}
    SkippedMatches = {}
    PluginBlocklist = {"make"}
    ShellHistory <- Histories
    OnPath = {"git", "ls", "make"}
    RecentLimit = 2
    LineLimit = 3
    SharedPages <- Installed
    Primary = "zh"
    Secondary = "en"
    MaxFaults = 0
SPECIFICATION Spec
CHECK_DEADLOCK FALSE
INVARIANT OutputsAreNotSources
