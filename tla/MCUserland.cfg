SPECIFICATION Spec
CONSTANTS
    Words = {"install"}
    Programs = {"gen", "cat", "+a", "+b", "-b"}
    Files = {"f"}
    RcFiles <- MCRcFiles
    MaxHistory = 2
    MaxLine = 6
    MaxCmds = 3
    MaxKeys = 4
    MaxOffset = 3
    Packages = {"a", "b"}
    PkgFiles <- MCPkgFiles
    Installed = {"b"}
    Procs = {1, 2, 3}
    Disks <- MCDisks
    MaxRest = 1
    PipeSize = 1
    GenSize = 2
    PhxCommands <- MCPhxCommands
INVARIANTS
    NoChildLeft
    HistoryFaithful
    ListedIsWhole
PROPERTIES
    EraseNeedsConsent
    PromptReturns
CHECK_DEADLOCK FALSE
