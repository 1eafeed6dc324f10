SPECIFICATION ToolsSpec
CONSTANTS
    ShellCmds = {c}
    ShellCallers = {k}
    MaxOutput = 2
    BufferCap = 1
    Budgets = {1, 2}
    ToolCalls <- MCToolCalls
    RequestId <- MCRequestId
    MaxDeaths = 1
    NoOne = NoOne
    Editors = {e1, e2}
    Spellings <- MCSpellings
    FileOf <- MCFileOf
    FileTexts <- MCFileTexts
    PatchLists <- MCPatchLists
    FirstDisks <- MCFirstDisks
    MaxFileCalls = 2
    MaxIoFaults = 2
    Signatures = {s, t}
    Actors = {a, b}
    NoSig = NoSig
    MaxConfigs = 1
    MaxConnects = 2
    MaxMcpFaults = 1
INVARIANT
    OutputComplete
CHECK_DEADLOCK FALSE
