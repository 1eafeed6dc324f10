SPECIFICATION MCSpec
CONSTANTS
    None = None
    Keep = Keep
    NameOrder <- MCNameOrder
    Admins = {h1, h2}
    Files <- MCFiles
    Patches <- MCPatches
    MaxRequests = 3
    Commands = {c1, c2}
    Workspaces = {w1, w2}
    Settings <- MCSettings
    LastPort = 3
    MaxServers = 3
    MaxCommands = 3
    MaxFaults = 2
    NoValue = NoValue
    Torn = Torn
SYMMETRY AdminSymmetry
INVARIANTS
    RestartAgrees
    OneServer
    ServerOnRecord
CHECK_DEADLOCK FALSE
