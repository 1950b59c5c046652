SPECIFICATION FairSpec
CONSTANTS
    a = a
    b = b
    c = c
    Nodes = {a, b, c}
    Broadcast = all
    Hears <- Line
    Routers = {}
    Mutes = {}
    Keyless = {}
    MayBeSilent = {}
    MayReboot = {b}
    Routes <- Loop
    Requests <- Unacked
    MaxRequests = 1
    HopLimit = 3
    MaxRx = 4
PROPERTIES BecomesQuiet
CHECK_DEADLOCK FALSE
