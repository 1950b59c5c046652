SPECIFICATION Spec
CONSTANTS
    a = a
    b = b
    c = c
    Nodes = {a, b, c}
    Broadcast = all
    Hears <- Line
    Routers = {}
    Mutes = {}
    Keyless = {}
    MayBeSilent = {a}
    MayReboot = {}
    Routes <- Unlearned
    Requests <- Reliable
    MaxRequests = 1
    HopLimit = 3
    MaxRx = 3
INVARIANTS TypeOK Accounted OwnSendsBounded RelaysBounded
PROPERTIES DeliveryKept
CHECK_DEADLOCK FALSE
