SPECIFICATION Spec
CONSTANTS
    k1 = k1
    k2 = k2
    Keys = {k1, k2}
    OwnKeys = {k1}
    Bytes = {1, 2, 3}
    Us = 1
    NumRelayers = 2
    Expire = 2
    Wrap = 3
    PurgeAbove = 1
    StackBytes = {3}
INVARIANTS TypeOK SeenIffRecent RelayersKept RelayersTrue FallbackJust
