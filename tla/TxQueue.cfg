SPECIFICATION Spec
CONSTANTS
    k1 = k1
    k2 = k2
    MaxLen = 2
    Keys = {k1, k2}
    Priorities = {1, 2, 3}
    MaxPackets = 4
SYMMETRY KeySymmetry
INVARIANTS TypeOK QueueOrdered StableOrder OwnedOnce
PROPERTIES EvictionJust
CHECK_DEADLOCK FALSE
