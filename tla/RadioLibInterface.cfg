SPECIFICATION Spec
CONSTANTS
    MaxLen = 2
    Messages <- ThreeMessages
    None = None
    IsrInWindows = TRUE
    SpiFaults = TRUE
    Reconfigures = TRUE
INVARIANTS TypeOK OwnedOnce NeverDeaf AssertionsHold WakeupPending
CHECK_DEADLOCK FALSE
