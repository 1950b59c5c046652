SPECIFICATION FairSpec
CONSTANTS
    MaxLen = 2
    Messages <- TwoMessages
    None = None
    IsrInWindows = FALSE
    SpiFaults = FALSE
    Reconfigures = FALSE
PROPERTIES SentIsFreed
