SPECIFICATION Spec
CONSTANTS
    Wrap = 14
    ButtonPeriod = 2
    DisplayPeriod = 2
    BlinkPeriod = 2
    EnvPeriod = 3
    TelPeriod = 4
    LoopDelay = 1
    FlashTime = 2
    RxTime = 1
    TxTime = 2
    DrawTime = 0
    SetupTime = 2
    NModes = 2
INVARIANTS TypeOK TelemetryOnTime DisplayFresh
PROPERTIES TelemetryFresh TelemetrySpacing Debounced HeldButtonIsSeen
