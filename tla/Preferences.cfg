SPECIFICATION Spec
CONSTANTS
    Segments = {"devicestate", "nodedatabase"}
    Platforms = {"ESP32", "NRF52", "RP2040"}
    MaxValue = 1
    MaxCrashes = 2
    MaxFaults = 1
INVARIANTS TypeOK NeverTorn RebootSafe
PROPERTIES StoreKept
