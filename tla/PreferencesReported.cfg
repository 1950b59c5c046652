SPECIFICATION Spec
CONSTANTS
    Segments = {"devicestate", "nodedatabase"}
    Platforms = {"STM32"}
    MaxValue = 1
    MaxCrashes = 2
    MaxFaults = 0
PROPERTIES SaveReported
