SPECIFICATION MeshSpec
CONSTANTS
    n1 = n1
    n2 = n2
    n3 = n3
    None = None
    Nodes = {n1, n2, n3}
    Mac <- ThreeMacs
    IdSpace = 8
    Capacity = 2
    MaxBoots = 4
    Lossy = TRUE
INVARIANTS MeshTypeOK DatabaseSane
PROPERTIES DatabaseStable
CHECK_DEADLOCK FALSE
