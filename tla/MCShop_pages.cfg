SPECIFICATION Spec
CONSTANTS
    a = a
    b = b
    Skus = {a, b}
    Tours <- TwoTours
    MaxProducts = 2
    MaxStock = 2
    PageSize = 1
    MaxCalls = 1
    MaxSaves = 2
    MaxCheckouts = 2
    MaxEvents = 1
INVARIANTS
    CartInv
    OneProductPerSku
    OrderedOnce
PROPERTIES
    DeletedStaysDeleted
SYMMETRY Symmetry
CHECK_DEADLOCK FALSE
