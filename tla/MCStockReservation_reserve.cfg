SPECIFICATION FairSpec
CONSTANTS
    p1 = p1
    p2 = p2
    Calls = {c1, c2}
    Products = {p1, p2}
    Carts <- MCCarts
    InitialStock <- MCStock
    MaxStock = 1
    MaxFaults = 1
INVARIANTS
    ReservationInv
    StockConserved
    NoOversell
    OrderedLinesReserved
    LeaksAreFailures
PROPERTY
    EveryCheckoutEnds
CHECK_DEADLOCK FALSE
