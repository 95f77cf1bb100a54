SPECIFICATION Spec
CONSTANTS
    p1 = p1
    p2 = p2
    Calls = {c1, c2}
    Products = {p1, p2}
    Carts <- MCCarts
    InitialStock <- MCStock
    MaxStock = 0
    MaxFaults = 0
INVARIANT
    OpenOrdersKeepProducts
CHECK_DEADLOCK FALSE
