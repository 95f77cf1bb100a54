SPECIFICATION FairSpec
CONSTANTS
    o1 = o1
    c1 = c1
    c2 = c2
    Orders = {o1}
    Customers = {c1, c2}
    Owner <- OwnerOf
    Outcome <- OutcomeOf
    Instances = {i1, i2}
    MaxReceive = 2
    MaxFaults = 2
    MaxCopies = 1
    MaxMarks = 1
INVARIANTS
    DeliveryInv
    DuplicatesAreFailures
    OwnersFindTheirs
PROPERTIES
    ImplementsInbox
    EveryEventTold
CHECK_DEADLOCK FALSE
