SPECIFICATION Spec
CONSTANTS
    o1 = o1
    Orders = {o1}
    Amounts <- MCAmounts
    DeclineLimit <- MCLimit
    BatchSize = 2
    ReceiveLimit = 2
    MaxReceive = 2
    MaxFaults = 0
PROPERTY
    CancelRejectedOncePaid
CHECK_DEADLOCK FALSE
