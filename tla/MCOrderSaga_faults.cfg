SPECIFICATION FairSpec
CONSTANTS
    o1 = o1
    Orders = {o1}
    Amounts <- MCAmounts
    DeclineLimit <- MCLimit
    BatchSize = 2
    ReceiveLimit = 2
    MaxReceive = 2
    MaxFaults = 2
INVARIANTS
    SagaInv
    SettledByPayment
    OneResultPerOrder
    NoEventLost
    ReceivesAreFailures
    AnswerNotPending
PROPERTIES
    ImplementsLifecycle
    EveryOrderGoesThrough
CHECK_DEADLOCK FALSE
