SPECIFICATION FairSpec
CONSTANTS
    me = me
    Me = me
    MaxOrders = 2
    Mine = {1}
    Filters = {"all", "PAID"}
    PageSize = 1
    MaxVisits = 3
    MaxClicks = 1
    MaxInbox = 1
    MaxFaults = 1
INVARIANTS
    PageInv
    ShowsItsList
    FindsOwnOrders
    ShownPaymentAgrees
    ShownReadIsRead
PROPERTIES
    EndIsShown
CHECK_DEADLOCK FALSE
