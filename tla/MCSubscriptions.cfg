SPECIFICATION FairSpec
CONSTANTS
    token = token
    transfer = transfer
    NotGiven = NotGiven
    Connection = {c1}
    Capacity = 2
    Content <- MCContent
    Filter <- MCFilter
    MaxPending = 1
    MaxEvents = 4
    MaxBlocks = 2
    MaxSubs = 2
INVARIANTS
    NotificationsInOrder
    DeliveredExactly
    HeadClosesItsBlock
PROPERTIES
    EveryEventHandled
CHECK_DEADLOCK FALSE
