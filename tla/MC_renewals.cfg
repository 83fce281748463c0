SPECIFICATION FairSpec
CONSTANTS
    Permits = {p1}
    MaxOrders = 3
    MaxMonth = 5
CHECK_DEADLOCK FALSE
INVARIANT RefundedWasPaid
PROPERTY EndingRefundsWhatItTakes CancelledSubscriptionEnds
