SPECIFICATION Spec
CONSTANTS
    Products <- MCProducts
    Starts <- MCStarts
    Moments <- MCMoments
    MonthCounts = {1, 3}
    MaxOrders = 3
    MaxChanges = 1
CHECK_DEADLOCK FALSE
INVARIANT OpenEndedEndsInStep BoughtMonthsAreGranted NoDayIsPaidForTwice
INVARIANT RefundIsForMonthsLeft RefundAtMostPaid ShownPriceIsCharged
PROPERTY ChangeIsChargedAsShown
