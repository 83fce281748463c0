SPECIFICATION Spec
CONSTANTS
    Permits = {p1, p2}
    MaxOrders = 2
    MaxMonth = 4
SYMMETRY PermitSymmetry
CHECK_DEADLOCK FALSE
INVARIANT RefundedOnce MonthsArePaidFor
