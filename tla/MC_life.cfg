SPECIFICATION FairLifeSpec
CONSTANTS
    Permits = {p1}
    Vehicles = {v1}
    Zones = {z1}
    MaxOrders = 2
    MaxAllowed = 2
    None = None
INVARIANT ApprovedIsPaid
INVARIANT ClosedHasNoPendingRequest
PROPERTY TimedOutOrderCloses
PROPERTY RequestIsDecided
PROPERTY DueEndsUncut
