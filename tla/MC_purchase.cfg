SPECIFICATION PurchaseSpec
CONSTANTS
    Permits = {p1, p2, p3}
    Vehicles = {v1, v2, v3}
    Zones = {z1, z2}
    MaxOrders = 2
    MaxAllowed = 2
    None = None
SYMMETRY Symmetry
INVARIANT TypeOK
INVARIANT NoDuplicateVehicle
INVARIANT ZoneSet
PROPERTY PaymentTimeRespected
PROPERTY ImplementsLifecycle
