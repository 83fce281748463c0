SPECIFICATION EndSpec
CONSTANTS
    Permits = {p1, p2}
    Vehicles = {v1, v2}
    Zones = {z1}
    MaxOrders = 2
    MaxAllowed = 2
    None = None
SYMMETRY Symmetry
INVARIANT ValidHasConfirmedOrder
