\* Two products of two zones or of one, an accounting that they may share, an order of
\* the purchase and one of the renewal.
SPECIFICATION MCSpec
CONSTANTS
    MaxProducts = 2
    MaxAccountings = 1
    MaxIds = 2
    MaxOrders = 2
    LastMonth = 1
    z1 = z1
    z2 = z2
    Zones = {z1, z2}
    Offers <- SomeOffers
    Permits = {p1}
    Requests = {r1, r2}
    Contents = {x, y}
    DefaultAccounting = x
    None = None
SYMMETRY Symmetry
CHECK_DEADLOCK FALSE
INVARIANT AccountingAgrees SoldProductIsKnown
