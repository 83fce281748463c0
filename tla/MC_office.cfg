\* Two permits, two vehicles and two orders for the shop and the office together; one
\* form open at a time.  Ending a permit later, and drafts as such, are left to others.
SPECIFICATION OfficeSpec
CONSTANTS
    Permits = {p1, p2}
    Vehicles = {v1, v2}
    Zones = {z1}
    MaxOrders = 2
    MaxAllowed = 2
    None = None
    Refunds = {r1}
    GivenStatuses = {"VALID"}
    EditedStatuses = {"VALID"}
    EndTypes = {"IMMEDIATELY"}
SYMMETRY Symmetry
INVARIANT NoDuplicateVehicle
 
PROPERTY OnlyEditsAreUnpaid
CHECK_DEADLOCK FALSE
