\* One permit, three points in time, two active temporary vehicles: enough for two
\* temporary vehicles that overlap, nest, leave a gap, or outlast a permit that was ended.
SPECIFICATION FairSpec
CONSTANTS
    Permits = {p1}
    Details = {here}
    Horizon = 3
    MaxTemps = 2
    Stale = Stale
INVARIANT InspectorsSeeTheRow
INVARIANT OneVehicleAtATime
PROPERTY UnsentIsSent
PROPERTY PastVehiclesEnd
CHECK_DEADLOCK FALSE
