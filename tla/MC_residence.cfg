\* Two addresses to hold a permit for, one elsewhere and one where zones overlap.
SPECIFICATION FairSpec
CONSTANTS
    Addresses = {home, second, abroad, border}
    Elsewhere = {abroad}
    Unzoned = {}
    Overlapping = {border}
    None = None
INVARIANT MarkedHasMoved
PROPERTY MarkedPermitEnds
