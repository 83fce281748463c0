\* A resident and a visitor without a number share two rows for three years, one more than
\* data are kept; a vehicle may also belong to one who is no customer.
SPECIFICATION FairSpec
CONSTANTS
    Persons = {a}
    Visitors = {v}
    CoOwners = {b}
    MaxCustomers = 2
    MaxYear = 3
    Nobody = Nobody
INVARIANT AnonymizedIsNobody
INVARIANT BuyersAreForgotten
PROPERTY ObsoleteIsForgotten
CHECK_DEADLOCK FALSE
