\* One vehicle, whatever two consumption figures the register lists for it, and one
\* customer; two criteria, in force alone, together or not at all.
SPECIFICATION Spec
CONSTANTS
    Customers = {a}
    Vehicles = {v}
    Criteria <- LimitsOnBothSides
    Answers <- SomeAnswers
    Licences = {"A2", "B"}
    SavedByHand <- SomeRows
    None = None
INVARIANT LowEmissionIsRegistered
INVARIANT EligibleIsLowEmission
CHECK_DEADLOCK FALSE
