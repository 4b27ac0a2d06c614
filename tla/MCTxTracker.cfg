SPECIFICATION TrackerSpec
CONSTANT MaxRetractions = 3
INVARIANTS
    TrackerTypeOK
    ResolvedIsApplied
    ErrorIsTrueWithoutLoss
PROPERTY FinalityIsTold
CHECK_DEADLOCK FALSE
