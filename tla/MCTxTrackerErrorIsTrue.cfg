SPECIFICATION TrackerSpec
CONSTANT MaxRetractions = 3
INVARIANT ErrorIsTrue
CHECK_DEADLOCK FALSE
