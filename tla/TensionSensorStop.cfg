SPECIFICATION FairSpec
PROPERTY ObservationStops
CHECK_DEADLOCK FALSE
