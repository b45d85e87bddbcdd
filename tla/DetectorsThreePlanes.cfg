SPECIFICATION MCSpec
INVARIANTS ThreePlanesMatch
CHECK_DEADLOCK FALSE
