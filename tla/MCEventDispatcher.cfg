CONSTANTS
    MaxDelay = 2
    Horizon = 3
    MaxEvents = 2
    MaxStarts = 2
SPECIFICATION FairSpec
INVARIANTS TypeOK NeverEarly TimeOrder CancelBounds Accounted
PROPERTY CallsReturn
CHECK_DEADLOCK FALSE
