CONSTANTS
    MaxDelay = 2
    Horizon = 3
    MaxEvents = 2
    MaxStarts = 1
SPECIFICATION Spec
INVARIANT CancelPrompt
CHECK_DEADLOCK FALSE
