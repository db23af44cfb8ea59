SPECIFICATION Spec
CONSTANTS
    v1 = v1
    v2 = v2
    Channel = {0, 1}
    Value = {v1, v2}
    Plans <- MCPlans
    DefaultChannel = 1
    MaxRuntimes = 2
INVARIANTS
    OnAirAsPlanned
    ResultsAreTrue
CHECK_DEADLOCK FALSE
