CONSTANTS
    None = None
    BadChannel = BadChannel
    TimeBits = 3
    MaxRepeatCount = 3
    PrintDigits = 1
    MaxDuration = 10
    Scenarios <- MCScenarios
SPECIFICATION Spec
INVARIANTS PlannerRefusalsExplained RefusalsExplained ImportMatchesRuntime OnAirOnce EventsTakeEffect
CHECK_DEADLOCK FALSE
