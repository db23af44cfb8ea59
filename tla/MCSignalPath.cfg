SPECIFICATION Spec
CONSTANTS
    Turn = 8
    BatchSymbols = 3
    Span = 2
    TicksPerSample = 3
    MaxBlock = 16
    MaxPreRender = 10
    MaxSamples = 12
    BlockSizes = {0, 1, 2, 3, 5, 8}
    Reconfigurations <- MCReconfigurations
    Uses <- MCUses
INVARIANTS
    StreamIsReference
    VerdictOfRender
    BuffersAreSums
CHECK_DEADLOCK FALSE
