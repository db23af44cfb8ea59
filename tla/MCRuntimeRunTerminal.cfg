CONSTANTS
    c1 = c1
    c2 = c2
    Channel = {c1}
    Capacity = 1
    BlockSize = 1
    RenderThrows = FALSE
    Schedules <- MCShort
    Modes = {"realtime"}
SPECIFICATION Spec
PROPERTY TerminalIsFinal
