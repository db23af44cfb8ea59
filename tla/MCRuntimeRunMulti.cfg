CONSTANTS
    c1 = c1
    c2 = c2
    Channel = {c1, c2}
    Capacity = 1
    BlockSize = 1
    RenderThrows = TRUE
    Schedules <- MCOnTwo
    Modes = {"realtime", "replay"}
SYMMETRY Symmetry
SPECIFICATION Spec
INVARIANTS SuccessMeansSent QueueOutlivesItsUsers TxOffAtEnd NeverStuck
PROPERTY QuietAfterAbort
CHECK_DEADLOCK FALSE
