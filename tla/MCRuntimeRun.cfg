CONSTANTS
    c1 = c1
    c2 = c2
    Channel = {c1}
    Capacity = 2
    BlockSize = 2
    RenderThrows = TRUE
    Schedules <- MCOnOne
    Modes = {"realtime", "replay"}
SPECIFICATION FairSpec
INVARIANTS TypeOK SuccessMeansSent BurstsWellFormed QueueOutlivesItsUsers TxOffAtEnd
PROPERTIES QuietAfterAbort CallsReturn
