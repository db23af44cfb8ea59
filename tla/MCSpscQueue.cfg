CONSTANTS
    Capacity = 2
    MaxItems = 5
SPECIFICATION FairSpec
INVARIANTS TypeOK SlotExclusion FifoOrder NoLostWakeup
PROPERTIES FifoSpec StopReleases ItemsArrive
CHECK_DEADLOCK FALSE
