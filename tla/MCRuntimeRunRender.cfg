CONSTANTS
    c1 = c1
    c2 = c2
    Channel = {c1, c2}
    Capacity = 1
    BlockSize = 1
    RenderThrows = FALSE
    Schedules <- MCTwoBlocks
    Modes = {"realtime"}
SYMMETRY Symmetry
SPECIFICATION Spec
INVARIANT JoinedRenderIsNotStranded
