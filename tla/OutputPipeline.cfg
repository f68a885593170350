SPECIFICATION FairSpec
CONSTANTS
    BufferCount = 3
    Tokens = {t1, t2}
    None = None
    Transfers = TRUE
    RenderAhead = TRUE
    MaxLeases = 1
    MaxLeftovers = 1
INVARIANTS BuffersSafe RefsExact SchedulerAgrees
PROPERTIES PowerOffSettles FramesMove
