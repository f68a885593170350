SPECIFICATION FairSpec
CONSTANTS
    OutputCount = 2
    BufferCount = 2
    Stalls = TRUE
    Switches = TRUE
INVARIANTS AcknowledgementsMatch CapacitySuffices
PROPERTIES RetiredIsShown PowerOffSettles
