SPECIFICATION Spec
CONSTANTS
    OutputCount = 3
    BufferCount = 3
    Stalls = FALSE
    Switches = FALSE
INVARIANT CommitIdsUnique
