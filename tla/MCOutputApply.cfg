SPECIFICATION LiveSpec
CONSTANTS
    None = None
    dp = dp
    edp = edp
    Outputs <- MCOutputs
    Panels <- MCPanels
    Rank <- MCRank
    Wishes <- MCWishes
    Desks <- MCDesks
    MaxAnswers = 1
INVARIANTS LightsRequested OnlyAskedSaved RollbackExact
PROPERTIES AnswersTruthful KeptIsSaved Settles
CHECK_DEADLOCK FALSE
