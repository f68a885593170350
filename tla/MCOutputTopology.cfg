SPECIFICATION LiveSpec
CONSTANTS
    dp = dp
    edp = edp
    hdmi = hdmi
    Outputs <- MCOutputs
    Panels = {edp}
    Rank <- MCRank
    Desks <- MCDesks
    MaxOutputs = 2
    Grace = 2
    MaxMoves = 2
    MaxReturns = 2
    Failing = TRUE
INVARIANTS ToggleWins PanelsFollowLid
PROPERTIES AsleepKept NothingForgotten
CHECK_DEADLOCK FALSE
