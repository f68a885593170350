SPECIFICATION LiveSpec
CONSTANTS
    a = a
    b = b
    t = t
    u = u
    Whole = Whole
    Outputs = {a, b}
    Textures = {t, u}
    Rank <- MCRank
    Word = 16
    FirstSerial = 13
    Setups <- MCSetups
PROPERTIES DamageKept TimelineKept Drawn
CHECK_DEADLOCK FALSE
