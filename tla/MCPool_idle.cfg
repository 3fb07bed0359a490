SPECIFICATION LiveSpec
CONSTANTS
    g1 = g1
    g2 = g2
    r1 = r1
    r2 = r2
    Caller = {g1, g2}
    Redialer = {r1, r2}
    MinSize = 1
    MaxSize = 2
    MaxCrashes = 1
PROPERTIES
    MinimumKept
CHECK_DEADLOCK FALSE
