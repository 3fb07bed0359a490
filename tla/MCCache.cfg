SPECIFICATION LiveSpec
CONSTANTS
    c1 = c1
    c2 = c2
    k1 = k1
    k2 = k2
    None = None
    Key = {k1, k2}
    Caller = {c1, c2}
    Capacity = 1
    TTL = 1
    Written = {k1}
    MaxWrites = 2
    MaxForeign = 1
    MaxClock = 1
    MaxPanics = 1
INVARIANTS
    TypeOK
    ReadsOwnWrites
    HitsFresh
    CacheAgrees
PROPERTY CallsReturn
CHECK_DEADLOCK FALSE
