SPECIFICATION Spec
CONSTANTS
    c1 = c1
    c2 = c2
    s1 = s1
    s2 = s2
    Nil = Nil
    Clerk = {c1, c2}
    Server = {s1, s2}
    NShards = 4
    GID = {1, 2, 3}
    MovedShards = {0}
    Mover = {c2}
    MaxChanges = 2
    MaxMoves = 1
    RingSize = 8
    Operator = c1
    InitRings <- Rings
    Groups = {1, 2}
    FactorNum = 3
    FactorDen = 2
    MinLoad = 1
    MaxShards = 3
    MaxLoad = 1
    MaxSteps = 1
    MaxFaults = 1
SYMMETRY Symmetry
INVARIANTS
    OneVersionPerRequest
    StrayHasLeft
    RingValid
    VerdictTruthful
    MovesOwnHalf
PROPERTIES
    ChangeBalances
    ChangeMovesFewest
    OnlyThatShard
CHECK_DEADLOCK FALSE
