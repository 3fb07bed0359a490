SPECIFICATION SpecLed
CONSTANTS
    s1 = s1
    s2 = s2
    s3 = s3
    c1 = c1
    Nil = Nil
    Server = {s1, s2, s3}
    Command = {c1}
    MaxRaftState = 0
    Links = {{s1, s3}, {s2, s3}}
    Electable = {s1, s2}
    Appliers = {}
    MaxTerm = 3
    MaxElections = 4
    MaxLogIndex = 2
    MaxRestarts = 1
    MaxDrops = 1
    MaxRounds = 4
    FirstLeader = s1
    FirstVoter = s3
INVARIANTS
    TypeOK
    ElectionSafety
    LeaderCompleteness
    MatchIndexTruthful
PROPERTY VoteStable
CHECK_DEADLOCK FALSE
