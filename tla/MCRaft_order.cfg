SPECIFICATION SpecLed
CONSTANTS
    s1 = s1
    s2 = s2
    s3 = s3
    c1 = c1
    Nil = Nil
    Server = {s1, s2, s3}
    Command = {c1}
    MaxRaftState = 1
    Links = {{s1, s2}, {s1, s3}}
    Electable = {}
    Appliers = {s1, s3}
    MaxTerm = 1
    MaxElections = 1
    MaxLogIndex = 2
    MaxRestarts = 0
    MaxDrops = 0
    MaxRounds = 3
    FirstLeader = s1
    FirstVoter = s2
INVARIANTS
    SnapshotDeliveredFirst
CHECK_DEADLOCK FALSE
