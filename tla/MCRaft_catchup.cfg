SPECIFICATION LiveSpec
CONSTANTS
    s1 = s1
    s2 = s2
    s3 = s3
    c1 = c1
    Nil = Nil
    Server = {s1, s2, s3}
    Command = {c1}
    MaxRaftState = 1
    Links = {{s1, s2}, {s2, s3}}
    Electable = {s2}
    Appliers = {s3}
    MaxTerm = 2
    MaxElections = 2
    MaxLogIndex = 2
    MaxRestarts = 1
    MaxDrops = 1
    MaxRounds = 0
    FirstLeader = s1
    FirstVoter = s2
INVARIANTS
    LogMatching
    CommittedAgreement
PROPERTY LeaderCatchesPeersUp
CHECK_DEADLOCK FALSE
