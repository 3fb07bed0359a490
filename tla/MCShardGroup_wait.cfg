SPECIFICATION LiveServing
CONSTANTS
    g1 = g1
    g2 = g2
    g3 = g3
    a = a
    d = d
    e = e
    f = f
    A = A
    c1 = c1
    Nobody = Nobody
    None = None
    Group = {g1, g2}
    Replica = {a, d}
    GroupOf <- Duo
    Shard = {A}
    Client = {c1}
    Configs <- Return
    MaxRaftState = 0
    MaxSeq = 1
    ReadFrom = 1
    Unstable = {}
    ElectFrom = 5
    MaxFaults = 0
PROPERTY MigrationCompletes
CHECK_DEADLOCK FALSE
