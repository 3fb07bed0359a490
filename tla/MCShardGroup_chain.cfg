SPECIFICATION SpecServing
CONSTANTS
    g1 = g1
    g2 = g2
    g3 = g3
    a = a
    d = d
    e = e
    f = f
    A = A
    c1 = c1
    Nobody = Nobody
    None = None
    Group = {g1, g2, g3}
    Replica = {a, d, e, f}
    GroupOf <- Trio
    Shard = {A}
    Client = {c1}
    Configs <- Chain
    MaxRaftState = 2
    MaxSeq = 1
    ReadFrom = 1
    Unstable = {g3}
    ElectFrom = 5
    MaxFaults = 1
INVARIANTS
    TypeOK
    OwnerHasAcked
    ExactlyOnce
    OneOwner
    
CHECK_DEADLOCK FALSE
