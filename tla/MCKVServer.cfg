SPECIFICATION Spec
CONSTANTS
    c1 = c1
    c2 = c2
    Nil = Nil
    NumServers = 2
    Clerk = {c1, c2}
    Reader = {c2}
    Types = {"Append"}
    MaxRaftState = 2
    MaxCalls = 1
    MaxTerm = 2
    MaxLog = 4
    MaxLate = 1
    MaxRestarts = 1
INVARIANTS
    TypeOK
    
    
PROPERTIES
    ImplementsAtomicKV
CHECK_DEADLOCK FALSE
