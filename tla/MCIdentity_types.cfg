SPECIFICATION IdentitySpec
CONSTANTS
    Programs <- MCPrograms
    Heaps <- MCHeaps
    Arguments <- MCArguments
    MaxRounds = 2
INVARIANTS
    MemoryOK
    OneType
CHECK_DEADLOCK FALSE
