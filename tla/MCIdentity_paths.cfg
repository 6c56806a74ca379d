\* What is the same and what is not, over functions with a loop.
SPECIFICATION IdentitySpec
CONSTANTS
    Programs <- MCPrograms
    Heaps <- MCHeaps
    Arguments <- MCArguments
    MaxRounds = 2
INVARIANTS
    NoMeansDistinct
    YesMeansSame
    LocationsPart
    KeptWhereStored
CHECK_DEADLOCK FALSE
