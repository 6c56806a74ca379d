\* Each of these is violated: a list walked by its own link, a value read before and
\* after a store, a struct and a part of it, a method value stored through what may
\* be another object.
SPECIFICATION IdentitySpec
CONSTANTS
    Programs <- MCLimits
    Heaps <- MCHeaps
    Arguments <- MCArguments
    MaxRounds = 2
INVARIANTS
    YesMeansSame
    OnePathOneValue
    NoMeansElsewhere
    KeptMethodsAll
CHECK_DEADLOCK FALSE
