SPECIFICATION Spec
CONSTANTS
    Runs <- MCRuns
    Here = Here
    NoModule = NoModule
    NoName = NoName
    NoError = NoError
    m1 = m1
    m2 = m2
    dependency = dependency
    x = x
    y = y
    a = a
    b = b
    c = c
    av = av
    ax = ax
    am = am
    n = n
    nv = nv
    z = z
INVARIANTS
    OwnNames
    NamesResolve
    FactsMatch
    SplitCovers
    FailuresTold
