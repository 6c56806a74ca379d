SPECIFICATION MCSpec
CHECK_DEADLOCK FALSE
CONSTANTS
    err = err  res = res  new = new  v = v  k = k
    None = None
    TriggerError = err
    Value = {err, res, new}
    Variable = {v}
    Derived = {}
    Built = {new}
    Home = {v}
    Tracked = {res, v}
    Closure = {k}
    Programs <- MCPrograms
    Protocols <- MCProtocols
    Lengths = {0, 1, 2, 3, 4, 5, 6, 7, 8}
    Firsts = {TRUE, FALSE}
INVARIANTS
    NothingMissed
    LessFindsMore
    NothingInvented
PROPERTIES
    Terminates
    Implements
