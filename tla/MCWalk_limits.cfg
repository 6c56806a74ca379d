\* Each of these is violated: what the search says of the turns of a loop before the
\* last, and of calls before the defer.
SPECIFICATION MCSpec
CHECK_DEADLOCK FALSE
CONSTANTS
    err = err  phi = phi  res = res  new = new  v = v  w = w  k = k
    Families = {"loops", "exits"}
    None = None
    TriggerError = err
    Value = {err, res, new}
    Variable = {v}
    Derived = {}
    Built = {new}
    Home = {v}
    Tracked = {res, new, v}
    Closure = {}
    Protocols <- MCRules
    Instructions <- MCInstructions
    Conditions <- MCConditions
    StoredAtOnce = TRUE
    Fresh = TRUE
    MaxCount = 2
INVARIANTS
    LeakNotOfFailures
    PassedReturnsFail
    NoReturnNotCounted
    HelperNotCounted
