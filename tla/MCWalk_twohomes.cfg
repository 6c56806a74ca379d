SPECIFICATION MCSpec
CHECK_DEADLOCK FALSE
CONSTANTS
    err = err  phi = phi  res = res  new = new  v = v  w = w  k = k
    Families = {"errors"}
    None = None
    TriggerError = err
    Value = {err, res}
    Variable = {v, w}
    Derived = {}
    Built = {}
    Home = {v, w}
    Tracked = {}
    Closure = {}
    Protocols <- MCRules
    Instructions <- MCInstructions
    Conditions <- MCConditions
    StoredAtOnce = TRUE
    Fresh = TRUE
    MaxCount = 2
INVARIANTS
    DroppedOnlyOnFailure
