SPECIFICATION MCSpec
CHECK_DEADLOCK FALSE
CONSTANTS
    err = err  phi = phi  res = res  new = new  v = v  w = w  k = k
    Families = {"errors"}
    None = None
    TriggerError = err
    Value = {err, res}
    Variable = {v}
    Derived = {}
    Built = {}
    Home = {v}
    Tracked = {}
    Closure = {}
    Protocols <- MCRules
    Instructions <- MCInstructions
    Conditions <- MCConditions
    StoredAtOnce = FALSE
    Fresh = TRUE
    MaxCount = 2
INVARIANTS
    DroppedOnlyOnFailure
