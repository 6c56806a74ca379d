SPECIFICATION LoadSpec
CHECK_DEADLOCK FALSE
CONSTANTS
    err = err  phi = phi  res = res  new = new  v = v  w = w  k = k
    Families = {"success"}
    None = None
    TriggerError = err
    Value = {err, res, new}
    Variable = {v}
    Derived = {}
    Built = {new}
    Home = {}
    Tracked = {res, new, v}
    Closure = {k}
    Protocols <- MCRules
    Instructions <- MCInstructions
    Conditions <- MCConditions
    StoredAtOnce = TRUE
    Fresh = FALSE
    MaxCount = 2
INVARIANTS
    OnSuccessOwed
