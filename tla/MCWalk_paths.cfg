SPECIFICATION MCSpec
CHECK_DEADLOCK FALSE
CONSTANTS
    err = err  phi = phi  res = res  new = new  v = v  w = w  k = k
    Families = {"counting", "errors", "success", "loops"}
    None = None
    TriggerError = err
    Value = {err, phi, res, new}
    Variable = {v, w}
    Derived = {phi}
    Built = {new}
    Home = {v}
    Tracked = {res, new, v, w}
    Closure = {k}
    Protocols <- MCRules
    Instructions <- MCInstructions
    Conditions <- MCConditions
    StoredAtOnce = TRUE
    Fresh = TRUE
    MaxCount = 4
INVARIANTS
    TypeOK
    LeakMeansOpen
    DischargeMeansClosed
    DroppedOnlyOnFailure
    CheckedFailureNeverReported
    KnownFailuresHold
    OnSuccessOwed
