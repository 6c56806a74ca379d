SPECIFICATION Spec
CHECK_DEADLOCK FALSE
CONSTANTS
    err = err  res = res  new = new  v = v
    None = None
    TriggerError = err
    Value = {err, res, new}
    Variable = {v}
    Derived = {}
    Built = {new}
    Home = {}
    Tracked = {}
    Closure = {}
    Result = v
    Bodies <- FaithfulBodies
INVARIANTS
    EveryPathSound
    DecidesSound
PROPERTIES
    Answers
