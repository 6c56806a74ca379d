SPECIFICATION Spec
CHECK_DEADLOCK FALSE
CONSTANTS
    Value = {err}
    Variable = {}
    TriggerError = err
    Derived = {}
    Built = {}
    Home = {}
    Tracked = {}
    Closure = {}
    None = None
    N = 3
    MaxDepth = 4
    Packages <- MethodPackages
INVARIANTS
    NothingLeft
