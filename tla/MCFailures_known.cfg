SPECIFICATION Spec
CHECK_DEADLOCK FALSE
CONSTANTS
    a = a  b = b  c = c  f1 = f1  f2 = f2  io = io  local = local
    None = None
    Var = {a, b, c}
    Func = {f1, f2}
    Foreign = {io}
    Local = local
    Packages <- AllPackages
INVARIANTS
    VariablesHold
    AlwaysFailsSound
    RoundsSettle
PROPERTIES
    FailuresEnd
