SPECIFICATION Spec
\* The bounds of the model stop it.
CHECK_DEADLOCK FALSE
CONSTANTS
    p1 = p1  p2 = p2
    Procs = {p1, p2}
    Clients = {"a", "b"}
    Limit = 2  Window = 1
    MaxKeys = 1
    Prompt = TRUE
    MaxTime = 2
    MaxPerTick <- PerTick
    MaxCount = 4
SYMMETRY Symmetry
INVARIANTS WindowBound
PROPERTIES RefusedOnlyWhenSpent
