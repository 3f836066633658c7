SPECIFICATION Spec
CONSTANTS
    Calls = {a1, a2}
    Visits = {w1}
    Requests = {q1}
    max_validation_attempts = 3
    MaxOperations = 3
    Validations = {v1, v2}
    max_retries = 2
    MaxDepth = 2
    Components = {c1, c2, c3}
    MaxDevelopments = 3
    Features = {f1, f2}
    max_parallel = 1
    MaxStarts = 3
    MaxList = 2
    Phases = {p1, p2}
    Executions = {e1, e2}
    MaxAsks = 2
    Refinements = {g1, g2}
    Tools = 3
    max_attempts = 2
INVARIANTS PartsTypeOK ApartUnlessOverlapping UndisturbedNotMisled DevelopedAsReported DependenciesBegin PhasesToldRight SuccessWasChecked
SYMMETRY Symmetry
CHECK_DEADLOCK FALSE
