SPECIFICATION Spec
CONSTANTS
    Names = {n1, n2}
    NoBreaker = NoBreaker
    Placeholder = Placeholder
    bulk_creation_threshold = 1
    MaxMade = 2
    MaxCalls = 4
    Callers = {c1, c2}
    Background = Background
    NoThread = NoThread
    MaxDepth = 3
INVARIANTS TypeOK PlaceholdersQueued ChildrenFollow NoDeadlock
SYMMETRY Symmetry
CHECK_DEADLOCK FALSE
