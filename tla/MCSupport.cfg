SPECIFICATION Spec
CONSTANTS
    na = na
    nb = nb
    ga = ga
    gb = gb
    gc = gc
    Names = {na, nb}
    Malformed = Malformed
    Absent = Absent
    Unsaid = Unsaid
    DataFlows <- MCDataFlows
    Structures <- MCStructures
    max_attempts = 2
    step_sequence <- MCSequence
    Workflows = {w1}
    Window = win
    Steppers = {c1}
    max_step_retries = 1
    max_retries = 1
    HandOffSlots = {h1, h2}
    HandOffIds = {i1}
    Threads = {t1, t2}
    MainThread = t1
    Loops = {l1, l2}
    NoLoop = NoLoop
    Acquirers = {a1, a2, a3}
    LockThreads = {t1, t2}
    NoThread = NoThread
    writer_priority = TRUE
    BreakStages = {"earth_validation"}
    Updates = {u1, u2, u3}
    SlotAgents = {ga, gb, gc}
    priority_of <- MCPriorities
    max_concurrent_updates = 2
    max_high_priority_updates = 1
    MaxUpdates = 3
    MaxForced = 1
    AgentOps = {o1, o2}
    history_limit = 1
    MaxAgentOps = 2
    Guidelines <- MCGuidelines
    Features <- MCFeatures
    ConcernWords <- MCConcernWords
    AreaWords <- MCAreaWords
    MaxFeatures = 2
    Sources <- MCSources
    CyclePhases = {"phase_one"}
    KnownStrategies = {"narrowing"}
    Scores = {80}
    Reductions = {0, 20}
    Lookback = 0
    Retention = 0
    HistoryLimit = 2
    ManyEvents = 3
    SomeEvents = 3
    MaxTracked = 4
    MaxDay = 1
INVARIANTS SupportTypeOK CompletedIsBuildable ToldRight HandOffsTracked LoopsKeptApart AccountsKept TakenDown
CHECK_DEADLOCK FALSE
