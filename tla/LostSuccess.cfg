SPECIFICATION Spec
CONSTANTS
    Coordinations = {k1, k2}
    Issues = {i1, i2}
    max_iterations = 2
    ResourceIds = {s1, s2}
    States = {"ACTIVE", "FAILED", "RECOVERED", "TERMINATED", "custom"}
    cache_size = 1
    SnapshotInterval = 2
    MaxWrites = 4
    Resources = {r1, r2, r3}
    Managers = {m1, m2}
    Preset = {}
    Flagging = {m1}
    Critical = {m1}
    Starters = {c1, c2}
    Circuits = {n1}
    Users = {u1, u2}
    failure_threshold = 2
    half_open_max_tries = 1
    ManagedCalls = {q1, q2}
    EntryIds = {a1, a2}
    max_entries = 1
    MaxFailed = 3
    Monitored = {w1, w2}
    MaxLoops = 3
INVARIANTS SuccessReturned
CHECK_DEADLOCK FALSE
