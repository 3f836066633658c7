CONSTANTS
    Callers = {c1, c2}
    failure_threshold = 2
    half_open_max_tries = 2
    MaxFailures = 3
SPECIFICATION FairSpec
INVARIANTS TypeOK NoSlotLeak SuccessesClose ThresholdOpens
PROPERTY Recovers
