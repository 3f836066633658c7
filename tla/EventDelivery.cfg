CONSTANTS
    Types = {"alert", "a", "b", "health"}
    Kinds <- MCKinds
    BatchedTypes = {"health"}
    Subs = {"s1"}
    Interests <- MCInterests
    Capacity <- MCCapacity
    max_batch_size = 2
    max_retries = 1
    MaxEvents = 2
    MaxStops = 0
SPECIFICATION FairSpec
PROPERTY EachEventDelivered
CHECK_DEADLOCK FALSE
