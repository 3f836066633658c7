CONSTANTS
    Types = {"alert", "a", "b", "health"}
    Kinds <- MCKinds
    BatchedTypes = {"health"}
    Subs = {"s1"}
    Interests <- MCInterests
    Capacity <- MCCapacity
    max_batch_size = 2
    max_retries = 1
    MaxEvents = 3
    MaxStops = 1
SPECIFICATION FairSpec
INVARIANTS TypeOK ExactlyOnePlace HandledAtMostOnce HandedOverInOrder
PROPERTY NeverStuck
CHECK_DEADLOCK FALSE
