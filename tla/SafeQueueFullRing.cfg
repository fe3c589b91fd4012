\* The test SafeQueueExample: as many elements as the ring has slots.
CONSTANTS
    N = 4
    Producers = {w1}
    Gates = {"count"}
    Limit <- MCFullLimit
    MaxWrites = 4
SPECIFICATION Spec
INVARIANT NoNullDereference
CHECK_DEADLOCK FALSE
