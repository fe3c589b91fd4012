\* One writer that never fills the ring: the way the queues are meant to be used.
CONSTANTS
    N = 4
    Producers = {w1}
    Gates = {"index", "count", "reread", "both"}
    Limit <- MCSafeLimit
    MaxWrites = 10
SPECIFICATION FairSpec
INVARIANTS NoTornRead NoNullDereference
PROPERTIES EventuallyRead ImplementsFifo
CHECK_DEADLOCK FALSE
