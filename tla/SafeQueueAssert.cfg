\* The loops that look at the indexes only, against the assert of SafeQueue.h:39.
CONSTANTS
    N = 4
    Producers = {w1}
    Gates = {"index"}
    Limit <- MCSafeLimit
    MaxWrites = 2
SPECIFICATION Spec
INVARIANT AssertHolds
CHECK_DEADLOCK FALSE
