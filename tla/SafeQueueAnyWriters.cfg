\* Two writers without mutual exclusion (TradeEngine's logger), ring overrun.
CONSTANTS
    N = 2
    Producers = {w1, w2}
    Gates = {"index", "count", "reread", "both"}
    Limit <- MCAnyLimit
    MaxWrites = 5
SPECIFICATION Spec
INVARIANTS CountedReadersNeverAbort
CHECK_DEADLOCK FALSE
