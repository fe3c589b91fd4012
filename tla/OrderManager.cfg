\* A position of 2 in clips of 2: every order may be executed in parts, and either
\* side may turn the position round.  The unit of money is a quarter.
CONSTANTS
    Prices = {4, 8}
    Clip = 2
    MaxOrderSize = 2
    MaxPositions = 2
    LossAllowed = 12
    Garbage = 4
    MaxOrders = 4
    MaxFills = 3
SPECIFICATION Spec
INVARIANTS OnlyTheSlotsOrderRests PositionWithinLimits ShortIsChargedInFull
PROPERTY PendingEnds
CHECK_DEADLOCK FALSE
