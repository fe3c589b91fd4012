\* Three requests of two connections: a batch of three is more than the sort keeps in
\* order, and two requests of one read and one of another meet in a batch.
CONSTANTS
    k1 = k1
    k2 = k2
    c1 = c1
    c2 = c2
    Conns <- MCConns
    ClientIds <- MCClientIds
    Owners <- MCOwners
    Beyond = Beyond
    Fragment = Fragment
    None = None
    MaxPending = 3
    StableSort = 2
    Times = {0, 1}
    MaxRequests = 3
    MaxFaults = 1
SPECIFICATION Spec
INVARIANTS RequestsInOrder AnswersReachTheirClient NoNullSocket
PROPERTIES GapIsForever EveryRequestIsAnswered
CHECK_DEADLOCK FALSE
