\* Two tickers, and two entries in the queues: enough for every ticker to be quoted and
\* for a second response behind the first.
CONSTANTS
    Tickers = {1, 2}
    MaxItems = 2
SPECIFICATION Spec
INVARIANTS TypeOK NoThreadOutlivesItsObject SuccessMeansNoFailure
PROPERTIES FirstResponseIsTheLast EndingEnds
CHECK_DEADLOCK FALSE
