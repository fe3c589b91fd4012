CONSTANTS
    Tickers = {0, 1}
    MaxOrderIds = 3
    MaxUpdates = 4
SPECIFICATION Spec
INVARIANTS SequenceCheckHolds NoCancelSurvives
CHECK_DEADLOCK FALSE
