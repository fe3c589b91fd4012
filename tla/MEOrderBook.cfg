\* The fourth level takes the last block of the level pool, the price 5 shares
\* the index of 1, and the id 5 of client 0 the cell of the id 0 of client 1.
CONSTANTS
    NumClients = 2
    MaxOrderIds = 5
    NumLevels = 4
    ClientOrderIds = {0, 5}
    Prices = {1, 2, 3, 4, 5}
    Quantities = {0, 1}
    Builds = {"hangs", "falls through"}
    MaxRequests = 5
SPECIFICATION Spec
INVARIANTS BookConsistent OneOrderPerLevel WorstPriceFirst HeadsNotCrossed MarketMirrorsBook
PROPERTIES CancelEmptiesSide CancelsOwnOrder
CHECK_DEADLOCK FALSE
