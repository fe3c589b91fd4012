\* Price 3 shares the index of 0; the id 5 is beyond the table of orders; the
\* third level takes the last block of its pool.
CONSTANTS
    MaxOrderIds = 4
    NumLevels = 3
    OrderIds = {0, 1, 2, 3, 5}
    Prices = {0, 1, 2, 3}
    Quantities = {1, 2}
    MaxUpdates = 5
SPECIFICATION Spec
INVARIANTS NoPriceIsReported MirrorsUpdates EachNewPriceIsWorse ClearedPricesAreLost
CHECK_DEADLOCK FALSE
