SPECIFICATION LedgerSpec
CONSTANTS
    Ledgers = {l1, l2}
    Unit = 4
    Returns <- BarReturns
    Probabilities = {1, 2, 3}
    Long = 3
    Short = 1
    Rate = 1
    Multipliers = {1, 2}
    Delay = 1
    MaxBars = 4
INVARIANTS NoLookahead StressNeverBetter EveryDeclineShows
PROPERTIES NothingAfterBankruptcy
CHECK_DEADLOCK FALSE
