SPECIFICATION Spec
CONSTANTS
    MaxBars = 14
    Warmup = 1
    Lookback = 2
    Horizons = {1, 2}
    Purges = {2, 3}
    MinTrain = 3
    ValidationBars = 2
    StepBars = 1
    MaxFolds = 2
    ReplayBars = 2
    HoldoutBars = 3
    MinHoldout = 1
    Embargoes = {1, 2, 3}
INVARIANTS FoldsPurged MinimumIsExact ReplayIsReserved HoldoutUnseen
CHECK_DEADLOCK FALSE
