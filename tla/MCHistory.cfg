SPECIFICATION FairSpec
CONSTANTS
    coinbase = coinbase
    kraken = kraken
    Venues <- MCVenues
    Primary = coinbase
    Depth <- MCDepth
    DropOpen = TRUE
    Since = 0
    MaxGap = 1
    MaxStale = 1
    MinOverlap = 1
    MaxNow = 5
    MaxFaults = 1
INVARIANTS PartialOnlyAtBoundary
PROPERTIES HistoryOnlyGrows StuckOnlyOutOfReach
