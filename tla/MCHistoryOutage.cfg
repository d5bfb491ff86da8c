SPECIFICATION FairSpec
CONSTANTS
    coinbase = coinbase
    kraken = kraken
    Venues <- MCVenues
    Primary = coinbase
    Depth <- MCDepth
    DropOpen = TRUE
    Since = 0
    MaxGap = 0
    MaxStale = 1
    MinOverlap = 1
    MaxNow = 5
    MaxFaults = 0
PROPERTIES IngestionCatchesUp
