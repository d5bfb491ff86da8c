SPECIFICATION Spec
CONSTANTS
    Times <- MCTimes
    Since = 2
    Until = 6
    Step = 2
    MaxPages = 3
    Retries = 1
    MaxRows = 3
INVARIANTS CandlesOnce NothingSkipped EvidenceAddsUp
