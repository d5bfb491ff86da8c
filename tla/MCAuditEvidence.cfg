SPECIFICATION Spec
CONSTANTS
    Audits = {a1, a2}
    Primary = coinbase
    Validation = kraken
    Served <- Answers
    Kinds = {"live", "wire", "plain"}
    Start = 0
    End = 3
    MinOverlap = 2
    MaxDivergence = 1
    Retries = 1
    UnlinkOrder <- Walk
    Overlapping = FALSE
    MaxFaults = 1
    Absent = Absent
SYMMETRY Symmetry
INVARIANTS AcceptedIsOneAudit AcceptedPassIsEarned HonestEvidenceValidates
CHECK_DEADLOCK FALSE
