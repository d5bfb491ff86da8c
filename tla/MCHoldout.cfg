SPECIFICATION FairSpec
CONSTANTS
    Processes = {p1, p2}
    Destinations = {d1, d2}
    Studies = {s1}
    StudyOf <- SharedStudy
    NTrials = 2
    Scores = {1, 2}
    MaxStops = 2
    p1 = p1
    p2 = p2
    d1 = d1
    d2 = d2
    s1 = s1
    NoProcess = NoProcess
    NoDestination = NoDestination
    NoCommitment = NoCommitment
    NoReport = NoReport
    NoTrial = NoTrial
INVARIANTS ReportIsCommitted WinnersPassed
PROPERTIES OneShotHoldout RunsEnd VerdictRecorded
