SPECIFICATION Spec
CONSTANTS
    Venues = {v1, v2}
    Jobs = {j1, j2}
    Readers = {r1}
    Generations = {g1, g2, g3}
    NoGen = NoGen
    NoJob = NoJob
    Unread = Unread
    Missing = Missing
    MaxInterrupts = 2
    MaxFaults = 1
INVARIANTS PublishedStayComplete CapturedViewIsWhole
PROPERTIES LinearHistory RemovesOnlyRubble
SYMMETRY Symmetry
