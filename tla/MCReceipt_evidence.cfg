SPECIFICATION Spec
CONSTANTS
    d1 = d1
    d2 = d2
    d3 = d3
    d4 = d4
    Change <- TheChange
    NoWindow = NoWindow
    NoCall = NoCall
    NoProcess = NoProcess
    NoSession = NoSession
    NoRepository = NoRepository
    Deliveries = {d1, d2, d3, d4}
    Sessions = {1}
    Windows <- AskedAndShort
    Request <- AskedOnly
    Observed <- TwiceAndConflict
    Queued = {d1, d2, d3}
    Taken <- StartOnly
    Boundaries <- Boundaries3
    Receipts = {r1}
CHECK_DEADLOCK FALSE
INVARIANTS
    EvidenceSelfContained
    NothingHidden
    NoSilentGap
PROPERTIES
    OnlyItsOwnEventWeakens
