SPECIFICATION FairSpec
CONSTANTS
    d1 = d1
    d2 = d2
    d3 = d3
    p1 = p1
    p2 = p2
    w1 = w1
    w2 = w2
    Deliveries = {d1, d2, d3}
    Queued = {d2, d3}
    Payloads = {p1, p2}
    Refused = Refused
    Payload <- TwiceAndConflict
    LogicalId <- OneEvent
    Place <- Itself
    ReceivedAt <- SecondFirst
    Repositories = {r1}
    NoRepository = NoRepository
    Unseen = Unseen
    Processors = {w1, w2}
    NoProcessor = NoProcessor
    NoInput = NoInput
    Limit = 2
    MaxFaults = 1
INVARIANTS
    NothingVanishes
    ReceiptTimeIsFirst
    RepositoryObserved
    RunsAreTrue
PROPERTIES
    ImplementsLedger
    EventuallyApplied
