SPECIFICATION FairSpec
CONSTANTS
    agent = agent
    repo = repo
    dir = dir
    s1 = s1
    arm = arm
    eval = eval
    bin = bin
    b1 = b1
    start = start
    pre = pre
    post = post
    None = None
    NoRepository = NoRepository
    NoBuild = NoBuild
    Agents = {agent}
    Repositories = {repo}
    Sessions = {s1}
    Clients = {"unknown"}
    Directories = {dir}
    RootOf <- MCRootOf
    Executables = {bin}
    Builds = {b1}
    Settings <- TwoContents
    Policies <- MCPolicies
    Runtimes = {"r1", "r2"}
    Versions = {"v1"}
    Initially <- MCInitially
    Verifiers = {arm, eval}
    Asked <- MCAsked
    Waits = {1}
    VersionOf <- MCVersionOf
    Captures = {start, pre, post}
    EventOf <- MCEventOf
    Order <- MCOrder
    Fallible = {post}
    Window = 5
    MaxStamp = 6
    MaxEdits = 2
CHECK_DEADLOCK FALSE
INVARIANTS
    VerifiedIsEvidenced
    EvidenceUnderFingerprint
    CurrentLabelIsEarned
PROPERTIES
    StoredRoundTripFound
