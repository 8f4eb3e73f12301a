SPECIFICATION Spec
CONSTANTS
    r1 = r1
    r2 = r2
    v1 = v1
    v2 = v2
    automatic = automatic
    explicit = explicit
    other = other
    Repositories = {r1, r2}
    Commands = {automatic, explicit, other}
    Wanted <- Setups
    Versions = {v1, v2}
    Managed = Managed
    NoFile = NoFile
    FirstHook <- HookInFirst
    Edited = {r1}
    Torn = Torn
    MaxFaults = 2
CHECK_DEADLOCK FALSE
INVARIANTS
    HookKept
    SetupLeavesHook
    ModeIsHook
    IntegrationKept
