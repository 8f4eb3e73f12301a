SPECIFICATION FairSpec
CONSTANTS
    cmd = cmd
    hook = hook
    NoSession = NoSession
    Sessions = {1, 2, 3}
    Commands = {cmd}
    EndHooks = {hook}
    SessionOf <- HookOfOne
    Integrated = {1, 3}
    Limit = 2
    Imperfect = {1}
    MaxEvents <- FirstGrows
    MaxFaults = 1
INVARIANTS
    SyncedIsDelivered
    CompleteMeansDelivered
    PartialIsExplained
PROPERTIES
    IntegratedGetDelivered
