SPECIFICATION Spec
CONSTANTS
    pre = pre
    old = old
    new = new
    user = user
    tool = tool
    install = install
    refresh = refresh
    remove = remove
    restore = restore
    observe = observe
    Events = {pre}
    OurEvents <- MCOurEvents
    ObserverEvents = {pre}
    Binaries = {old, new}
    Others = {user, tool}
    Observer = Observer
    Commands = {install}
    Issued <- MCOne
    Wanted <- MCCodexOnly
    ClaudeExtension = FALSE
    CodexExtension = FALSE
    CodexFeature = "hooks"
    Edited = {}
    Trusted = TRUE
    FirstHooks <- MCFirstHooks
    FirstConfig <- MCDisabledConfig
    None = None
    Unknown = Unknown
    ConfigFile = ConfigFile
    MaxSecond = 0
    MaxEdits = 0
    MaxKills = 0
CHECK_DEADLOCK FALSE
INVARIANTS
    RefusedOnlyWithoutAgent
