SPECIFICATION Spec
CONSTANTS
    pre = pre
    old = old
    new = new
    user = user
    tool = tool
    install = install
    refresh = refresh
    remove = remove
    restore = restore
    observe = observe
    Events = {pre}
    OurEvents <- MCOurEvents
    ObserverEvents = {pre}
    Binaries = {old, new}
    Others = {user, tool}
    Observer = Observer
    Commands = {install, refresh, remove, restore, observe}
    Issued <- MCIssued
    Wanted <- MCWanted
    ClaudeExtension = FALSE
    CodexExtension = TRUE
    CodexFeature = "no_cli"
    Edited = {"claude-code", "codex"}
    Trusted = TRUE
    FirstHooks <- MCFirstHooks
    FirstConfig <- MCFirstConfig
    None = None
    Unknown = Unknown
    ConfigFile = ConfigFile
    MaxSecond = 1
    MaxEdits = 1
    MaxKills = 1
CHECK_DEADLOCK FALSE
INVARIANTS
    UnrelatedKept
    OwnAsReported
    ConfigKept
