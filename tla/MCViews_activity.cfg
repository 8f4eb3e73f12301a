SPECIFICATION Spec
CONSTANTS
    src = src
    key = key
    here = here
    there = there
    Sessions = {1, 2}
    Paths = {src, key}
    SensitivePaths = {key}
    Points <- MCPoints
    NoPath = NoPath
    Reports <- MCReports
    AgentOf <- MCAgentOf
    Repos = {here, there}
    LocalRepo <- MCLocalRepo
    OldTables <- MCOldTables
    Lags = {0, 1}
    Moving = {1}
    Limit = 2
    Window = 2
    Threshold = 3
    All = All
    DayLength = 2
    MaxRows = 2
    MaxDay = 1
    MaxDamage = 1
CHECK_DEADLOCK FALSE
INVARIANTS
    DrillCovers
    SessionFiguresAgree
    GroupsCoverTotals
    UnreadIsNoticed
    VerdictHolds
