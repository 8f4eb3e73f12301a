SPECIFICATION Spec
CONSTANTS
    none = none
    start = start
    pre1 = pre1
    post1 = post1
    pre2 = pre2
    end = end
    other = other
    f1 = f1
    d1 = d1
    d2 = d2
    clean = clean
    dirty = dirty
    wt = wt
    c1 = c1
    c2 = c2
    tool = tool
    i1 = i1
    i2 = i2
    Files = {f1}
    Digests = {d1, d2}
    Metas = {clean, dirty}
    DirtyMetas = {dirty}
    Roots = {wt}
    Heads = {c1, c2}
    Tools = {tool}
    Invocations = {i1, i2}
    Nothing = none
    NoHook = NoHook
    Hooks <- ToolCalls
    Sessions = {"s1"}
    SessionOf <- InToolCalls
    Attr <- ToolCallsAttr
    OwnReasons <- ToolCallsReasons
    Order <- AgentOrder
    Scans <- EditingScans
    Fallible = {post1}
    Mortal = {}
INVARIANTS
    AttributionSound
    AttributionTraceable
