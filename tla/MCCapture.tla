------------------------------ MODULE MCCapture ------------------------------
(***************************************************************************)
(* Small instances of CaptureStore for TLC.                                *)
(***************************************************************************)
EXTENDS CaptureStore

CONSTANTS none, start, pre1, post1, pre2, end, other, f1, d1, d2, clean, dirty, wt, c1, c2,
          tool, i1, i2

\* A file operation: phase, invocation, whether it targets f1 and succeeded.
MCEvent(phase, inv, hits) ==
    [phase |-> phase, invocation |-> inv,
     tool |-> IF inv = none THEN none ELSE tool,
     success |-> TRUE, writes |-> inv # none,
     targets |-> IF hits THEN {f1} ELSE {}]

\* One agent session with two tool calls that may run in parallel.
OneSession == {start, pre1, post1, pre2, end}
OneSessionAttr ==
    [h \in OneSession |->
       CASE h = start -> MCEvent("session_start", none, FALSE)
         [] h = pre1  -> MCEvent("pre", i1, TRUE)
         [] h = post1 -> MCEvent("post", i1, TRUE)
         [] h = pre2  -> MCEvent("pre", i2, FALSE)
         [] h = end   -> MCEvent("session_end", none, FALSE)]
ToolCalls == OneSession \ {end}
ToolCallsAttr == [h \in ToolCalls |-> OneSessionAttr[h]]
InToolCalls == [h \in ToolCalls |-> "s1"]
ToolCallsReasons == [h \in ToolCalls |-> {}]
InOneSession == [h \in OneSession |-> "s1"]
NoReasons == [h \in OneSession |-> {}]

\* The agent waits for session_start, and for a pre hook before its tool runs;
\* nothing orders one call's hooks with another's, or session_end with either.
AgentOrder ==
    {<<start, h>> : h \in Hooks \intersect {pre1, pre2, end}} \union {<<pre1, post1>>}

\* A second session writing to the same database, and a prompt event.
TwoSessions == {start, pre1, post1, end, other}
TwoSessionsAttr ==
    [h \in TwoSessions |->
       IF h = other THEN MCEvent("intent", none, FALSE) ELSE OneSessionAttr[h]]
InTwoSessions == [h \in TwoSessions |-> IF h = other THEN "s2" ELSE "s1"]
TwoSessionsReasons == [h \in TwoSessions |-> {}]

\* Scans of a worktree with one file.
MCScan(status, head, files) ==
    [status |-> status, enumerated |-> TRUE,
     root |-> IF status = "failed" THEN none ELSE wt, head |-> head, files |-> files]
Saw(status, digest, meta) == [f \in {f1} |-> [status |-> status, digest |-> digest, meta |-> meta]]

\* The file unmodified, edited, deleted or no longer listed; a commit; a file
\* that changed while it was read; a directory without a repository.
EditingScans ==
    {MCScan("complete", c1, Saw("present", d1, clean)),
     MCScan("complete", c1, Saw("present", d2, dirty)),
     MCScan("complete", c2, Saw("present", d2, clean)),
     MCScan("complete", c1, Saw("deleted", none, dirty)),
     MCScan("complete", c1, <<>>),
     MCScan("partial", c1, Saw("unstable", none, dirty)),
     MCScan("failed", none, <<>>)}

CleanScan == {MCScan("complete", c1, Saw("present", d1, clean))}
=============================================================================
