-------------------------------- MODULE MCViews --------------------------------
(***************************************************************************)
(* A small instance of ActivityViews for TLC: a Claude Code session 1 and  *)
(* a Codex session 2.                                                      *)
(***************************************************************************)
EXTENDS ActivityViews, TLC

CONSTANTS src, key, here, there

MCPoints == (src :> 0) @@ (key :> -15)
MCAgentOf == <<"claude-code", "codex">>
MCLocalRepo == <<here, there>>

Hook(agent, phase, tool, path, shape, blocks) ==
    [agent |-> agent, phase |-> phase, tool |-> tool, id |-> TRUE, shape |-> shape, blocks |-> blocks,
     decision |-> "none", path |-> path, patch |-> <<>>]
Update(path, to) == [kind |-> "update", path |-> path, to |-> to, body |-> TRUE, changes |-> TRUE]
Patched(sections) ==
    [Hook("codex", "post", "apply_patch", NoPath, "object", <<{"good"}>>) EXCEPT !.patch = sections]
MCReports ==
    {Hook("claude-code", "post", "Edit", src, "object", <<{}>>),
     Hook("claude-code", "post", "Bash", NoPath, "object", <<{"exit"}>>),
     Patched(<<Update(src, key)>>),
     Patched(<<>>),
     [Hook("codex", "pre", "Bash", NoPath, "none", <<>>) EXCEPT !.decision = "deny"]}

Old(format, collector) ==
    LET c == [Columns(Hook("claude-code", "post", "Edit", src, "object", <<{}>>), 1, 0)
                EXCEPT !.checkpoint = FALSE, !.collector = collector]
        row == [columns |-> c, previous |-> NoHash, hash |-> NoHash, sequence |-> 1]
    IN {[row EXCEPT !.hash = Digest(format, NoHash, row)]}
MCOldTables == {{}, Old("v2", FALSE), Old("v3", FALSE), Old("v4", TRUE)}
=============================================================================
