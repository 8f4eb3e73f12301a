------------------------------ MODULE MCHooks ------------------------------
(***************************************************************************)
(* Small instances of AgentHooks for TLC.                                  *)
(***************************************************************************)
EXTENDS AgentHooks, TLC

CONSTANTS pre, old, new, user, tool, install, refresh, remove, restore, observe

MCOurEvents == [a \in Agents |-> Events]

\* Claude Code's file has a group that an older binary of ours shares with the user's
\* handler; Codex's has a handler of another tool.  Or there are no files yet.
MCFirstHooks ==
    {[a \in Agents |->
         Whole([e \in Events |-> IF a = "codex" THEN <<<<tool>>>> ELSE <<<<user, old>>>>])],
     [a \in Agents |-> Absent]}

OneLine(text, on) == [text |-> text, on |-> on]
MCConfig(ls) == [lines |-> ls, ended |-> TRUE, off |-> {}]
\* The feature is on; its table stands before another one and does not name it.
MCFirstConfig ==
    {MCConfig(<<OneLine("[features]", FALSE), OneLine("hooks", TRUE)>>),
     MCConfig(<<OneLine("[features]", FALSE), OneLine("other", TRUE), OneLine("[table]", FALSE)>>)}
MCDisabledConfig ==
    {MCConfig(<<OneLine("[features]", FALSE), OneLine("hooks", FALSE)>>), MCConfig(<<>>)}

MCCommand(kind, binary, agent, enable, purge) ==
    [kind |-> kind, binary |-> binary, agent |-> agent, enable |-> enable, purge |-> purge]
FiveCommands ==
    (install :> MCCommand("init", new, "auto", FALSE, FALSE))
    @@ (refresh :> MCCommand("refresh", old, "auto", FALSE, FALSE))
    @@ (remove :> MCCommand("uninstall", new, "auto", FALSE, TRUE))
    @@ (restore :> MCCommand("restore", new, "auto", FALSE, FALSE))
    @@ (observe :> MCCommand("observe", new, "auto", FALSE, FALSE))
MCWanted == [c \in Commands |-> FiveCommands[c]]
\* Two or three of them at a time.
MCIssued == {{install, remove, observe}, {install, restore}, {refresh, restore, observe}}
MCOne == {{install}}
\* init --agent codex --enable-codex-hooks
MCCodexOnly == [c \in Commands |-> MCCommand("init", new, "codex", TRUE, FALSE)]
=============================================================================
