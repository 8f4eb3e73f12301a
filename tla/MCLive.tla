------------------------------- MODULE MCLive -------------------------------
(***************************************************************************)
(* Small instances of LiveVerification for TLC.                            *)
(***************************************************************************)
EXTENDS LiveVerification

CONSTANTS agent, repo, dir, s1, arm, eval, bin, b1, start, pre, post

MCEvent(phase, call) ==
    [agent |-> agent, session |-> s1, directory |-> dir, phase |-> phase,
     invocation |-> call, tool |-> IF call = "" THEN "" ELSE "Bash"]

\* One session with one tool call.
MCEventOf ==
    [c \in Captures |->
       CASE c = start -> MCEvent("session_start", "")
         [] c = pre   -> MCEvent("pre", "i1")
         [] c = post  -> MCEvent("post", "i1")]

\* The agent waits for each hook.
MCOrder == {<<start, pre>>, <<pre, post>>}

MCRootOf == [d \in Directories |-> repo]

Hooked(rest) ==
    [disabled |-> FALSE, commands |-> [e \in LiveEvents |-> {bin}], rest |-> rest]
TwoContents == {Hooked("a"), Hooked("b")}

MCPolicies ==
    {[mode |-> "approved_repositories", repository |-> repo, approved |-> A] : A \in SUBSET {repo}}

MCInitially ==
    {<<[a \in Agents |-> Hooked("a")], [a \in Agents |-> "r1"],
       [mode |-> "approved_repositories", repository |-> repo, approved |-> {repo}]>>}

\* One command arms, the other evaluates.
MCAsked == [v \in Verifiers |-> IF v = arm THEN {None} ELSE {s1}]
MCVersionOf == [v \in Verifiers |-> "v1"]
=============================================================================
