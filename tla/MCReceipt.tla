------------------------------- MODULE MCReceipt --------------------------------
(***************************************************************************)
(* Instances of Receipt for TLC.                                           *)
(***************************************************************************)
EXTENDS Receipt, TLC

CONSTANTS d1, d2, d3, d4

TheChange == [repository |-> "ours", base |-> "base", head |-> "head"]

Observation(id, logical, event, received, occurred, source, sequence) ==
    [id |-> id, logical |-> logical, session |-> 1, cwd |-> "dir", repository |-> "ours",
     event |-> event, call |-> "call", process |-> NoProcess, received |-> received,
     occurred |-> occurred, source |-> source, sequence |-> sequence, gaps |-> {}]

\* The first input arrives twice and has no time of its own; the second has one; the
\* third contradicts it.  The number 2 is missing.
TwiceAndConflict ==
    (d1 :> Observation(1, 1, "PreToolUse", 3, 3, FALSE, 1))
    @@ (d2 :> Observation(1, 1, "PreToolUse", 1, 1, FALSE, 1))
    @@ (d3 :> Observation(2, 2, "PostToolUse", 4, 3, TRUE, 3))
    @@ (d4 :> Observation(3, 2, "PostToolUse", 5, 4, TRUE, 3))

Boundary(kind, revision, at) ==
    [session |-> 1, kind |-> kind, repository |-> "ours", inside |-> {"dir"},
     revision |-> revision, at |-> at]
Boundaries3 ==
    {Boundary("start", "base", 1), Boundary("end", "head", 4), Boundary("end", "later", 5)}

StartOnly == {b \in Boundaries : b.kind = "start"}

\* The receipt is asked for the session, and another window is set by hand.
Asked == [since |-> 0, until |-> 5]
AskedAndShort == {Asked, [since |-> 0, until |-> 2]}
AskedOnly == [r \in Receipts |-> [s \in Sessions |-> Asked]]
=================================================================================
