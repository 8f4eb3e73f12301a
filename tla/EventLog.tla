------------------------------- MODULE EventLog -------------------------------
(***************************************************************************)
(* What the event store promises its readers: every session is a log that  *)
(* only grows at its end, a capture is either kept, once, in the log of    *)
(* its own session, or lost, and neither outcome is ever revised.          *)
(***************************************************************************)
EXTENDS Sequences

CONSTANTS Captures, Sessions, SessionOf

VARIABLES log,  \* [Sessions -> Seq(Captures)]
          fate  \* [Captures -> {"open", "kept", "lost"}]

Init ==
    /\ log = [s \in Sessions |-> <<>>]
    /\ fate = [c \in Captures |-> "open"]

Keep(c) ==
    /\ fate[c] = "open"
    /\ fate' = [fate EXCEPT ![c] = "kept"]
    /\ log' = [log EXCEPT ![SessionOf[c]] = Append(@, c)]

Lose(c) ==
    /\ fate[c] = "open"
    /\ fate' = [fate EXCEPT ![c] = "lost"]
    /\ UNCHANGED log

Next == \E c \in Captures : Keep(c) \/ Lose(c)

Spec == Init /\ [][Next]_<<log, fate>>
=============================================================================
