-------------------------------- MODULE MCSync --------------------------------
(***************************************************************************)
(* Instances of SessionSync for TLC.                                       *)
(***************************************************************************)
EXTENDS SessionSync

CONSTANTS cmd, hook

\* The session_end hook of session 1 runs beside the command.
HookOfOne == [h \in EndHooks |-> 1]

\* Session 1 goes on while it is uploaded; the others have one event each.
FirstGrows == [s \in Sessions |-> IF s = 1 THEN 2 ELSE 1]
===============================================================================
