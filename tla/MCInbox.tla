-------------------------------- MODULE MCInbox --------------------------------
(***************************************************************************)
(* Instances of ObservationInbox for TLC.                                  *)
(***************************************************************************)
EXTENDS ObservationInbox

CONSTANTS d1, d2, d3, p1, p2, w1, w2

\* d1 and d2 are the same input received twice, d2 first; d3 contradicts them.
\* The two inputs name different working directories.
TwiceAndConflict == [d \in Deliveries |-> IF d = d3 THEN p2 ELSE p1]
SecondFirst == [d \in Deliveries |-> IF d = d1 THEN 2 ELSE 1]
OneEvent == [p \in Payloads |-> 1]
Itself == [p \in Payloads |-> p]
===============================================================================
