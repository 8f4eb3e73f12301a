----------------------------- MODULE DeliveryLedger -----------------------------
(***************************************************************************)
(* What codex_deliveries promises its readers, without files, processors   *)
(* and failures: every delivery is judged once, by the deliveries that     *)
(* were judged before it, and no judgement is ever revised.                *)
(***************************************************************************)

CONSTANTS Rows,     \* what can be delivered
          Report,   \* the observation that a row reports, or Refused
          Refused,
          Event     \* the event of an observation

VARIABLE rows  \* [Rows -> {"none", "accepted", "duplicate", "conflict", "rejected"}]

Init == rows = [r \in Rows |-> "none"]

\* The rows that brought an observation.
Recorded == {r \in Rows : rows[r] \notin {"none", "rejected"}}

Refuse(r) ==
    /\ rows[r] = "none"
    /\ rows' = [rows EXCEPT ![r] = "rejected"]

\* The first of an observation is accepted, unless its event is known otherwise.
Observe(r) ==
    /\ rows[r] = "none" /\ Report[r] # Refused
    /\ rows' = [rows EXCEPT ![r] =
         IF \E q \in Recorded : Report[q] = Report[r] THEN "duplicate"
         ELSE IF \E q \in Recorded : Event[Report[q]] = Event[Report[r]] THEN "conflict"
         ELSE "accepted"]

Next == \E r \in Rows : Refuse(r) \/ Observe(r)

Spec == Init /\ [][Next]_rows
=================================================================================
