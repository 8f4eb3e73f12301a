-------------------------------- MODULE Receipt ---------------------------------
(***************************************************************************)
(* The creation of signed receipts of one change, by any number of         *)
(* commands and pushes, while observations are still being processed       *)
(* (createReceipt in cmd/receipt_workflow.go, receipt_snapshot.go,         *)
(* observation_coverage.go).  What becomes of them is in ReceiptUpload.    *)
(*                                                                         *)
(* What ObservationInbox describes step by step is here: a delivery is a   *)
(* file, then a file and a row, then a row.  The ledger is a function of   *)
(* the set of rows, which InsertedOnce and ReceiptTimeIsFirst say.         *)
(***************************************************************************)
EXTENDS Coverage

CONSTANTS Deliveries,
          Observed,     \* [Deliveries -> observations]; received is that of the delivery
          Sessions,
          Boundaries,   \* what `ledger checkpoint` may record
          Queued, Taken, \* deliveries and checkpoints from before the model starts
          Windows,      \* [since, until], of scopes
          Receipts,     \* calls of createReceipt
          Request       \* [Receipts -> Scopes]: --session with --since and --until

Scopes == [Sessions -> Windows \union {NoWindow}]

Fields == {"id", "logical", "session", "cwd", "repository", "event", "call", "process",
           "received", "occurred", "source", "sequence", "gaps"}

ASSUME ReceiptAssumption ==
    /\ DOMAIN Observed = Deliveries /\ IsFiniteSet(Deliveries)
    /\ \A d \in Deliveries :
         /\ DOMAIN Observed[d] = Fields
         /\ Observed[d].id \in Nat /\ Observed[d].received \in Nat
         /\ Observed[d].sequence \in Nat \union {NoSequence}
    /\ \A d \in Deliveries : Observed[d].source \/ Observed[d].occurred = Observed[d].received
    /\ \A d, e \in Deliveries : Observed[d].id = Observed[e].id =>
         /\ \A field \in DOMAIN Observed[d] \ {"received", "occurred"} :
              Observed[d][field] = Observed[e][field]
         /\ Observed[d].source => Observed[d].occurred = Observed[e].occurred
    /\ Queued \subseteq Deliveries /\ Taken \subseteq Boundaries
    /\ NoWindow \notin Windows /\ Request \in [Receipts -> Scopes]

VARIABLES files,        \* in the inbox; the failure directory holds no observations
          recorded,     \* codex_deliveries
          checkpoints,  \* ledger_checkpoints of kinds start and end
          scopes,       \* change_observation_scopes
          registered,   \* the server: keys, by the receipt that they are for
          evidence,     \* what a call has gathered, and then the stored artifact
          pc, asked     \* its other locals

ledgerVars == <<files, recorded, checkpoints>>
callVars   == <<evidence, pc, asked>>
vars == <<ledgerVars, scopes, registered, callVars>>

\* known is not in the code: what had been delivered when the snapshot was taken.
Empty == [observations |-> {}, checkpoints |-> {}, coverage |-> {}, pending |-> 0, known |-> {}]

Reports(D) == {Observed[d] : d \in D}
Inputs(all, o) == {p \in all : p.id = o.id}
First(all) == {o \in all : \A p \in Inputs(all, o) : o.received <= p.received}

\* The merge of saveDelivery: one observation for each id, with its first receipt.
Merged(D) == First(Reports(D))

Inserted(D, d) ==
    CHOOSE e \in D : Observed[e].id = Observed[d].id /\ Observed[e] \in First(Reports(D))

\* Which delivery of an input, and which input of an event, comes first does not
\* matter to Coverage: it counts the others.
Disposition(D, d) ==
    IF d # Inserted(D, d) THEN "duplicate"
    ELSE IF \E e \in D : /\ Observed[e].logical = Observed[d].logical
                         /\ Observed[e].id < Observed[d].id THEN "conflict"
    ELSE "accepted"

LedgerOf(D, C, S) ==
    [observations |-> Merged(D), checkpoints |-> C, scopes |-> S, gaps |-> {},
     deliveries |-> {[delivery |-> d, observation |-> Observed[d].id,
                      disposition |-> Disposition(D, d)] : d \in D}]

Ledger == LedgerOf(recorded, checkpoints, scopes)

TypeOK ==
    /\ files \subseteq Deliveries /\ recorded \subseteq Deliveries
    /\ checkpoints \subseteq Boundaries
    /\ scopes \in Scopes /\ registered \subseteq Receipts
    /\ DOMAIN evidence = Receipts
    /\ \A r \in Receipts :
         /\ evidence[r].observations \subseteq {Observed[d] : d \in Deliveries}
         /\ evidence[r].checkpoints \subseteq Boundaries
         /\ evidence[r].pending \in 0 .. Cardinality(Deliveries)
         /\ evidence[r].known \subseteq Deliveries
    /\ pc \in [Receipts -> {"build", "correlate", "rows", "inspect", "register", "sign",
                            "saved", "failed"}]
    /\ asked \in [Receipts -> SUBSET Sessions]

Init ==
    /\ files = Queued /\ recorded = {} /\ checkpoints = Taken
    /\ scopes = [s \in Sessions |-> NoWindow]
    /\ registered = {}
    /\ evidence = [r \in Receipts |-> Empty]
    /\ pc = [r \in Receipts |-> "build"] /\ asked = [r \in Receipts |-> {}]

-----------------------------------------------------------------------------
\* The ledger

LedgerOnly == UNCHANGED <<scopes, registered, callVars>>

Deliver(d) ==
    /\ d \notin files \union recorded
    /\ files' = files \union {d}
    /\ UNCHANGED <<recorded, checkpoints>> /\ LedgerOnly

Record(d) ==
    /\ d \in files \ recorded
    /\ recorded' = recorded \union {d}
    /\ UNCHANGED <<files, checkpoints>> /\ LedgerOnly

Remove(d) ==
    /\ d \in files \intersect recorded
    /\ files' = files \ {d}
    /\ UNCHANGED <<recorded, checkpoints>> /\ LedgerOnly

TakeCheckpoint(b) ==
    /\ b \notin checkpoints
    /\ checkpoints' = checkpoints \union {b}
    /\ UNCHANGED <<files, recorded>> /\ LedgerOnly

\* `ledger correlate`
CorrelateCommand(s, w) ==
    /\ scopes' = [scopes EXCEPT ![s] = w]
    /\ UNCHANGED <<ledgerVars, registered, callVars>>

-----------------------------------------------------------------------------
\* createReceipt

Goto(r, label) == pc' = [pc EXCEPT ![r] = label]

\* The revision is built from Git, verified, and put into the ledger.
Build(r) ==
    /\ pc[r] = "build"
    /\ asked' = [asked EXCEPT ![r] = {s \in Sessions : Request[r][s] # NoWindow}]
    /\ Goto(r, "correlate")
    /\ UNCHANGED <<ledgerVars, scopes, registered, evidence>>

\* One upsert for each session that was asked for.
Correlate(r) ==
    /\ pc[r] = "correlate"
    /\ \E s \in asked[r] :
         /\ scopes' = [scopes EXCEPT ![s] = Request[r][s]]
         /\ asked' = [asked EXCEPT ![r] = @ \ {s}]
    /\ UNCHANGED <<ledgerVars, registered, evidence, pc>>

\* ReceiptSnapshot: a transaction, whose snapshot is that of its first query.
ReadCoverage(r) ==
    /\ pc[r] = "correlate" /\ asked[r] = {}
    /\ evidence' = [evidence EXCEPT ![r] =
         [observations |-> Merged(recorded), checkpoints |-> checkpoints,
          coverage |-> CoverageOf(Ledger), pending |-> 0, known |-> files \union recorded]]
    /\ Goto(r, "rows")
    /\ UNCHANGED <<ledgerVars, scopes, registered, asked>>

OfScopes(S, coverage) == {x \in S : coverage.scopes[x.session] # NoWindow}

\* The rows come from the tables as they are by then.
ReadRows_NoTransaction(r) ==
    /\ pc[r] = "rows"
    /\ evidence' = [evidence EXCEPT
         ![r].observations = OfScopes(Merged(recorded), evidence[r].coverage),
         ![r].checkpoints = OfScopes(checkpoints, evidence[r].coverage)]
    /\ Goto(r, "inspect")
    /\ UNCHANGED <<ledgerVars, scopes, registered, asked>>

\* The rows of the sessions in scope, from that snapshot.
ReadRows(r) ==
    /\ pc[r] = "rows"
    /\ evidence' = [evidence EXCEPT
         ![r].observations = OfScopes(@, evidence[r].coverage),
         ![r].checkpoints = OfScopes(@, evidence[r].coverage)]
    /\ Goto(r, "inspect")
    /\ UNCHANGED <<ledgerVars, scopes, registered, asked>>

Unavailable == [code |-> "inbox_unavailable", session |-> NoSession]
Awaiting    == [code |-> "pending_inputs", session |-> NoSession]

Unreadable == {"configuration", "inbox", "failures"}
Seen(unread) == IF "inbox" \in unread THEN {} ELSE files

InspectInbox_Silent(r) ==
    /\ pc[r] = "inspect"
    /\ \E unread \in SUBSET Unreadable :
         evidence' = [evidence EXCEPT ![r].pending = Cardinality(Seen(unread)),
            ![r].coverage.reasons = @ \union IF Seen(unread) = {} THEN {} ELSE {Awaiting}]
    /\ Goto(r, "register")
    /\ UNCHANGED <<ledgerVars, scopes, registered, asked>>

\* The files that are found are counted.  What cannot be read is a reason, and a
\* directory that cannot be listed is passed over: neither is an error.
InspectInbox(r) ==
    /\ pc[r] = "inspect"
    /\ \E unread \in SUBSET Unreadable :
         evidence' = [evidence EXCEPT ![r].pending = Cardinality(Seen(unread)),
            ![r].coverage.reasons = @ \union (IF unread = {} THEN {} ELSE {Unavailable})
                                      \union (IF Seen(unread) = {} THEN {} ELSE {Awaiting})]
    /\ Goto(r, "register")
    /\ UNCHANGED <<ledgerVars, scopes, registered, asked>>

PrepareSigningKey(r) ==
    /\ pc[r] = "register"
    /\ registered' = registered \union {r}
    /\ Goto(r, "sign")
    /\ UNCHANGED <<ledgerVars, scopes, evidence, asked>>

\* NewArtifact, which verifies what it made, and SaveSignedReceipt.
SaveReceipt(r) ==
    /\ pc[r] = "sign"
    /\ Goto(r, "saved")
    /\ UNCHANGED <<ledgerVars, scopes, registered, evidence, asked>>

\* Any error, and any kill.  Scopes that were stored and a key that was registered
\* stay; the private key is gone.
CreateFails(r) ==
    /\ pc[r] \notin {"saved", "failed"}
    /\ evidence' = [evidence EXCEPT ![r] = Empty] /\ asked' = [asked EXCEPT ![r] = {}]
    /\ Goto(r, "failed")
    /\ UNCHANGED <<ledgerVars, scopes, registered>>

Create(r) ==
    \/ Build(r) \/ Correlate(r) \/ ReadCoverage(r) \/ ReadRows(r) \/ InspectInbox(r)
    \/ PrepareSigningKey(r) \/ SaveReceipt(r) \/ CreateFails(r)

Next ==
    \/ \E d \in Deliveries : Deliver(d) \/ Record(d) \/ Remove(d)
    \/ \E b \in Boundaries : TakeCheckpoint(b)
    \/ \E s \in Sessions, w \in Windows : CorrelateCommand(s, w)
    \/ \E r \in Receipts : Create(r)

Spec == Init /\ [][Next]_vars

-----------------------------------------------------------------------------
\* Properties

Saved(r) == pc[r] = "saved"

\* What links depend on.
RowsOf(observations, boundaries, windows) ==
    [observations |-> observations, checkpoints |-> boundaries, scopes |-> windows]
Rows == RowsOf(Merged(recorded), checkpoints, scopes)

\* The links of a receipt are exactly those that the observations, checkpoints and
\* scopes in the same receipt justify, although the processor and `ledger
\* checkpoint` write between the queries that gathered them.
EvidenceSelfContained ==
    \A r \in Receipts : Saved(r) =>
        LET e == evidence[r] IN
        e.coverage.links = Links(RowsOf(e.observations, e.checkpoints, e.coverage.scopes))

\* A receipt that reports no pending input, and no inbox that could not be inspected,
\* misses nothing that had been delivered when its snapshot was taken, but what the
\* ledger has by now: the inbox is inspected afterwards, so what was processed in
\* between shows in neither.  With an inbox that could not be inspected the receipt is
\* signed all the same, and its count may be 0 whatever waits there.
NothingHidden ==
    \A r \in Receipts :
        /\ Saved(r) /\ evidence[r].pending = 0
        /\ Unavailable \notin evidence[r].coverage.reasons
        => evidence[r].known \subseteq recorded

Rank(confidence) == CASE confidence = "unmatched" -> 0 [] confidence = "low" -> 1
                      [] confidence = "medium" -> 2    [] confidence = "high" -> 3

\* While the scopes stay, a further observation or checkpoint never lowers what is
\* said of an earlier observation, unless it is about the same event.
OnlyItsOwnEventWeakens ==
    [][<<recorded, checkpoints>>' # <<recorded, checkpoints>> /\ scopes' = scopes =>
         LET news == {Observed[d].logical : d \in recorded' \ recorded} IN
         \A earlier \in {Rows}, later \in {Rows'} : \A o \in earlier.observations :
           o.session \in Scoped(earlier) /\ o.logical \notin news =>
             Rank(Confidence(earlier, o)) <= Rank(Confidence(later, o))]_<<recorded, checkpoints>>

\* A number of the agent that is missing between those that a receipt covers is
\* reported in the same receipt, in whatever order they were received, as a jump or
\* as a disorder.
NoSilentGap ==
    \A r \in Receipts : Saved(r) =>
      LET e == evidence[r]
          L == RowsOf(e.observations, e.checkpoints, e.coverage.scopes) IN
      \A s \in Scoped(L) :
        LET numbers == {o.sequence : o \in Numbered(Matching(L, s))} IN
        (\E n \in numbers, m \in numbers : \E k \in n .. m : k \notin numbers) =>
            \E code \in {"sequence_gap", "out_of_order"} :
                [code |-> code, session |-> s] \in e.coverage.reasons
=================================================================================
