------------------------------ MODULE SessionSync ------------------------------
(***************************************************************************)
(* Delivery of captured sessions to the SaaS: the `secuarden sync` command *)
(* and the upload at the end of a session_end hook (cmd/sync.go,           *)
(* internal/upload/upload.go, internal/capture/handler.go and the          *)
(* session_sync_state table).                                              *)
(*                                                                         *)
(* CaptureStore shows that the events of a session are 1, 2, 3, ... and    *)
(* are never changed, so their number stands for all of them here.  What   *)
(* the session row adds to an envelope is its completeness verdict; it     *)
(* becomes partial in the transaction that stores a partial event.         *)
(*                                                                         *)
(* Sessions are numbered in the order of started_at, id.  The server is    *)
(* external: it may accept, refuse or lose a request, or accept it after   *)
(* the client has given up.                                                *)
(***************************************************************************)
EXTENDS Naturals, FiniteSets

CONSTANTS Sessions,
          Commands,    \* terminals in which `secuarden sync` runs, again and again
          EndHooks,    \* session_end hooks, each of which uploads once
          SessionOf,   \* [EndHooks -> Sessions]
          NoSession,
          Integrated,  \* sessions whose repository has an enabled integration
          Limit,       \* --limit
          Imperfect,   \* sessions that may store partial events
          MaxEvents,   \* bound on the events of each session
          MaxFaults    \* bound on failures

Workers == Commands \union EndHooks

ASSUME SyncAssumption ==
    /\ Sessions \subseteq Nat /\ Integrated \subseteq Sessions /\ Imperfect \subseteq Sessions
    /\ Commands \intersect EndHooks = {}
    /\ SessionOf \in [EndHooks -> Sessions] /\ NoSession \notin Sessions
    /\ Limit \in Nat \ {0} /\ MaxEvents \in [Sessions -> Nat] /\ MaxFaults \in Nat

VARIABLES stored,    \* number of events of each session
          flaw,      \* the sequence of its first partial event, 0 if there is none
          synced,    \* last_synced_event_count, 0 without a row
          pc, todo,  \* where each worker is, and the sessions it has still to upload
          listed,    \* the event counts in the list it started from
          job, row, count, \* the envelope it is building: session, verdict, events
          received,  \* envelopes the server has accepted
          late,      \* requests still under way that their client gave up
          faults     \* failures so far

storeVars  == <<stored, flaw>>
planVars   == <<todo, listed>>
envVars    == <<job, row, count>>
serverVars == <<received, late>>
vars == <<storeVars, synced, pc, planVars, envVars, serverVars, faults>>

Envelope == [session : Sessions, count : Nat, partial : BOOLEAN]
EnvelopeOf(u) == [session |-> job[u], count |-> count[u], partial |-> row[u]]

NoList == [s \in Sessions |-> 0]

TypeOK ==
    /\ stored \in [Sessions -> Nat] /\ flaw \in [Sessions -> Nat]
    /\ synced \in [Sessions -> Nat]
    /\ pc \in [Workers -> {"idle", "working", "row", "read", "posted", "accepted",
                           "complete", "error", "gone"}]
    /\ todo \in [Workers -> SUBSET Sessions]
    /\ listed \in [Workers -> [Sessions -> Nat]]
    /\ job \in [Workers -> Sessions \union {NoSession}]
    /\ row \in [Workers -> BOOLEAN] /\ count \in [Workers -> Nat]
    /\ received \in SUBSET Envelope /\ late \in SUBSET Envelope
    /\ faults \in 0 .. MaxFaults

Init ==
    /\ stored = [s \in Sessions |-> 0] /\ flaw = [s \in Sessions |-> 0]
    /\ synced = [s \in Sessions |-> 0]
    /\ pc = [u \in Workers |-> "idle"]
    /\ todo = [u \in Workers |-> {}]
    /\ listed = [u \in Workers |-> NoList]
    /\ job = [u \in Workers |-> NoSession]
    /\ row = [u \in Workers |-> FALSE] /\ count = [u \in Workers |-> 0]
    /\ received = {} /\ late = {} /\ faults = 0

Goto(u, label) == pc' = [pc EXCEPT ![u] = label]
Stop(u, label) == Goto(u, IF u \in EndHooks THEN "gone" ELSE label)

\* The variables of a worker that are no longer in scope.
ForgetEnvelope(u) ==
    /\ job' = [job EXCEPT ![u] = NoSession]
    /\ row' = [row EXCEPT ![u] = FALSE] /\ count' = [count EXCEPT ![u] = 0]
GiveUp(u) ==
    /\ Stop(u, "error") /\ ForgetEnvelope(u)
    /\ todo' = [todo EXCEPT ![u] = {}] /\ listed' = [listed EXCEPT ![u] = NoList]

Fault == faults < MaxFaults /\ faults' = faults + 1

-----------------------------------------------------------------------------
\* Capture, as CaptureStore describes it in detail

CaptureEvent(s, partial) ==
    /\ stored[s] < MaxEvents[s] /\ (partial => s \in Imperfect)
    /\ stored' = [stored EXCEPT ![s] = @ + 1]
    /\ flaw' = [flaw EXCEPT ![s] = IF partial /\ @ = 0 THEN stored[s] + 1 ELSE @]
    /\ UNCHANGED <<synced, pc, planVars, envVars, serverVars, faults>>

-----------------------------------------------------------------------------
\* A worker

IsPending(s) == stored[s] > synced[s]

\* ORDER BY started_at, id LIMIT Limit
Oldest(S) == {s \in S : Cardinality({t \in S : t < s}) < Limit}

SyncList(u, list) ==
    /\ u \in Commands /\ pc[u] \in {"idle", "complete", "error"}
    /\ todo' = [todo EXCEPT ![u] = list]
    /\ listed' = [listed EXCEPT ![u] = [s \in Sessions |-> IF s \in list THEN stored[s] ELSE 0]]
    /\ Goto(u, "working")
    /\ UNCHANGED <<storeVars, synced, envVars, serverVars, faults>>

\* runSync with the list of ListPendingSyncSessions, one query, or with --session.
SyncPending(u) == SyncList(u, Oldest({s \in Sessions : IsPending(s)}))
SyncOne(u) == \E s \in Sessions : stored[s] > 0 /\ SyncList(u, {s})

\* syncOnSessionEnd, after the hook has stored its own event.
StartHook(u) ==
    /\ u \in EndHooks /\ pc[u] = "idle" /\ stored[SessionOf[u]] > 0
    /\ todo' = [todo EXCEPT ![u] = {SessionOf[u]}]
    /\ Goto(u, "working")
    /\ UNCHANGED <<storeVars, synced, listed, envVars, serverVars, faults>>

Complete(u) ==
    /\ u \in Commands /\ pc[u] = "working" /\ todo[u] = {}
    /\ Goto(u, "complete")
    /\ UNCHANGED <<storeVars, synced, planVars, envVars, serverVars, faults>>

IsNext(u, s) == s \in todo[u] /\ \A t \in todo[u] : s <= t

\* ReadSessionEnvelope: the session row, and then the events, in two queries.
ReadRow(u) ==
    /\ pc[u] = "working"
    /\ \E s \in Sessions :
         /\ IsNext(u, s)
         /\ job' = [job EXCEPT ![u] = s]
         /\ row' = [row EXCEPT ![u] = flaw[s] > 0]
    /\ Goto(u, "row")
    /\ UNCHANGED <<storeVars, synced, planVars, count, serverVars, faults>>

ReadEvents_AsListed(u) ==
    /\ pc[u] = "row"
    /\ count' = [count EXCEPT ![u] = listed[u][job[u]]]
    /\ Goto(u, "read")
    /\ UNCHANGED <<storeVars, synced, planVars, job, row, serverVars, faults>>

ReadEvents(u) ==
    /\ pc[u] = "row"
    /\ count' = [count EXCEPT ![u] = stored[job[u]]]
    /\ Goto(u, "read")
    /\ UNCHANGED <<storeVars, synced, planVars, job, row, serverVars, faults>>

\* ForRepository fails closed: the command reports an error and ends, the hook
\* returns without a word.
NotIntegrated(u) ==
    /\ pc[u] = "read" /\ job[u] \notin Integrated
    /\ GiveUp(u)
    /\ UNCHANGED <<storeVars, synced, serverVars, faults>>

Post(u) ==
    /\ pc[u] = "read" /\ job[u] \in Integrated
    /\ Goto(u, "posted")
    /\ UNCHANGED <<storeVars, synced, planVars, envVars, serverVars, faults>>

Accept(u) ==
    /\ pc[u] = "posted"
    /\ received' = received \union {EnvelopeOf(u)}
    /\ Goto(u, "accepted")
    /\ UNCHANGED <<storeVars, synced, planVars, envVars, late, faults>>

UploadFails_Ignored(u) ==
    /\ pc[u] \in {"posted", "accepted"} /\ Fault
    /\ todo' = [todo EXCEPT ![u] = @ \ {job[u]}]
    /\ Stop(u, "working") /\ ForgetEnvelope(u)
    /\ UNCHANGED <<storeVars, synced, listed, serverVars>>

\* Refused, timed out, the answer is lost or unreadable, RecordSyncSuccess fails,
\* or the process is killed.  A request without an answer may still arrive.
\* RecordSyncFailure sets columns that nothing reads, and leaves the count alone.
UploadFails(u) ==
    /\ pc[u] \in {"posted", "accepted"} /\ Fault
    /\ late' \in {late} \union IF pc[u] = "posted" THEN {late \union {EnvelopeOf(u)}} ELSE {}
    /\ GiveUp(u)
    /\ UNCHANGED <<storeVars, synced, received>>

ArriveLate(e) ==
    /\ e \in late
    /\ late' = late \ {e} /\ received' = received \union {e}
    /\ UNCHANGED <<storeVars, synced, pc, planVars, envVars, faults>>

RecordSyncSuccess_Current(u) ==
    /\ pc[u] = "accepted"
    /\ synced' = [synced EXCEPT ![job[u]] = stored[job[u]]]
    /\ todo' = [todo EXCEPT ![u] = @ \ {job[u]}]
    /\ Stop(u, "working") /\ ForgetEnvelope(u)
    /\ UNCHANGED <<storeVars, listed, serverVars, faults>>

RecordSyncSuccess_FirstOnly(u) ==
    /\ pc[u] = "accepted"
    /\ synced' = [synced EXCEPT ![job[u]] = IF @ = 0 THEN count[u] ELSE @]
    /\ todo' = [todo EXCEPT ![u] = @ \ {job[u]}]
    /\ Stop(u, "working") /\ ForgetEnvelope(u)
    /\ UNCHANGED <<storeVars, listed, serverVars, faults>>

\* The answer is 200 or 201: INSERT ... ON CONFLICT DO UPDATE, whatever the
\* row says by now.
RecordSyncSuccess(u) ==
    /\ pc[u] = "accepted"
    /\ synced' = [synced EXCEPT ![job[u]] = count[u]]
    /\ todo' = [todo EXCEPT ![u] = @ \ {job[u]}]
    /\ Stop(u, "working") /\ ForgetEnvelope(u)
    /\ UNCHANGED <<storeVars, listed, serverVars, faults>>

\* A read fails, or the process is killed before it posts.
Abort(u) ==
    /\ pc[u] \in {"working", "row", "read"} /\ Fault
    /\ GiveUp(u)
    /\ UNCHANGED <<storeVars, synced, serverVars>>

Step(u) ==
    \/ SyncPending(u) \/ StartHook(u) \/ Complete(u)
    \/ ReadRow(u) \/ ReadEvents(u) \/ NotIntegrated(u) \/ Post(u)
    \/ Accept(u) \/ RecordSyncSuccess(u)

Next ==
    \/ \E s \in Sessions, partial \in BOOLEAN : CaptureEvent(s, partial)
    \/ \E u \in Workers : Step(u) \/ SyncOne(u) \/ UploadFails(u) \/ Abort(u)
    \/ \E e \in late : ArriveLate(e)

Spec == Init /\ [][Next]_vars

\* The user runs a plain `secuarden sync` again and again, its process keeps
\* running, and the server answers it.
FairSpec == Spec /\ \A u \in Commands : WF_vars(Step(u)) /\ SF_vars(SyncPending(u))

-----------------------------------------------------------------------------
\* Properties

\* The server has accepted an envelope of s with at least n events.
Delivered(s, n) == \E e \in received : e.session = s /\ e.count >= n

\* last_synced_event_count is the count of an envelope that the server accepted,
\* although events are captured, requests time out and other uploads of the
\* session end in the meantime: an event that is not pending was delivered.
SyncedIsDelivered ==
    \A s \in Sessions :
        /\ synced[s] <= stored[s]
        /\ synced[s] > 0 => \E e \in received : e.session = s /\ e.count = synced[s]

\* A `secuarden sync` that reports success has delivered every event that was
\* pending when it listed the sessions.
CompleteMeansDelivered ==
    \A u \in Commands : pc[u] = "complete" =>
        \A s \in Sessions : listed[u][s] > 0 => Delivered(s, listed[u][s])

\* An envelope that calls its session partial carries the event that made it so,
\* although the verdict and the events are read by two queries in no transaction.
PartialIsExplained ==
    \A e \in received : e.partial => flaw[e.session] \in 1 .. e.count

\* An older session waits whose repository has no integration: it will never be
\* uploaded, and every pass ends there (GiveUp).
Blocked(s) == \E t \in Sessions \ Integrated : t < s /\ IsPending(t)

\* `secuarden sync`, run again and again, uploads every pending session whose
\* repository has an integration, although captures go on and some uploads fail, unless an
\* older session without one starves it: a pass takes the sessions by age and ends at
\* the first error.
IntegratedGetDelivered ==
    \A s \in Integrated : IsPending(s) ~> ~IsPending(s) \/ Blocked(s)
=============================================================================
