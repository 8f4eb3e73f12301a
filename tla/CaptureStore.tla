----------------------------- MODULE CaptureStore -----------------------------
(***************************************************************************)
(* The capture path: hook processes writing into one SQLite database       *)
(* (internal/capture/handler.go, internal/storage/database.go).            *)
(*                                                                         *)
(* Every hook an agent fires is a process of its own.  It ensures the      *)
(* session row, reads the history of the session, scans the worktree,      *)
(* appends one event under BEGIN IMMEDIATE, and, on session_end, closes    *)
(* the session and reconciles its completeness.  Processes interleave at   *)
(* every statement, may wait out the busy timeout, and may be killed.      *)
(*                                                                         *)
(* Data: an event is identified by the hook that wrote it (its id is a     *)
(* fresh UUID and a hook writes one event), and an event hash is injective,*)
(* so previous_event_hash is the id of the event whose hash it is.         *)
(*                                                                         *)
(* An operator Name_Variant is a mutated form of Name, a plausible bug     *)
(* that shows a property can fail; the specification never uses it.        *)
(***************************************************************************)
EXTENDS Checkpoint, FiniteSets

CONSTANTS Hooks,       \* hook processes, in any number of sessions
          Sessions,
          SessionOf,   \* [Hooks -> Sessions]
          Attr,        \* [Hooks -> Attributes]
          OwnReasons,  \* [Hooks -> SUBSET Reasons]: reasons known before the checkpoint
          Order,       \* <<g, h>>: the agent starts h only after g's process is gone
          Scans,       \* the scans a hook may obtain
          Fallible,    \* hooks whose reads, validation or insert may fail
          Mortal,      \* hooks that may be killed
          NoHook       \* no event, no lock holder

ASSUME CaptureAssumption ==
    /\ IsFiniteSet(Hooks) /\ NoHook \notin Hooks
    /\ SessionOf \in [Hooks -> Sessions]
    /\ Attr \in [Hooks -> Attributes]
    /\ Order \subseteq Hooks \X Hooks
    /\ Scans \subseteq Scan
    /\ Fallible \subseteq Hooks /\ Mortal \subseteq Hooks

Reasons == {"missing_invocation_id", "adapter_field_unavailable", "patch_parse_failed",
            "repository_checkpoint_incomplete", "missing_pre_event",
            "missing_post_event", "capture_error"}

ASSUME ReasonsAssumption == OwnReasons \in [Hooks -> SUBSET Reasons]

VARIABLES pc,        \* where each hook process is
          lock,      \* the hook holding SQLite's write lock between two of its statements
          events,    \* committed rows of the events table
          \* the sessions table: its rows, those with ended_at set, and columns
          sessions, ended, count, failures,
          verdict,   \* completeness_reasons; completeness_state is partial iff not empty
          \* what CheckpointContext returned to each hook
          baseline, previous,
          unread,    \* the hooks for which it returned an error
          \* the event each hook is about to store
          checkpoint, reasons, sequence, link,
          \* what ReconcileSessionCompleteness has read
          readIds, readFailures

sessionVars == <<sessions, ended, count, failures, verdict>>
contextVars == <<baseline, previous, unread>>
draftVars   == <<checkpoint, reasons, sequence, link>>
readVars    == <<readIds, readFailures>>
vars == <<pc, lock, events, sessionVars, contextVars, draftVars, readVars>>

Running == {"ensured", "baseline", "history", "ready", "locked", "allocated",
            "failed", "stored", "ended", "reconciling", "reconciled"}
Exited  == {"done", "unrecorded", "unreconciled", "killed"}

EventRow ==
    [id : Hooks, session : Sessions, sequence : Nat, previous : Hooks \union {NoHook},
     reasons : SUBSET Reasons, checkpoint : CheckpointRecord]

TypeOK ==
    /\ pc \in [Hooks -> {"idle"} \union Running \union Exited]
    /\ lock \in Hooks \union {NoHook}
    /\ events \in SUBSET EventRow /\ IsFiniteSet(events)
    /\ sessions \subseteq Sessions /\ ended \subseteq Sessions
    /\ count \in [Sessions -> Nat] /\ failures \in [Sessions -> Nat]
    /\ verdict \in [Sessions -> SUBSET Reasons]
    /\ baseline \in [Hooks -> Hooks \union {NoHook}]
    /\ previous \in [Hooks -> Hooks \union {NoHook}]
    /\ unread \subseteq Hooks
    /\ checkpoint \in [Hooks -> CheckpointRecord]
    /\ reasons \in [Hooks -> SUBSET Reasons]
    /\ sequence \in [Hooks -> Nat]
    /\ link \in [Hooks -> Hooks \union {NoHook}]
    /\ readIds \in [Hooks -> SUBSET Hooks] /\ readFailures \in [Hooks -> Nat]

Init ==
    /\ pc = [h \in Hooks |-> "idle"]
    /\ lock = NoHook
    /\ events = {}
    /\ sessions = {} /\ ended = {}
    /\ count = [s \in Sessions |-> 0] /\ failures = [s \in Sessions |-> 0]
    /\ verdict = [s \in Sessions |-> {}]
    /\ baseline = [h \in Hooks |-> NoHook] /\ previous = [h \in Hooks |-> NoHook]
    /\ unread = {}
    /\ checkpoint = [h \in Hooks |-> NoCheckpoint] /\ reasons = [h \in Hooks |-> {}]
    /\ sequence = [h \in Hooks |-> 0] /\ link = [h \in Hooks |-> NoHook]
    /\ readIds = [h \in Hooks |-> {}] /\ readFailures = [h \in Hooks |-> 0]

-----------------------------------------------------------------------------
\* Queries

EventsOf(s) == {e \in events : e.session = s}
Row(id) == CHOOSE e \in events : e.id = id
PhaseOf(e) == Attr[e.id].phase

\* ORDER BY sequence DESC LIMIT 1
IsLast(e, s) == e \in EventsOf(s) /\ \A d \in EventsOf(s) : d.sequence <= e.sequence
LastEvent(s) == CHOOSE e \in events : IsLast(e, s)
LastId(s) == IF EventsOf(s) = {} THEN NoHook ELSE LastEvent(s).id
LastSequence(s) == IF EventsOf(s) = {} THEN 0 ELSE LastEvent(s).sequence

\* The earliest session_start event.
Starts(s) == {e \in EventsOf(s) : PhaseOf(e) = "session_start"}
IsFirstStart(e, s) == e \in Starts(s) /\ \A d \in Starts(s) : e.sequence <= d.sequence
BaselineId(s) ==
    IF Starts(s) = {} THEN NoHook ELSE (CHOOSE e \in events : IsFirstStart(e, s)).id

View(id) ==
    IF id = NoHook THEN NoHistory
    ELSE [stored |-> TRUE, sequence |-> Row(id).sequence, phase |-> Attr[id].phase,
          invocation |-> Attr[id].invocation, tool |-> Attr[id].tool,
          checkpoint |-> Row(id).checkpoint]

Goto(h, label) == pc' = [pc EXCEPT ![h] = label]
WriteFree == lock = NoHook

-----------------------------------------------------------------------------
\* EnsureSession: INSERT OR IGNORE, one statement.  The identity columns that
\* UpdateSessionIdentity sets next, ignoring its error, are not tracked.
EnsureSession(h) ==
    /\ pc[h] = "idle" /\ WriteFree
    /\ \A g \in Hooks : <<g, h>> \in Order => pc[g] \in Exited
    /\ sessions' = sessions \union {SessionOf[h]}
    /\ Goto(h, "ensured")
    /\ UNCHANGED <<lock, events, ended, count, failures, verdict>>
    /\ UNCHANGED <<contextVars, draftVars, readVars>>

\* The busy timeout expires, or another error: fatal except on session_end.
EnsureFails(h) ==
    /\ pc[h] = "idle" /\ (~WriteFree \/ h \in Fallible)
    /\ \A g \in Hooks : <<g, h>> \in Order => pc[g] \in Exited
    /\ Goto(h, IF Attr[h].phase = "session_end" THEN "ensured" ELSE "unrecorded")
    /\ UNCHANGED <<lock, events, sessionVars, contextVars, draftVars, readVars>>

\* addCheckpoint returns at once for the phases that take no checkpoint.
SkipCheckpoint(h) ==
    /\ pc[h] = "ensured" /\ Attr[h].phase \notin CheckpointedPhases
    /\ reasons' = [reasons EXCEPT ![h] = OwnReasons[h]]
    /\ Goto(h, "ready")
    /\ UNCHANGED <<lock, events, sessionVars, contextVars, readVars>>
    /\ UNCHANGED <<checkpoint, sequence, link>>

\* CheckpointContext: two reads, in no transaction; an error of the first
\* leaves both unset.
ReadBaseline(h) ==
    /\ pc[h] = "ensured" /\ Attr[h].phase \in CheckpointedPhases
    /\ baseline' = [baseline EXCEPT ![h] = BaselineId(SessionOf[h])]
    /\ Goto(h, "baseline")
    /\ UNCHANGED <<lock, events, sessionVars, previous, unread, draftVars, readVars>>

ReadPrevious(h) ==
    /\ pc[h] = "baseline"
    /\ previous' = [previous EXCEPT ![h] = LastId(SessionOf[h])]
    /\ Goto(h, "history")
    /\ UNCHANGED <<lock, events, sessionVars, baseline, unread, draftVars, readVars>>

HistoryFails(h) ==
    /\ h \in Fallible /\ Attr[h].phase \in CheckpointedPhases
    /\ pc[h] \in {"ensured", "baseline"}
    /\ unread' = unread \union {h}
    /\ Goto(h, "history")
    /\ UNCHANGED <<lock, events, sessionVars, baseline, previous, draftVars, readVars>>

\* The scan, and addCheckpoint's verdict on it.
TakeCheckpoint(h) ==
    /\ pc[h] = "history"
    /\ \E scan \in Scans :
         checkpoint' = [checkpoint EXCEPT ![h] =
             BuildCheckpoint(Attr[h], scan, View(baseline[h]), View(previous[h]), h \in unread)]
    /\ reasons' = [reasons EXCEPT ![h] = OwnReasons[h] \union
         IF checkpoint'[h].status = "complete" THEN {} ELSE {"repository_checkpoint_incomplete"}]
    /\ Goto(h, "ready")
    /\ UNCHANGED <<lock, events, sessionVars, contextVars, sequence, link, readVars>>

-----------------------------------------------------------------------------
\* WriteEvent

BeginImmediate(h) ==
    /\ pc[h] = "ready" /\ WriteFree
    /\ lock' = h
    /\ Goto(h, "locked")
    /\ UNCHANGED <<events, sessionVars, contextVars, draftVars, readVars>>

BeginBusy(h) ==
    /\ pc[h] = "ready" /\ ~WriteFree
    /\ Goto(h, "failed")
    /\ UNCHANGED <<lock, events, sessionVars, contextVars, draftVars, readVars>>

\* The checkpoint was compared with another event than the latest one.
Overtaken(h) ==
    /\ checkpoint[h].status # "absent"
    /\ checkpoint[h].previous # LastSequence(SessionOf[h])

Allocate_NoDowngrade(h) ==
    /\ pc[h] = "locked"
    /\ sequence' = [sequence EXCEPT ![h] = LastSequence(SessionOf[h]) + 1]
    /\ link' = [link EXCEPT ![h] = LastId(SessionOf[h])]
    /\ Goto(h, "allocated")
    /\ UNCHANGED <<lock, events, sessionVars, contextVars, checkpoint, reasons, readVars>>

\* Without WHERE session_id = ?.
Allocate_AcrossSessions(h) ==
    /\ pc[h] = "locked"
    /\ sequence' = [sequence EXCEPT ![h] = Cardinality(events) + 1]
    /\ link' = [link EXCEPT ![h] = LastId(SessionOf[h])]
    /\ checkpoint' = [checkpoint EXCEPT ![h] = IF Overtaken(h) THEN Downgrade(@) ELSE @]
    /\ reasons' = [reasons EXCEPT ![h] =
         @ \union IF Overtaken(h) THEN {"repository_checkpoint_incomplete"} ELSE {}]
    /\ Goto(h, "allocated")
    /\ UNCHANGED <<lock, events, sessionVars, contextVars, readVars>>

\* MAX(sequence) + 1 and the hash of the latest event; an overtaken checkpoint
\* gives up its claims.
Allocate(h) ==
    /\ pc[h] = "locked"
    /\ sequence' = [sequence EXCEPT ![h] = LastSequence(SessionOf[h]) + 1]
    /\ link' = [link EXCEPT ![h] = LastId(SessionOf[h])]
    /\ checkpoint' = [checkpoint EXCEPT ![h] = IF Overtaken(h) THEN Downgrade(@) ELSE @]
    /\ reasons' = [reasons EXCEPT ![h] =
         @ \union IF Overtaken(h) THEN {"repository_checkpoint_incomplete"} ELSE {}]
    /\ Goto(h, "allocated")
    /\ UNCHANGED <<lock, events, sessionVars, contextVars, readVars>>

NewRow(h) ==
    [id |-> h, session |-> SessionOf[h], sequence |-> sequence[h],
     previous |-> link[h], reasons |-> reasons[h], checkpoint |-> checkpoint[h]]

\* Foreign key on sessions, unique (session_id, sequence).
Insertable(h) ==
    /\ SessionOf[h] \in sessions
    /\ \A e \in EventsOf(SessionOf[h]) : e.sequence # sequence[h]

\* INSERT, the two UPDATEs and COMMIT.
CommitEvent(h) ==
    /\ pc[h] = "allocated" /\ Insertable(h)
    /\ events' = events \union {NewRow(h)}
    /\ count' = [count EXCEPT ![SessionOf[h]] = @ + 1]
    /\ verdict' = [verdict EXCEPT ![SessionOf[h]] = IF reasons[h] # {} THEN reasons[h] ELSE @]
    /\ lock' = NoHook
    /\ Goto(h, IF Attr[h].phase = "session_end" THEN "stored" ELSE "done")
    /\ UNCHANGED <<sessions, ended, failures, contextVars, draftVars, readVars>>

RollBack_Forgotten(h) ==
    /\ pc[h] \in {"locked", "allocated"}
    /\ h \in Fallible \/ (pc[h] = "allocated" /\ ~Insertable(h))
    /\ Goto(h, "failed")
    /\ UNCHANGED <<lock, events, sessionVars, contextVars, draftVars, readVars>>

\* Any error after BEGIN IMMEDIATE: ROLLBACK.
RollBack(h) ==
    /\ pc[h] \in {"locked", "allocated"}
    /\ h \in Fallible \/ (pc[h] = "allocated" /\ ~Insertable(h))
    /\ lock' = NoHook
    /\ Goto(h, "failed")
    /\ UNCHANGED <<events, sessionVars, contextVars, draftVars, readVars>>

RecordCaptureFailure_Retried(h) ==
    /\ pc[h] = "failed" /\ WriteFree /\ SessionOf[h] \in sessions
    /\ failures' = [failures EXCEPT ![SessionOf[h]] = @ + 1]
    /\ verdict' = [verdict EXCEPT ![SessionOf[h]] = {"capture_error"}]
    /\ Goto(h, "ready")
    /\ UNCHANGED <<lock, events, sessions, ended, count, contextVars, draftVars, readVars>>

\* RecordCaptureFailure, its own transaction; its error is ignored.
RecordCaptureFailure(h) ==
    /\ pc[h] = "failed" /\ WriteFree /\ SessionOf[h] \in sessions
    /\ failures' = [failures EXCEPT ![SessionOf[h]] = @ + 1]
    /\ verdict' = [verdict EXCEPT ![SessionOf[h]] = {"capture_error"}]
    /\ Goto(h, "done")
    /\ UNCHANGED <<lock, events, sessions, ended, count, contextVars, draftVars, readVars>>

RecordFailureFails(h) ==
    /\ pc[h] = "failed"
    /\ ~WriteFree \/ SessionOf[h] \notin sessions \/ h \in Fallible
    /\ Goto(h, "unrecorded")
    /\ UNCHANGED <<lock, events, sessionVars, contextVars, draftVars, readVars>>

-----------------------------------------------------------------------------
\* EndSession and ReconcileSessionCompleteness

EndSession(h) ==
    /\ pc[h] = "stored" /\ WriteFree
    /\ ended' = ended \union {SessionOf[h]}
    /\ count' = [count EXCEPT ![SessionOf[h]] = Cardinality(EventsOf(SessionOf[h]))]
    /\ Goto(h, "ended")
    /\ UNCHANGED <<lock, events, sessions, failures, verdict, contextVars, draftVars, readVars>>

ReconcileEvents(h) ==
    /\ pc[h] = "ended"
    /\ readIds' = [readIds EXCEPT ![h] = {e.id : e \in EventsOf(SessionOf[h])}]
    /\ Goto(h, "reconciling")
    /\ UNCHANGED <<lock, events, sessionVars, contextVars, draftVars, readFailures>>

ReconcileFailures(h) ==
    /\ pc[h] = "reconciling"
    /\ readFailures' = [readFailures EXCEPT ![h] = failures[SessionOf[h]]]
    /\ Goto(h, "reconciled")
    /\ UNCHANGED <<lock, events, sessionVars, contextVars, draftVars, readIds>>

\* ids holds one half of some invocation and not the other.
Lacks(ids, half, other) ==
    \E i \in ids : /\ Attr[i].phase = other /\ Attr[i].invocation # Nothing
                   /\ ~ \E j \in ids : /\ Attr[j].phase = half
                                       /\ Attr[j].invocation = Attr[i].invocation

Verdict_PostsOnly(ids, failed) ==
    (UNION {e.reasons : e \in {d \in events : d.id \in ids}})
    \union {r \in {"missing_pre_event"} : Lacks(ids, "pre", "post")}
    \union {r \in {"capture_error"} : failed > 0}

Verdict(ids, failed) ==
    (UNION {e.reasons : e \in {d \in events : d.id \in ids}})
    \union {r \in {"missing_pre_event"} : Lacks(ids, "pre", "post")}
    \union {r \in {"missing_post_event"} : Lacks(ids, "post", "pre")}
    \union {r \in {"capture_error"} : failed > 0}

\* The verdict replaces whatever the row says by now.
ReconcileWrite(h) ==
    /\ pc[h] = "reconciled" /\ WriteFree
    /\ verdict' = [verdict EXCEPT ![SessionOf[h]] = Verdict(readIds[h], readFailures[h])]
    /\ Goto(h, "done")
    /\ UNCHANGED <<lock, events, sessions, ended, count, failures>>
    /\ UNCHANGED <<contextVars, draftVars, readVars>>

\* Busy on either update, or another error: the hook ignores that of EndSession.
EndFails(h) ==
    /\ \/ pc[h] \in {"stored", "reconciled"} /\ ~WriteFree
       \/ pc[h] \in {"stored", "ended", "reconciling", "reconciled"} /\ h \in Fallible
    /\ Goto(h, "unreconciled")
    /\ UNCHANGED <<lock, events, sessionVars, contextVars, draftVars, readVars>>

-----------------------------------------------------------------------------
\* The agent's hook timeout or a crash; SQLite rolls an open transaction back.
Kill(h) ==
    /\ h \in Mortal /\ pc[h] \in Running
    /\ lock' = IF lock = h THEN NoHook ELSE lock
    /\ Goto(h, "killed")
    /\ UNCHANGED <<events, sessionVars, contextVars, draftVars, readVars>>

Step(h) ==
    \/ EnsureSession(h) \/ EnsureFails(h)
    \/ SkipCheckpoint(h) \/ ReadBaseline(h) \/ ReadPrevious(h) \/ HistoryFails(h)
    \/ TakeCheckpoint(h)
    \/ BeginImmediate(h) \/ BeginBusy(h) \/ Allocate(h) \/ CommitEvent(h) \/ RollBack(h)
    \/ RecordCaptureFailure(h) \/ RecordFailureFails(h)
    \/ EndSession(h) \/ ReconcileEvents(h) \/ ReconcileFailures(h) \/ ReconcileWrite(h)
    \/ EndFails(h)

\* Every process has exited; anything else that cannot move is a deadlock.
Quiet == (\A h \in Hooks : pc[h] \in Exited) /\ UNCHANGED vars

Next == (\E h \in Hooks : Step(h) \/ Kill(h)) \/ Quiet

Spec == Init /\ [][Next]_vars

\* A process inside WriteEvent's transaction waits for nothing and runs on; no
\* other process has to move.
InTransaction == \E h \in Hooks : lock = h /\ Step(h)
FairSpec == Spec /\ WF_vars(InTransaction)

-----------------------------------------------------------------------------
\* Properties

\* The sequences of a session are unique and leave no gap below the latest:
\* WriteEvent allocates the next one and no other.
SequencesContiguous ==
    \A s \in Sessions : \A e \in EventsOf(s) :
        /\ e.sequence >= 1
        /\ \A d \in EventsOf(s) : d.sequence = e.sequence => d = e
        /\ e.sequence > 1 => \E d \in EventsOf(s) : d.sequence = e.sequence - 1

\* previous_event_hash is the hash of the event one sequence below in the same
\* session, and empty for the first: the chain verifyIntegrity will recompute.
ChainLinked ==
    \A s \in Sessions : \A e \in EventsOf(s) :
        IF e.sequence = 1 THEN e.previous = NoHook
        ELSE \E d \in EventsOf(s) : d.sequence = e.sequence - 1 /\ d.id = e.previous

\* event_count is the number of stored events, although WriteEvent increments it
\* and EndSession recounts it.
CountExact ==
    \A s \in Sessions : count[s] = Cardinality(EventsOf(s))

\* A stored checkpoint that says "complete" was compared with the event that
\* really precedes it, although the comparison was made before the sequence was
\* allocated.
CompleteIsAdjacent ==
    \A e \in events :
        e.checkpoint.status = "complete" => e.checkpoint.previous = e.sequence - 1

\* Whatever hooks overlap, fail, roll back or die, the rows of a session are a
\* log: contiguous, chained, counted, and compared with the row below.
LogSound == SequencesContiguous /\ ChainLinked /\ CountExact /\ CompleteIsAdjacent

\* The files that checkpoint c associates with the agent, and what justifies one
\* of them in an event with attributes a stored after p: the two enclose a
\* successful operation on the file, or p already made the association for the
\* very same file state.
Associated(c) == {f \in DOMAIN c.files : c.files[f].attribution = "agent_associated"}
Explains(p, a, f, c) ==
    \/ AttributedChange(a, f, View(p.id), c)
    \/ f \in DOMAIN p.checkpoint.files /\ p.checkpoint.files[f] = c.files[f]

\* A file is associated with the agent by event e only if the event stored just
\* before explains it, although e was compared with it before the transaction.
AttributionSound ==
    \A e \in events : \A f \in Associated(e.checkpoint) :
        \E p \in EventsOf(e.session) :
            p.sequence = e.sequence - 1 /\ Explains(p, Attr[e.id], f, e.checkpoint)

\* Every association can be traced back along the stored events: to one change
\* enclosed by a matching pair, with the file seen in the same state by every
\* event stored from there on.
Origin(k, p, f, e) ==
    /\ k.sequence <= e.sequence /\ p.sequence = k.sequence - 1
    /\ AttributedChange(Attr[k.id], f, View(p.id), k.checkpoint)
    /\ \A m \in EventsOf(e.session) :
         m.sequence \in k.sequence .. e.sequence =>
           f \in DOMAIN m.checkpoint.files /\ m.checkpoint.files[f] = e.checkpoint.files[f]

AttributionTraceable ==
    \A e \in events : \A f \in Associated(e.checkpoint) :
        \E k, p \in EventsOf(e.session) : Origin(k, p, f, e)

\* The session row agrees with the evidence.  Until a session_end hook has
\* reconciled it, the row is partial exactly when a stored event is partial or a
\* capture failed; and once a reconciliation has read everything there is, it
\* is partial exactly when an event is partial, a capture failed or a half of an
\* invocation is missing.
Partial(s) == verdict[s] # {}
Ids(s) == {e.id : e \in EventsOf(s)}
Unpaired(s) == Lacks(Ids(s), "pre", "post") \/ Lacks(Ids(s), "post", "pre")
Reported(s) == failures[s] > 0 \/ \E e \in EventsOf(s) : e.reasons # {}
Reconcilers(s) ==
    {h \in Hooks : SessionOf[h] = s /\ Attr[h].phase = "session_end" /\ pc[h] = "done"}
UpToDate(h) ==
    LET s == SessionOf[h]
    IN readIds[h] = Ids(s) /\ readFailures[h] = failures[s]

VerdictCurrent ==
    \A s \in Sessions :
        /\ Reconcilers(s) = {} => (Partial(s) <=> Reported(s))
        /\ Reconcilers(s) # {} /\ (\A h \in Reconcilers(s) : UpToDate(h)) =>
             (Partial(s) <=> Reported(s) \/ Unpaired(s))

\* The contract of the evidence: a session with a capture failure is partial.
\* RecordCaptureFailure makes it so; a reconciliation that read the failure
\* count before overwrites it.
FailureMakesPartial ==
    \A s \in Sessions : failures[s] > 0 => Partial(s)

\* No hook keeps the write lock for ever, whether its transaction commits, fails
\* or dies: the database is again and again writable for the others.
LockReleased == []<>(lock = NoHook)

\* The store implements the abstract log.
LogOf(s) ==
    [i \in 1 .. Cardinality(EventsOf(s)) |->
       (CHOOSE e \in EventsOf(s) : e.sequence = i).id]
FateOf(h) ==
    IF \E e \in events : e.id = h THEN "kept"
    ELSE IF pc[h] \in Exited \union {"failed"} THEN "lost" ELSE "open"

Abstract == INSTANCE EventLog WITH
    Captures <- Hooks,
    log <- [s \in Sessions |-> LogOf(s)],
    fate <- [h \in Hooks |-> FateOf(h)]

ImplementsEventLog == Abstract!Spec

\* What the uploads of SessionSync may rely on.  They only read, so they are left out.
FirstPartial(s) ==
    LET partial == {e.sequence : e \in {d \in EventsOf(s) : d.reasons # {}}}
    IN  IF partial = {} THEN 0 ELSE CHOOSE n \in partial : \A m \in partial : n <= m

Sync == INSTANCE SessionSync WITH
    Commands <- {}, EndHooks <- {}, SessionOf <- [u \in {} |-> NoHook], NoSession <- NoHook,
    Integrated <- {}, Limit <- 1, Imperfect <- Sessions, MaxFaults <- 0,
    MaxEvents <- [s \in Sessions |-> Cardinality(Hooks)],
    stored <- [s \in Sessions |-> Cardinality(EventsOf(s))],
    flaw <- [s \in Sessions |-> FirstPartial(s)],
    synced <- [s \in Sessions |-> 0],
    pc <- [u \in {} |-> "idle"], todo <- [u \in {} |-> {}],
    listed <- [u \in {} |-> [s \in Sessions |-> 0]], job <- [u \in {} |-> NoHook],
    row <- [u \in {} |-> FALSE], count <- [u \in {} |-> 0],
    received <- {}, late <- {}, faults <- 0

\* The events that SessionSync counts are those of the store: a session gets one more
\* at a time, none is taken away, and once one is partial the first that is stays the
\* same and is as far into the envelope as its sequence says.
FeedsSync == Sync!Spec
-----------------------------------------------------------------------------
\* The inductive invariant behind SequencesContiguous and ChainLinked

\* The write lock is held exactly by the process inside WriteEvent's transaction.
LockHeld == \A h \in Hooks : pc[h] \in {"locked", "allocated"} <=> lock = h

\* What was allocated inside the transaction is still the next position, and a
\* checkpoint that kept its claims was compared with the position below.
SlotCurrent ==
    \A h \in Hooks : pc[h] = "allocated" =>
        /\ sequence[h] = LastSequence(SessionOf[h]) + 1
        /\ link[h] = LastId(SessionOf[h])
        /\ checkpoint[h].status = "complete" => checkpoint[h].previous = sequence[h] - 1

\* A hook writes one row, in its own session, and only by committing.
RowPerHook ==
    \A e \in events :
        /\ e.session = SessionOf[e.id]
        /\ pc[e.id] \in {"stored", "ended", "reconciling", "reconciled"} \union Exited
        /\ \A d \in events : d.id = e.id => d = e

\* MAX(sequence) and the earliest session_start exist.
HasEnds ==
    \A s \in Sessions :
        /\ EventsOf(s) # {} => \E e \in events : IsLast(e, s)
        /\ Starts(s) # {} => \E e \in events : IsFirstStart(e, s)

\* The ids that a hook read are those of stored events.
HistoryStored ==
    \A h \in Hooks : \A id \in {baseline[h], previous[h]} :
        id # NoHook => \E e \in EventsOf(SessionOf[h]) : e.id = id

\* Together they are inductive: no two hooks can hold one sequence, nor can a
\* row, once committed, be superseded as predecessor by an uncommitted one.
StoreInv ==
    /\ TypeOK /\ LockHeld /\ SlotCurrent /\ RowPerHook /\ HasEnds /\ HistoryStored
    /\ SequencesContiguous /\ ChainLinked /\ CountExact /\ CompleteIsAdjacent

\* A draft c of hook h associates a file with the agent only if it was compared
\* with a stored event that explains it.
Explained(h, c) ==
    Associated(c) # {} =>
        /\ c.status # "absent"
        /\ \A f \in Associated(c) : \E p \in EventsOf(SessionOf[h]) :
             p.sequence = c.previous /\ Explains(p, Attr[h], f, c)

\* That event is the one below the position the hook allocated.
DraftExplained ==
    \A h \in Hooks :
        /\ Explained(h, checkpoint[h])
        /\ pc[h] = "allocated" /\ Associated(checkpoint[h]) # {} =>
             checkpoint[h].previous = sequence[h] - 1

\* Inductive relative to StoreInv: an association enters the log only with its
\* explanation just below it.
AttributionInv == DraftExplained /\ AttributionSound /\ AttributionTraceable
=============================================================================
