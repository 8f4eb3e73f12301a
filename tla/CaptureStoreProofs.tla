-------------------------- MODULE CaptureStoreProofs --------------------------
(***************************************************************************)
(* The event store keeps its types, its sequences contiguous, its hash     *)
(* chain linked, its counts exact and its complete checkpoints adjacent,   *)
(* for any number of hooks, sessions and files, any order in which the     *)
(* agent starts the hooks, and any of them failing or dying at any point.  *)
(* The session row agrees with the evidence, the store implements the      *)
(* abstract log, and what the log associates with the agent is explained   *)
(* by the events it holds.                                                 *)
(***************************************************************************)
EXTENDS CaptureStore, Sequences, FiniteSetTheorems, WellFoundedInduction, TLAPS

\* The places of a hook that has committed its event, or has given up.
Behind == {"stored", "ended", "reconciling", "reconciled"} \union Exited

InTx == {"locked", "allocated"}

\* What StoreInv says of the events table alone.
Logs == HasEnds /\ SequencesContiguous /\ ChainLinked /\ CompleteIsAdjacent

-----------------------------------------------------------------------------
\* Checkpoints are well formed.

EventView ==
    [stored : BOOLEAN, sequence : Nat, phase : Phases,
     invocation : Invocations \union {Nothing}, tool : Tools \union {Nothing},
     checkpoint : CheckpointRecord]

\* A map from some of the files to S is a listing.
LEMMA ListingIntro ==
    ASSUME NEW S, NEW F \in SUBSET Files, NEW m \in [F -> S]
    PROVE  m \in Listing(S)
  BY DEF Listing

\* A listing is a map from some of the files.
LEMMA ListingElim ==
    ASSUME NEW S, NEW m \in Listing(S)
    PROVE  /\ DOMAIN m \in SUBSET Files
           /\ m \in [DOMAIN m -> S]
           /\ \A f \in DOMAIN m : m[f] \in S
  <1>1. PICK F \in SUBSET Files : m \in [F -> S]
    BY DEF Listing
  <1>2. QED
    BY <1>1

\* The null checkpoint is a checkpoint.
LEMMA NoCheckpointType == NoCheckpoint \in CheckpointRecord
  <1>1. [f \in {} |-> Nothing] \in [{} -> FileState]
    OBVIOUS
  <1>2. NoCheckpoint.files \in Listing(FileState)
    BY <1>1, ListingIntro DEF NoCheckpoint
  <1>3. QED
    BY <1>2 DEF NoCheckpoint, CheckpointRecord

\* Downgrading keeps a checkpoint well formed: it only lowers the status and
\* the attributions.
LEMMA DowngradeType ==
    ASSUME NEW c \in CheckpointRecord
    PROVE  Downgrade(c) \in CheckpointRecord
  <1> DEFINE files == [f \in DOMAIN c.files |->
                IF c.files[f].attribution = "agent_associated"
                  THEN [c.files[f] EXCEPT !.attribution = "human_or_unattributed"]
                  ELSE c.files[f]]
  <1>1. c.files \in Listing(FileState)
    BY DEF CheckpointRecord
  <1>2. /\ DOMAIN c.files \in SUBSET Files
        /\ \A f \in DOMAIN c.files : c.files[f] \in FileState
    BY <1>1, ListingElim
  <1>3. ASSUME NEW x \in FileState
        PROVE  [x EXCEPT !.attribution = "human_or_unattributed"] \in FileState
    BY DEF FileState, Attributions
  <1>4. files \in [DOMAIN c.files -> FileState]
    BY <1>2, <1>3
  <1>5. files \in Listing(FileState)
    BY <1>2, <1>4, ListingIntro
  <1>6. Downgrade(c) = [[c EXCEPT !.status = "partial"] EXCEPT !.files = files]
    BY DEF Downgrade
  <1>7. QED
    BY <1>5, <1>6 DEF CheckpointRecord

\* A downgraded checkpoint is not complete and associates nothing with the agent.
LEMMA DowngradeEffect ==
    ASSUME NEW c \in CheckpointRecord
    PROVE  /\ Downgrade(c).status = "partial"
           /\ \A f \in DOMAIN Downgrade(c).files :
                Downgrade(c).files[f].attribution # "agent_associated"
  <1>1. /\ DOMAIN c.files \in SUBSET Files
        /\ \A f \in DOMAIN c.files : c.files[f] \in FileState
    BY ListingElim DEF CheckpointRecord
  <1>2. ASSUME NEW x \in FileState
        PROVE  [x EXCEPT !.attribution = "human_or_unattributed"].attribution
                 = "human_or_unattributed"
    BY DEF FileState
  <1>3. QED
    BY <1>1, <1>2 DEF Downgrade, CheckpointRecord

\* addCheckpoint stores a well-formed checkpoint, whatever the scan saw and
\* whatever history it was compared with.
LEMMA BuildCheckpointType ==
    ASSUME NEW a \in Attributes, NEW scan \in Scan, NEW matched \in EventView,
           NEW prior \in EventView, NEW failed \in BOOLEAN
    PROVE  BuildCheckpoint(a, scan, matched, prior, failed) \in CheckpointRecord
  <1> DEFINE status == CheckpointStatus(a, scan, matched, prior, failed)
             old    == Before(scan, prior)
             seen   == Seen(scan, old)
             first  == FirstOfSession(a, prior, failed)
             paired == Paired(a, status, scan, prior)
             files  == [f \in DOMAIN seen |->
               [status |-> seen[f].status, digest |-> seen[f].digest, meta |-> seen[f].meta,
                attribution |-> Attribution(a, f, seen[f], old, first, paired)]]
             SeenState == [status : Statuses \union {"absent_from_capture_set"},
                           digest : Digests \union {Nothing}, meta : Metas \union {Nothing}]
  <1>1. status \in {"complete", "partial", "failed"}
    BY DEF CheckpointStatus, Scan
  <1>2. /\ DOMAIN scan.files \in SUBSET Files
        /\ \A f \in DOMAIN scan.files : scan.files[f] \in Observation
    BY ListingElim DEF Scan
  <1>3. old \in Listing(FileState)
    BY NoCheckpointType DEF Before, CheckpointRecord, EventView
  <1>4. /\ DOMAIN old \in SUBSET Files
        /\ \A f \in DOMAIN old : old[f] \in FileState
    BY <1>3, ListingElim
  <1>5. DOMAIN seen \in SUBSET Files
    BY <1>2, <1>4 DEF Seen
  <1>6. ASSUME NEW f \in DOMAIN seen
        PROVE  seen[f] \in SeenState
    BY <1>2, <1>6 DEF Seen, Observation
  <1>7. ASSUME NEW f \in DOMAIN seen
        PROVE  Attribution(a, f, seen[f], old, first, paired) \in Attributions
    <2>1. CASE first
      BY <2>1 DEF Attribution, Attributions
    <2>2. CASE ~first /\ f \in DOMAIN old /\ Unchanged(seen[f], old[f])
      <3>1. old[f].attribution \in Attributions
        BY <1>4, <2>2 DEF FileState
      <3>2. QED
        BY <2>2, <3>1 DEF Attribution
    <2>3. CASE ~first /\ ~(f \in DOMAIN old /\ Unchanged(seen[f], old[f]))
      BY <2>3 DEF Attribution, Attributions
    <2>4. QED
      BY <2>1, <2>2, <2>3
  <1>8. files \in [DOMAIN seen -> FileState]
    BY <1>6, <1>7 DEF FileState
  <1>9. files \in Listing(FileState)
    BY <1>5, <1>8, ListingIntro
  <1>10. /\ prior.sequence \in Nat
         /\ scan.root \in Roots \union {Nothing} /\ scan.head \in Heads \union {Nothing}
    BY DEF EventView, Scan
  <1>11. BuildCheckpoint(a, scan, matched, prior, failed) =
           [status |-> status, previous |-> prior.sequence,
            root |-> scan.root, head |-> scan.head, files |-> files]
    BY DEF BuildCheckpoint
  <1> HIDE DEF status, files
  <1>12. QED
    BY <1>1, <1>9, <1>10, <1>11 DEF CheckpointRecord

-----------------------------------------------------------------------------
\* Frame lemmas: what a step that adds no event leaves alone.

\* The shape of every log depends on the events table only.
LEMMA LogsFrame ==
    ASSUME Logs, UNCHANGED events
    PROVE  Logs'
  BY DEF Logs, HasEnds, SequencesContiguous, ChainLinked, CompleteIsAdjacent,
         EventsOf, IsLast, IsFirstStart, Starts, PhaseOf

\* The counts depend on the events table and on the event_count column.
LEMMA CountFrame ==
    ASSUME CountExact, UNCHANGED <<events, count>>
    PROVE  CountExact'
  BY DEF CountExact, EventsOf

\* Moving a hook that has no row yet, or one past its commit, keeps RowPerHook.
LEMMA RowsFrame ==
    ASSUME TypeOK, RowPerHook, NEW h \in Hooks, NEW label, Goto(h, label),
           UNCHANGED events, pc[h] \in Behind => label \in Behind
    PROVE  RowPerHook'
  BY DEF TypeOK, RowPerHook, Goto, Behind, EventRow

\* What a hook read stays stored.
LEMMA HistoryFrame ==
    ASSUME HistoryStored, UNCHANGED <<events, baseline, previous>>
    PROVE  HistoryStored'
  BY DEF HistoryStored, EventsOf

\* The allocations of the others stay current while no event is added and only
\* the moving hook's draft changes, unless that hook allocates.
LEMMA SlotsFrame ==
    ASSUME TypeOK, SlotCurrent, NEW h \in Hooks, NEW label, Goto(h, label),
           UNCHANGED <<events, sequence, link>>, label # "allocated",
           \A g \in Hooks \ {h} : checkpoint'[g] = checkpoint[g]
    PROVE  SlotCurrent'
  BY DEF TypeOK, SlotCurrent, Goto, LastSequence, LastId, LastEvent, IsLast, EventsOf

\* Outside the transaction, a step that leaves the lock alone keeps LockHeld.
LEMMA LockFrame ==
    ASSUME TypeOK, LockHeld, NEW h \in Hooks, NEW label, Goto(h, label),
           UNCHANGED lock, pc[h] \notin InTx, label \notin InTx
    PROVE  LockHeld'
  BY DEF TypeOK, LockHeld, Goto, InTx

\* All of them: a step outside the transaction that only moves h, or changes
\* columns of the session row other than event_count.
LEMMA OutsideFrame ==
    ASSUME StoreInv, NEW h \in Hooks, NEW label, Goto(h, label), TypeOK',
           UNCHANGED <<lock, events, count, baseline, previous, sequence, link>>,
           \A g \in Hooks \ {h} : checkpoint'[g] = checkpoint[g],
           pc[h] \notin InTx, label \notin InTx,
           pc[h] \in Behind => label \in Behind
    PROVE  StoreInv'
  <1>1. LockHeld'
    BY LockFrame DEF StoreInv
  <1>2. SlotCurrent'
    BY SlotsFrame DEF StoreInv, InTx
  <1>3. RowPerHook' /\ HistoryStored' /\ CountExact'
    BY RowsFrame, HistoryFrame, CountFrame DEF StoreInv
  <1>4. Logs'
    BY LogsFrame DEF StoreInv, Logs
  <1>5. QED
    BY <1>1, <1>2, <1>3, <1>4 DEF StoreInv, Logs

-----------------------------------------------------------------------------
\* Facts about the queries.

\* LastId and LastSequence are those of one event, the latest of the session.
LEMMA LastExists ==
    ASSUME TypeOK, HasEnds, NEW s \in Sessions, EventsOf(s) # {}
    PROVE  /\ IsLast(LastEvent(s), s) /\ LastEvent(s) \in events
           /\ LastEvent(s) \in EventRow
           /\ LastId(s) = LastEvent(s).id /\ LastSequence(s) = LastEvent(s).sequence
  <1>1. \E e \in events : IsLast(e, s)
    BY DEF HasEnds
  <1>2. LastEvent(s) \in events /\ IsLast(LastEvent(s), s)
    BY <1>1 DEF LastEvent
  <1>3. QED
    BY <1>2 DEF LastId, LastSequence, TypeOK

\* The latest sequence is a natural number, and no event is above it.
LEMMA LastBounds ==
    ASSUME TypeOK, HasEnds, NEW s \in Sessions
    PROVE  /\ LastSequence(s) \in Nat /\ LastId(s) \in Hooks \union {NoHook}
           /\ \A e \in EventsOf(s) : e.sequence <= LastSequence(s)
  <1>1. CASE EventsOf(s) = {}
    BY <1>1 DEF LastSequence, LastId
  <1>2. CASE EventsOf(s) # {}
    BY <1>2, LastExists DEF IsLast, EventRow
  <1>3. QED
    BY <1>1, <1>2

\* BaselineId and LastId are ids of stored events of the session.
LEMMA ReadIds ==
    ASSUME TypeOK, HasEnds, NEW s \in Sessions, NEW id \in {BaselineId(s), LastId(s)}
    PROVE  /\ id \in Hooks \union {NoHook}
           /\ id # NoHook => \E e \in EventsOf(s) : e.id = id
  <1>1. CASE id = LastId(s)
    <2>1. CASE EventsOf(s) = {}
      BY <1>1, <2>1 DEF LastId
    <2>2. CASE EventsOf(s) # {}
      BY <1>1, <2>2, LastExists DEF IsLast, EventRow
    <2>3. QED
      BY <2>1, <2>2
  <1>2. CASE id = BaselineId(s)
    <2>1. CASE Starts(s) = {}
      BY <1>2, <2>1 DEF BaselineId
    <2>2. CASE Starts(s) # {}
      <3> DEFINE first == CHOOSE e \in events : IsFirstStart(e, s)
      <3>1. first \in events /\ IsFirstStart(first, s)
        BY <2>2 DEF HasEnds
      <3>2. first \in EventsOf(s) /\ first \in EventRow
        BY <3>1 DEF IsFirstStart, Starts, TypeOK
      <3>3. id = first.id
        BY <1>2, <2>2 DEF BaselineId
      <3>4. QED
        BY <3>2, <3>3 DEF EventRow
    <2>3. QED
      BY <2>1, <2>2
  <1>3. QED
    BY <1>1, <1>2

\* The view of a stored event is well formed.
LEMMA ViewType ==
    ASSUME TypeOK, NEW id \in Hooks \union {NoHook},
           id # NoHook => \E e \in events : e.id = id
    PROVE  View(id) \in EventView
  <1>1. CASE id = NoHook
    BY <1>1, NoCheckpointType, CheckpointAssumption
       DEF View, NoHistory, EventView, Phases
  <1>2. CASE id # NoHook
    <2>1. Row(id) \in EventRow
      BY <1>2 DEF Row, TypeOK
    <2>2. id \in Hooks /\ Attr[id] \in Attributes
      BY <1>2, CaptureAssumption
    <2>3. /\ Attr[id].phase \in Phases /\ Attr[id].invocation \in Invocations \union {Nothing}
          /\ Attr[id].tool \in Tools \union {Nothing}
      BY <2>2 DEF Attributes
    <2>4. Row(id).sequence \in Nat /\ Row(id).checkpoint \in CheckpointRecord
      BY <2>1 DEF EventRow
    <2>5. QED
      BY <1>2, <2>3, <2>4 DEF View, EventView
  <1>3. QED
    BY <1>1, <1>2

\* The events of a session are finitely many.
LEMMA EventsOfFinite ==
    ASSUME TypeOK, NEW s
    PROVE  IsFiniteSet(EventsOf(s)) /\ Cardinality(EventsOf(s)) \in Nat
  <1>1. EventsOf(s) \subseteq events /\ IsFiniteSet(events)
    BY DEF EventsOf, TypeOK
  <1>2. QED
    BY <1>1, FS_Subset, FS_CardinalityType

-----------------------------------------------------------------------------
\* Every action keeps the types.

\* The empty store satisfies the invariant.
LEMMA InitInv == Init => StoreInv
  <1> SUFFICES ASSUME Init PROVE StoreInv
    OBVIOUS
  <1>1. TypeOK
    BY NoCheckpointType, FS_EmptySet, CaptureAssumption DEF Init, TypeOK
  <1>2. \A s : EventsOf(s) = {} /\ Starts(s) = {}
    BY DEF Init, EventsOf, Starts
  <1>3. CountExact
    BY <1>2, FS_EmptySet DEF CountExact, Init
  <1>4. LockHeld /\ SlotCurrent /\ RowPerHook /\ CompleteIsAdjacent
    BY CaptureAssumption DEF Init, LockHeld, SlotCurrent, RowPerHook, CompleteIsAdjacent
  <1>5. HasEnds /\ HistoryStored /\ SequencesContiguous /\ ChainLinked
    BY <1>2 DEF Init, HasEnds, HistoryStored, SequencesContiguous, ChainLinked
  <1>6. QED
    BY <1>1, <1>3, <1>4, <1>5 DEF StoreInv

\* The actions that only move a hook or the lock, or change a column of the
\* session row or a draft by a value of the right type.
LEMMA SimpleType ==
    ASSUME TypeOK, NEW h \in Hooks,
           \/ EnsureSession(h) \/ EnsureFails(h) \/ SkipCheckpoint(h) \/ HistoryFails(h)
           \/ BeginImmediate(h) \/ BeginBusy(h) \/ RollBack(h)
           \/ RecordCaptureFailure(h) \/ RecordFailureFails(h) \/ ReconcileFailures(h)
           \/ EndFails(h) \/ Kill(h)
    PROVE  TypeOK'
  <1>a. SessionOf[h] \in Sessions /\ OwnReasons[h] \in SUBSET Reasons
    BY CaptureAssumption, ReasonsAssumption
  <1>b. {"capture_error"} \in SUBSET Reasons
    BY DEF Reasons
  <1> USE <1>a, <1>b DEF TypeOK, Goto, Running, Exited
  <1>1. CASE EnsureSession(h)
    BY <1>1 DEF EnsureSession, contextVars, draftVars, readVars
  <1>2. CASE EnsureFails(h)
    BY <1>2 DEF EnsureFails, sessionVars, contextVars, draftVars, readVars
  <1>3. CASE SkipCheckpoint(h)
    BY <1>3 DEF SkipCheckpoint, sessionVars, contextVars, readVars
  <1>4. CASE HistoryFails(h)
    BY <1>4 DEF HistoryFails, sessionVars, draftVars, readVars
  <1>5. CASE BeginImmediate(h)
    BY <1>5 DEF BeginImmediate, sessionVars, contextVars, draftVars, readVars
  <1>6. CASE BeginBusy(h)
    BY <1>6 DEF BeginBusy, sessionVars, contextVars, draftVars, readVars
  <1>7. CASE RollBack(h)
    BY <1>7 DEF RollBack, sessionVars, contextVars, draftVars, readVars
  <1>8. CASE RecordCaptureFailure(h)
    BY <1>8 DEF RecordCaptureFailure, contextVars, draftVars, readVars
  <1>9. CASE RecordFailureFails(h)
    BY <1>9 DEF RecordFailureFails, sessionVars, contextVars, draftVars, readVars
  <1>10. CASE ReconcileFailures(h)
    BY <1>10 DEF ReconcileFailures, sessionVars, contextVars, draftVars
  <1>11. CASE EndFails(h)
    BY <1>11 DEF EndFails, sessionVars, contextVars, draftVars, readVars
  <1>12. CASE Kill(h)
    BY <1>12 DEF Kill, sessionVars, contextVars, draftVars, readVars
  <1>13. QED
    BY <1>1, <1>2, <1>3, <1>4, <1>5, <1>6, <1>7, <1>8, <1>9, <1>10, <1>11, <1>12

\* CheckpointContext reads ids of stored events.
LEMMA ReadType ==
    ASSUME TypeOK, HasEnds, NEW h \in Hooks, ReadBaseline(h) \/ ReadPrevious(h)
    PROVE  TypeOK'
  <1>1. /\ SessionOf[h] \in Sessions
        /\ BaselineId(SessionOf[h]) \in Hooks \union {NoHook}
        /\ LastId(SessionOf[h]) \in Hooks \union {NoHook}
    BY CaptureAssumption, ReadIds
  <1>2. CASE ReadBaseline(h)
    BY <1>1, <1>2 DEF ReadBaseline, TypeOK, Goto, Running, sessionVars, draftVars, readVars
  <1>3. CASE ReadPrevious(h)
    BY <1>1, <1>3 DEF ReadPrevious, TypeOK, Goto, Running, sessionVars, draftVars, readVars
  <1>4. QED
    BY <1>2, <1>3

\* The checkpoint a hook builds is well formed.
LEMMA TakeType ==
    ASSUME TypeOK, HistoryStored, NEW h \in Hooks, TakeCheckpoint(h)
    PROVE  TypeOK'
  <1>1. /\ baseline[h] \in Hooks \union {NoHook}
        /\ previous[h] \in Hooks \union {NoHook}
        /\ baseline[h] # NoHook => \E e \in events : e.id = baseline[h]
        /\ previous[h] # NoHook => \E e \in events : e.id = previous[h]
    BY DEF TypeOK, HistoryStored, EventsOf
  <1>2. View(baseline[h]) \in EventView /\ View(previous[h]) \in EventView
    BY <1>1, ViewType
  <1>3. Attr[h] \in Attributes /\ (h \in unread) \in BOOLEAN /\ Scans \subseteq Scan
    BY CaptureAssumption
  <1>4. PICK scan \in Scans :
          checkpoint' = [checkpoint EXCEPT ![h] =
            BuildCheckpoint(Attr[h], scan, View(baseline[h]), View(previous[h]), h \in unread)]
    BY DEF TakeCheckpoint
  <1>5. BuildCheckpoint(Attr[h], scan, View(baseline[h]), View(previous[h]), h \in unread)
          \in CheckpointRecord
    BY <1>2, <1>3, BuildCheckpointType
  <1>6. checkpoint' \in [Hooks -> CheckpointRecord]
    BY <1>4, <1>5 DEF TypeOK
  <1>7. reasons' \in [Hooks -> SUBSET Reasons]
    <2>1. OwnReasons[h] \in SUBSET Reasons
      BY ReasonsAssumption
    <2>2. "repository_checkpoint_incomplete" \in Reasons
      BY DEF Reasons
    <2>3. QED
      BY <2>1, <2>2 DEF TakeCheckpoint, TypeOK
  <1>8. QED
    BY <1>6, <1>7 DEF TakeCheckpoint, TypeOK, Goto, Running, sessionVars, contextVars, readVars

\* An allocation is a position, and downgrading keeps the checkpoint well formed.
LEMMA AllocateType ==
    ASSUME TypeOK, HasEnds, NEW h \in Hooks, Allocate(h)
    PROVE  TypeOK'
  <1>1. SessionOf[h] \in Sessions
    BY CaptureAssumption
  <1>2. LastSequence(SessionOf[h]) + 1 \in Nat /\ LastId(SessionOf[h]) \in Hooks \union {NoHook}
    BY <1>1, LastBounds
  <1>3. checkpoint[h] \in CheckpointRecord /\ Downgrade(checkpoint[h]) \in CheckpointRecord
    BY DowngradeType DEF TypeOK
  <1>4. checkpoint' \in [Hooks -> CheckpointRecord]
    BY <1>3 DEF Allocate, TypeOK
  <1>5. "repository_checkpoint_incomplete" \in Reasons
    BY DEF Reasons
  <1>6. reasons' \in [Hooks -> SUBSET Reasons]
    BY <1>5 DEF Allocate, TypeOK
  <1>7. sequence' \in [Hooks -> Nat] /\ link' \in [Hooks -> Hooks \union {NoHook}]
    BY <1>2 DEF Allocate, TypeOK
  <1>8. QED
    BY <1>4, <1>6, <1>7
       DEF Allocate, TypeOK, Goto, Running, sessionVars, contextVars, readVars

\* Committing adds one well-formed row.
LEMMA CommitType ==
    ASSUME TypeOK, NEW h \in Hooks, CommitEvent(h)
    PROVE  TypeOK'
  <1>1. SessionOf[h] \in Sessions
    BY CaptureAssumption
  <1>2. NewRow(h) \in EventRow
    BY <1>1 DEF NewRow, EventRow, TypeOK
  <1>3. events' \in SUBSET EventRow /\ IsFiniteSet(events')
    BY <1>2, FS_AddElement DEF CommitEvent, TypeOK
  <1>4. count' \in [Sessions -> Nat] /\ verdict' \in [Sessions -> SUBSET Reasons]
    BY <1>1 DEF CommitEvent, TypeOK
  <1>5. QED
    BY <1>3, <1>4 DEF CommitEvent, TypeOK, Goto, Running, Exited, contextVars, draftVars, readVars

\* EndSession counts, the reconciliation collects and judges.
LEMMA EndType ==
    ASSUME TypeOK, NEW h \in Hooks, EndSession(h) \/ ReconcileEvents(h) \/ ReconcileWrite(h)
    PROVE  TypeOK'
  <1>1. SessionOf[h] \in Sessions
    BY CaptureAssumption
  <1>2. CASE EndSession(h)
    BY <1>1, <1>2, EventsOfFinite
       DEF EndSession, TypeOK, Goto, Running, contextVars, draftVars, readVars
  <1>3. CASE ReconcileEvents(h)
    <2>1. {e.id : e \in EventsOf(SessionOf[h])} \in SUBSET Hooks
      BY DEF EventsOf, TypeOK, EventRow
    <2>2. QED
      BY <1>3, <2>1
         DEF ReconcileEvents, TypeOK, Goto, Running, sessionVars, contextVars, draftVars
  <1>4. CASE ReconcileWrite(h)
    <2> DEFINE judged == {d \in events : d.id \in readIds[h]}
    <2>0. UNION {e.reasons : e \in judged} \subseteq Reasons
      BY DEF TypeOK, EventRow
    <2>1. Verdict(readIds[h], readFailures[h]) \in SUBSET Reasons
      <3>1. {"missing_pre_event", "missing_post_event", "capture_error"} \subseteq Reasons
        BY DEF Reasons
      <3>2. ASSUME NEW r \in Verdict(readIds[h], readFailures[h])
            PROVE  \/ r \in UNION {e.reasons : e \in judged}
                   \/ r \in {"missing_pre_event", "missing_post_event", "capture_error"}
        BY <3>2 DEF Verdict
      <3>3. QED
        BY <2>0, <3>1, <3>2
    <2>2. QED
      BY <1>1, <1>4, <2>1
         DEF ReconcileWrite, TypeOK, Goto, Exited, contextVars, draftVars, readVars
  <1>5. QED
    BY <1>2, <1>3, <1>4

-----------------------------------------------------------------------------
\* The steps inside the transaction

\* BEGIN IMMEDIATE: the lock was free, so no other process is inside.
LEMMA BeginInv ==
    ASSUME StoreInv, NEW h \in Hooks, BeginImmediate(h)
    PROVE  StoreInv'
  <1>1. TypeOK'
    BY SimpleType DEF StoreInv
  <1>2. /\ Goto(h, "locked") /\ pc[h] = "ready" /\ h \in Hooks
        /\ UNCHANGED <<events, count, baseline, previous, sequence, link, checkpoint>>
    BY DEF BeginImmediate, sessionVars, contextVars, draftVars
  <1>3. LockHeld'
    BY CaptureAssumption
       DEF StoreInv, BeginImmediate, WriteFree, LockHeld, Goto, TypeOK
  <1>4. SlotCurrent' /\ RowPerHook' /\ HistoryStored' /\ CountExact'
    <2>1. pc[h] \notin Behind
      BY <1>2 DEF Behind, Exited
    <2>2. QED
      BY <1>2, <2>1, SlotsFrame, RowsFrame, HistoryFrame, CountFrame DEF StoreInv
  <1>5. Logs'
    BY <1>2, LogsFrame DEF StoreInv, Logs
  <1>6. QED
    BY <1>1, <1>3, <1>4, <1>5 DEF StoreInv, Logs

\* The allocated position is the next one, and a checkpoint that was not
\* overtaken names the position below.
LEMMA AllocateInv ==
    ASSUME StoreInv, NEW h \in Hooks, Allocate(h)
    PROVE  StoreInv'
  <1>1. TypeOK'
    BY AllocateType DEF StoreInv
  <1>2. /\ Goto(h, "allocated") /\ pc[h] = "locked"
        /\ UNCHANGED <<lock, events, count, baseline, previous>>
    BY DEF Allocate, sessionVars, contextVars
  <1>3. LockHeld'
    BY <1>2 DEF StoreInv, LockHeld, Goto, TypeOK
  <1>4. RowPerHook' /\ HistoryStored' /\ CountExact'
    <2>1. pc[h] \notin Behind
      BY <1>2 DEF Behind, Exited
    <2>2. QED
      BY <1>2, <2>1, RowsFrame, HistoryFrame, CountFrame DEF StoreInv
  <1>5. Logs'
    BY <1>2, LogsFrame DEF StoreInv, Logs
  <1>6. SlotCurrent'
    <2> SUFFICES ASSUME NEW g \in Hooks, pc'[g] = "allocated"
                 PROVE  /\ sequence'[g] = LastSequence(SessionOf[g])' + 1
                        /\ link'[g] = LastId(SessionOf[g])'
                        /\ checkpoint'[g].status = "complete"
                             => checkpoint'[g].previous = sequence'[g] - 1
      BY DEF SlotCurrent
    <2>1. /\ LastSequence(SessionOf[g])' = LastSequence(SessionOf[g])
          /\ LastId(SessionOf[g])' = LastId(SessionOf[g])
      BY <1>2 DEF LastSequence, LastId, LastEvent, IsLast, EventsOf
    <2>2. CASE g # h
      <3>1. pc[g] = "allocated"
        BY <2>2, <1>2 DEF StoreInv, TypeOK, Goto
      <3>2. /\ sequence'[g] = sequence[g] /\ link'[g] = link[g]
            /\ checkpoint'[g] = checkpoint[g]
        BY <2>2 DEF Allocate, StoreInv, TypeOK
      <3>3. QED
        BY <2>1, <3>1, <3>2 DEF StoreInv, SlotCurrent
    <2>3. CASE g = h
      <3>1. /\ sequence'[h] = LastSequence(SessionOf[h]) + 1
            /\ link'[h] = LastId(SessionOf[h])
            /\ checkpoint'[h] = IF Overtaken(h) THEN Downgrade(checkpoint[h]) ELSE checkpoint[h]
        BY DEF Allocate, StoreInv, TypeOK
      <3>2. LastSequence(SessionOf[h]) \in Nat
        BY CaptureAssumption, LastBounds DEF StoreInv
      <3>3. checkpoint[h] \in CheckpointRecord
        BY DEF StoreInv, TypeOK
      <3>4. CASE Overtaken(h)
        BY <2>1, <2>3, <3>1, <3>3, <3>4, DowngradeEffect
      <3>5. CASE ~Overtaken(h)
        BY <2>1, <2>3, <3>1, <3>2, <3>5 DEF Overtaken
      <3>6. QED
        BY <3>4, <3>5
    <2>4. QED
      BY <2>2, <2>3
  <1>7. QED
    BY <1>1, <1>3, <1>4, <1>5, <1>6 DEF StoreInv, Logs

\* ROLLBACK frees the lock and leaves no trace.
LEMMA RollBackInv ==
    ASSUME StoreInv, NEW h \in Hooks, RollBack(h)
    PROVE  StoreInv'
  <1>1. TypeOK'
    BY SimpleType DEF StoreInv
  <1>2. /\ Goto(h, "failed") /\ pc[h] \in InTx /\ lock' = NoHook
        /\ UNCHANGED <<events, count, baseline, previous, sequence, link, checkpoint>>
    BY DEF RollBack, sessionVars, contextVars, draftVars, InTx
  <1>3. LockHeld'
    BY <1>2, CaptureAssumption DEF StoreInv, LockHeld, Goto, TypeOK, InTx
  <1>4. SlotCurrent' /\ RowPerHook' /\ HistoryStored' /\ CountExact'
    <2>1. pc[h] \notin Behind
      BY <1>2 DEF Behind, Exited, InTx
    <2>2. QED
      BY <1>2, <2>1, SlotsFrame, RowsFrame, HistoryFrame, CountFrame DEF StoreInv
  <1>5. Logs'
    BY <1>2, LogsFrame DEF StoreInv, Logs
  <1>6. QED
    BY <1>1, <1>3, <1>4, <1>5 DEF StoreInv, Logs

\* A killed process leaves its committed row or nothing; SQLite frees its lock.
LEMMA KillInv ==
    ASSUME StoreInv, NEW h \in Hooks, Kill(h)
    PROVE  StoreInv'
  <1>1. TypeOK'
    BY SimpleType DEF StoreInv
  <1>2. /\ Goto(h, "killed") /\ lock' = IF lock = h THEN NoHook ELSE lock
        /\ UNCHANGED <<events, count, baseline, previous, sequence, link, checkpoint>>
    BY DEF Kill, sessionVars, contextVars, draftVars
  <1>3. LockHeld'
    BY <1>2, CaptureAssumption DEF StoreInv, LockHeld, Goto, TypeOK
  <1>4. SlotCurrent' /\ RowPerHook' /\ HistoryStored' /\ CountExact'
    <2>1. "killed" \in Behind
      BY DEF Behind, Exited
    <2>2. QED
      BY <1>2, <2>1, SlotsFrame, RowsFrame, HistoryFrame, CountFrame DEF StoreInv
  <1>5. Logs'
    BY <1>2, LogsFrame DEF StoreInv, Logs
  <1>6. QED
    BY <1>1, <1>3, <1>4, <1>5 DEF StoreInv, Logs

-----------------------------------------------------------------------------
\* COMMIT

\* What the committing process knows: nobody else is inside, its position is
\* above every event of its session, and it has no row yet.
LEMMA CommitFacts ==
    ASSUME StoreInv, NEW h \in Hooks, CommitEvent(h)
    PROVE  LET n == NewRow(h) s0 == SessionOf[h]
           IN /\ s0 \in Sessions /\ n.session = s0 /\ n.id = h
              /\ n.sequence = LastSequence(s0) + 1 /\ n.sequence \in Nat /\ n.sequence >= 1
              /\ n.previous = LastId(s0)
              /\ \A e \in EventsOf(s0) : e.sequence \in Nat /\ e.sequence < n.sequence
              /\ \A e \in events : e.id # h
              /\ n \notin events
              /\ \A g \in Hooks \ {h} : pc[g] \notin InTx
              /\ \A s : EventsOf(s)' = IF s = s0 THEN EventsOf(s) \union {n} ELSE EventsOf(s)
  <1> DEFINE n == NewRow(h)  s0 == SessionOf[h]
  <1>1. s0 \in Sessions
    BY CaptureAssumption
  <1>2. /\ n.session = s0 /\ n.id = h
        /\ n.sequence = sequence[h] /\ n.previous = link[h]
    BY DEF NewRow
  <1>3. pc[h] = "allocated"
    BY DEF CommitEvent
  <1>4. sequence[h] = LastSequence(s0) + 1 /\ link[h] = LastId(s0)
    BY <1>3 DEF StoreInv, SlotCurrent
  <1>5. LastSequence(s0) \in Nat /\ \A e \in EventsOf(s0) : e.sequence <= LastSequence(s0)
    BY <1>1, LastBounds DEF StoreInv
  <1>6. \A e \in EventsOf(s0) : e.sequence \in Nat
    BY DEF StoreInv, TypeOK, EventRow, EventsOf
  <1>7. \A e \in events : e.id # h
    BY <1>3 DEF StoreInv, RowPerHook, Exited
  <1>8. \A g \in Hooks \ {h} : pc[g] \notin InTx
    BY <1>3 DEF StoreInv, LockHeld, InTx
  <1>9. ASSUME NEW s
        PROVE  EventsOf(s)' = IF s = s0 THEN EventsOf(s) \union {n} ELSE EventsOf(s)
    <2>1. events' = events \union {n}
      BY DEF CommitEvent
    <2>2. QED
      BY <1>2, <2>1 DEF EventsOf
  <1>10. n \notin events
    BY <1>2, <1>7
  <1>11. \A e \in EventsOf(s0) : e.sequence \in Nat /\ e.sequence < n.sequence
    BY <1>2, <1>4, <1>5, <1>6
  <1>12. n.sequence = LastSequence(s0) + 1 /\ n.sequence \in Nat /\ n.sequence >= 1
    BY <1>2, <1>4, <1>5
  <1> HIDE DEF n, s0
  <1>13. QED
    BY <1>1, <1>2, <1>4, <1>7, <1>8, <1>9, <1>10, <1>11, <1>12 DEF n, s0

\* The new row is the latest of its session; an earlier session_start stays the
\* earliest.
LEMMA CommitEnds ==
    ASSUME StoreInv, NEW h \in Hooks, CommitEvent(h)
    PROVE  HasEnds'
  <1> PICK n : n = NewRow(h)
    OBVIOUS
  <1> DEFINE s0 == SessionOf[h]
  <1>1. /\ n.sequence \in Nat
        /\ \A e \in EventsOf(s0) : e.sequence \in Nat /\ e.sequence < n.sequence
        /\ \A s : EventsOf(s)' = IF s = s0 THEN EventsOf(s) \union {n} ELSE EventsOf(s)
        /\ events' = events \union {n}
    BY CommitFacts DEF CommitEvent
  <1> HIDE DEF s0
  <1> SUFFICES ASSUME NEW s \in Sessions
               PROVE  /\ EventsOf(s)' # {} => \E e \in events' : IsLast(e, s)'
                      /\ Starts(s)' # {} => \E e \in events' : IsFirstStart(e, s)'
    BY DEF HasEnds
  <1>2. CASE s # s0
    <2>1. EventsOf(s)' = EventsOf(s)
      BY <1>1, <1>2
    <2>2. Starts(s)' = Starts(s)
      BY <2>1 DEF Starts, PhaseOf
    <2>3. QED
      BY <1>1, <2>1, <2>2 DEF StoreInv, HasEnds, IsLast, IsFirstStart
  <1>3. CASE s = s0
    <2>1. EventsOf(s)' = EventsOf(s) \union {n} /\ n \in events'
      BY <1>1, <1>3
    <2>2. IsLast(n, s)'
      BY <1>1, <1>3, <2>1 DEF IsLast
    <2>3. ASSUME Starts(s)' # {}
          PROVE  \E e \in events' : IsFirstStart(e, s)'
      <3>1. Starts(s)' \subseteq Starts(s) \union {n} /\ Starts(s) \subseteq Starts(s)'
        BY <2>1 DEF Starts, PhaseOf
      <3>2. CASE Starts(s) = {}
        <4>1. Starts(s)' = {n}
          BY <2>3, <3>1, <3>2
        <4>2. QED
          BY <1>1, <2>1, <4>1 DEF IsFirstStart
      <3>3. CASE Starts(s) # {}
        <4>1. PICK e \in events : IsFirstStart(e, s)
          BY <3>3 DEF StoreInv, HasEnds
        <4>2. e \in EventsOf(s) /\ e.sequence < n.sequence /\ e.sequence \in Nat
          BY <1>1, <1>3, <4>1 DEF IsFirstStart, Starts
        <4>3. IsFirstStart(e, s)'
          BY <1>1, <3>1, <4>1, <4>2 DEF IsFirstStart
        <4>4. QED
          BY <1>1, <4>1, <4>3
      <3>4. QED
        BY <3>2, <3>3
    <2>4. QED
      BY <2>1, <2>2, <2>3
  <1>4. QED
    BY <1>2, <1>3

\* The new row continues the sequence and the chain of its session.
LEMMA CommitChain ==
    ASSUME StoreInv, NEW h \in Hooks, CommitEvent(h)
    PROVE  SequencesContiguous' /\ ChainLinked'
  <1> DEFINE n == NewRow(h)  s0 == SessionOf[h]
  <1>1. /\ n.sequence = LastSequence(s0) + 1 /\ n.sequence \in Nat /\ n.sequence >= 1
        /\ n.previous = LastId(s0) /\ s0 \in Sessions
        /\ \A e \in EventsOf(s0) : e.sequence \in Nat /\ e.sequence < n.sequence
        /\ \A s : EventsOf(s)' = IF s = s0 THEN EventsOf(s) \union {n} ELSE EventsOf(s)
    BY CommitFacts
  <1>2. n.sequence > 1 =>
          \E d \in EventsOf(s0) : d.sequence = n.sequence - 1 /\ d.id = n.previous
    <2>1. CASE EventsOf(s0) = {}
      BY <1>1, <2>1 DEF LastSequence
    <2>2. CASE EventsOf(s0) # {}
      BY <1>1, <2>2, LastExists DEF StoreInv, IsLast
    <2>3. QED
      BY <2>1, <2>2
  <1>3. n.sequence = 1 => n.previous = NoHook
    <2>1. CASE EventsOf(s0) = {}
      BY <1>1, <2>1 DEF LastId
    <2>2. CASE EventsOf(s0) # {}
      <3>1. LastEvent(s0) \in EventsOf(s0) /\ LastSequence(s0) = LastEvent(s0).sequence
        BY <1>1, <2>2, LastExists DEF StoreInv, IsLast
      <3>2. LastEvent(s0).sequence >= 1
        BY <1>1, <3>1 DEF StoreInv, SequencesContiguous
      <3>3. QED
        BY <1>1, <3>1, <3>2
    <2>3. QED
      BY <2>1, <2>2
  <1> HIDE DEF n, s0
  <1>4. SequencesContiguous'
    <2> SUFFICES ASSUME NEW s \in Sessions, NEW e \in EventsOf(s)'
                 PROVE  /\ e.sequence >= 1
                        /\ \A d \in EventsOf(s)' : d.sequence = e.sequence => d = e
                        /\ e.sequence > 1 =>
                             \E d \in EventsOf(s)' : d.sequence = e.sequence - 1
      BY DEF SequencesContiguous
    <2>1. CASE s # s0
      BY <1>1, <2>1 DEF StoreInv, SequencesContiguous
    <2>2. CASE s = s0 /\ e = n
      BY <1>1, <1>2, <2>2
    <2>3. CASE s = s0 /\ e # n
      BY <1>1, <2>3 DEF StoreInv, SequencesContiguous
    <2>4. QED
      BY <2>1, <2>2, <2>3
  <1>5. ChainLinked'
    <2> SUFFICES ASSUME NEW s \in Sessions, NEW e \in EventsOf(s)'
                 PROVE  IF e.sequence = 1 THEN e.previous = NoHook
                        ELSE \E d \in EventsOf(s)' :
                               d.sequence = e.sequence - 1 /\ d.id = e.previous
      BY DEF ChainLinked
    <2>1. CASE s # s0
      BY <1>1, <2>1 DEF StoreInv, ChainLinked
    <2>2. CASE s = s0 /\ e = n
      BY <1>1, <1>2, <1>3, <2>2
    <2>3. CASE s = s0 /\ e # n
      BY <1>1, <2>3 DEF StoreInv, ChainLinked
    <2>4. QED
      BY <2>1, <2>2, <2>3
  <1>6. QED
    BY <1>4, <1>5

\* event_count grows with the log.
LEMMA CommitCount ==
    ASSUME StoreInv, NEW h \in Hooks, CommitEvent(h)
    PROVE  CountExact'
  <1> DEFINE n == NewRow(h)  s0 == SessionOf[h]
  <1>1. /\ n \notin events /\ s0 \in Sessions
        /\ \A s : EventsOf(s)' = IF s = s0 THEN EventsOf(s) \union {n} ELSE EventsOf(s)
    BY CommitFacts
  <1>2. count' = [count EXCEPT ![s0] = @ + 1] /\ count \in [Sessions -> Nat]
    BY DEF CommitEvent, StoreInv, TypeOK
  <1> HIDE DEF n, s0
  <1> SUFFICES ASSUME NEW s \in Sessions
               PROVE  count'[s] = Cardinality(EventsOf(s)')
    BY DEF CountExact
  <1>3. count[s] = Cardinality(EventsOf(s))
    BY DEF StoreInv, CountExact
  <1>4. CASE s # s0
    BY <1>1, <1>2, <1>3, <1>4
  <1>5. CASE s = s0
    <2>1. n \notin EventsOf(s)
      BY <1>1 DEF EventsOf
    <2>2. Cardinality(EventsOf(s) \union {n}) = Cardinality(EventsOf(s)) + 1
      BY <2>1, EventsOfFinite, FS_AddElement DEF StoreInv
    <2>3. QED
      BY <1>1, <1>2, <1>3, <1>5, <2>2
  <1>6. QED
    BY <1>4, <1>5

\* A commit keeps the whole invariant.
LEMMA CommitInv ==
    ASSUME StoreInv, NEW h \in Hooks, CommitEvent(h)
    PROVE  StoreInv'
  <1> DEFINE n == NewRow(h)  s0 == SessionOf[h]
  <1>1. TypeOK'
    BY CommitType DEF StoreInv
  <1>2. /\ \A e \in events : e.id # h
        /\ n.session = s0 /\ n.id = h
        /\ \A g \in Hooks \ {h} : pc[g] \notin InTx
        /\ \A s : EventsOf(s)' = IF s = s0 THEN EventsOf(s) \union {n} ELSE EventsOf(s)
    BY CommitFacts
  <1>3. /\ events' = events \union {n} /\ lock' = NoHook
        /\ pc[h] = "allocated" /\ pc'[h] \in {"stored", "done"}
        /\ \A g \in Hooks \ {h} : pc'[g] = pc[g]
        /\ UNCHANGED <<baseline, previous>>
    BY DEF CommitEvent, Goto, StoreInv, TypeOK, contextVars
  <1>4. LockHeld'
    BY <1>2, <1>3, CaptureAssumption DEF LockHeld, InTx
  <1>5. SlotCurrent'
    BY <1>2, <1>3 DEF SlotCurrent, InTx
  <1>6. CompleteIsAdjacent'
    <2>1. n.checkpoint = checkpoint[h] /\ n.sequence = sequence[h]
      BY DEF NewRow
    <2>2. n.checkpoint.status = "complete" => n.checkpoint.previous = n.sequence - 1
      BY <1>3, <2>1 DEF StoreInv, SlotCurrent
    <2> HIDE DEF n
    <2>3. QED
      BY <1>3, <2>2 DEF StoreInv, CompleteIsAdjacent
  <1>7. HistoryStored'
    <2> HIDE DEF n, s0
    <2>1. \A s : EventsOf(s) \subseteq EventsOf(s)'
      BY <1>2
    <2>2. QED
      BY <1>3, <2>1 DEF StoreInv, HistoryStored
  <1>8. RowPerHook'
    <2>1. h \in Hooks /\ \A e \in events : e.id \in Hooks
      BY DEF StoreInv, TypeOK, EventRow
    <2>2. n.session = SessionOf[n.id]
      BY <1>2
    <2> HIDE DEF n, s0
    <2>3. QED
      BY <1>2, <1>3, <2>1, <2>2 DEF StoreInv, RowPerHook, Exited
  <1>9. HasEnds' /\ SequencesContiguous' /\ ChainLinked' /\ CountExact'
    BY CommitEnds, CommitChain, CommitCount
  <1>10. QED
    BY <1>1, <1>4, <1>5, <1>6, <1>7, <1>8, <1>9 DEF StoreInv

-----------------------------------------------------------------------------
\* The steps outside the transaction touch neither the log nor the lock.
LEMMA OutsideInv ==
    ASSUME StoreInv, NEW h \in Hooks,
           \/ EnsureSession(h) \/ EnsureFails(h)
           \/ SkipCheckpoint(h) \/ HistoryFails(h) \/ TakeCheckpoint(h)
           \/ BeginBusy(h) \/ RecordCaptureFailure(h) \/ RecordFailureFails(h)
           \/ ReconcileEvents(h) \/ ReconcileFailures(h) \/ ReconcileWrite(h) \/ EndFails(h)
    PROVE  StoreInv'
  <1> DEFINE Frame(label) ==
        /\ Goto(h, label) /\ TypeOK'
        /\ UNCHANGED <<lock, events, count, baseline, previous, sequence, link>>
        /\ \A g \in Hooks \ {h} : checkpoint'[g] = checkpoint[g]
        /\ pc[h] \notin InTx /\ label \notin InTx
        /\ pc[h] \in Behind => label \in Behind
  <1> SUFFICES \E label : Frame(label)
    BY OutsideFrame
  <1>1. TypeOK'
    BY SimpleType, TakeType, EndType DEF StoreInv
  <1> USE <1>1 DEF InTx, Behind, Exited, sessionVars, contextVars, draftVars, readVars
  <1>2. CASE EnsureSession(h)
    <2>1. Frame("ensured")
      BY <1>2 DEF EnsureSession
    <2>2. QED
      BY <2>1
  <1>3. CASE EnsureFails(h)
    <2>1. Frame("ensured") \/ Frame("unrecorded")
      BY <1>3 DEF EnsureFails
    <2>2. QED
      BY <2>1
  <1>4. CASE SkipCheckpoint(h)
    <2>1. Frame("ready")
      BY <1>4 DEF SkipCheckpoint
    <2>2. QED
      BY <2>1
  <1>5. CASE HistoryFails(h)
    <2>1. Frame("history")
      BY <1>5 DEF HistoryFails
    <2>2. QED
      BY <2>1
  <1>6. CASE TakeCheckpoint(h)
    <2>1. \A g \in Hooks \ {h} : checkpoint'[g] = checkpoint[g]
      BY <1>6 DEF TakeCheckpoint, StoreInv, TypeOK
    <2>2. Frame("ready")
      BY <1>6, <2>1 DEF TakeCheckpoint
    <2>3. QED
      BY <2>2
  <1>7. CASE BeginBusy(h)
    <2>1. Frame("failed")
      BY <1>7 DEF BeginBusy
    <2>2. QED
      BY <2>1
  <1>8. CASE RecordCaptureFailure(h)
    <2>1. Frame("done")
      BY <1>8 DEF RecordCaptureFailure
    <2>2. QED
      BY <2>1
  <1>9. CASE RecordFailureFails(h)
    <2>1. Frame("unrecorded")
      BY <1>9 DEF RecordFailureFails
    <2>2. QED
      BY <2>1
  <1>10. CASE ReconcileEvents(h)
    <2>1. Frame("reconciling")
      BY <1>10 DEF ReconcileEvents
    <2>2. QED
      BY <2>1
  <1>11. CASE ReconcileFailures(h)
    <2>1. Frame("reconciled")
      BY <1>11 DEF ReconcileFailures
    <2>2. QED
      BY <2>1
  <1>12. CASE ReconcileWrite(h)
    <2>1. Frame("done")
      BY <1>12 DEF ReconcileWrite
    <2>2. QED
      BY <2>1
  <1>13. CASE EndFails(h)
    <2>1. Frame("unreconciled")
      BY <1>13 DEF EndFails
    <2>2. QED
      BY <2>1
  <1>14. QED
    BY <1>2, <1>3, <1>4, <1>5, <1>6, <1>7, <1>8, <1>9, <1>10, <1>11, <1>12, <1>13

\* CheckpointContext reads ids of stored events, which stay stored.
LEMMA ReadInv ==
    ASSUME StoreInv, NEW h \in Hooks, ReadBaseline(h) \/ ReadPrevious(h)
    PROVE  StoreInv'
  <1>1. TypeOK'
    BY ReadType DEF StoreInv
  <1>2. PICK label \in {"baseline", "history"} : Goto(h, label)
    BY DEF ReadBaseline, ReadPrevious
  <1>3. /\ UNCHANGED <<lock, events, count, sequence, link, checkpoint>>
        /\ pc[h] \notin InTx \union Behind
    BY DEF ReadBaseline, ReadPrevious, sessionVars, draftVars, InTx, Behind, Exited
  <1>4. LockHeld' /\ SlotCurrent' /\ RowPerHook' /\ CountExact'
    BY <1>2, <1>3, LockFrame, SlotsFrame, RowsFrame, CountFrame DEF StoreInv, InTx
  <1>5. Logs'
    BY <1>3, LogsFrame DEF StoreInv, Logs
  <1>6. HistoryStored'
    <2>1. \A id \in {BaselineId(SessionOf[h]), LastId(SessionOf[h])} :
            id # NoHook => \E e \in EventsOf(SessionOf[h]) : e.id = id
      BY CaptureAssumption, ReadIds DEF StoreInv
    <2>2. \A s : EventsOf(s)' = EventsOf(s)
      BY <1>3 DEF EventsOf
    <2>3. ASSUME NEW g \in Hooks
          PROVE  /\ baseline'[g] = baseline[g] \/ (g = h /\ baseline'[g] = BaselineId(SessionOf[h]))
                 /\ previous'[g] = previous[g] \/ (g = h /\ previous'[g] = LastId(SessionOf[h]))
      BY DEF ReadBaseline, ReadPrevious, StoreInv, TypeOK
    <2>4. QED
      BY <2>1, <2>2, <2>3 DEF StoreInv, HistoryStored
  <1>7. QED
    BY <1>1, <1>4, <1>5, <1>6 DEF StoreInv, Logs

\* EndSession recounts what WriteEvent has counted.
LEMMA EndInv ==
    ASSUME StoreInv, NEW h \in Hooks, EndSession(h)
    PROVE  StoreInv'
  <1>1. TypeOK'
    BY EndType DEF StoreInv
  <1>2. count' = count
    <2>1. SessionOf[h] \in Sessions
      BY CaptureAssumption
    <2>2. Cardinality(EventsOf(SessionOf[h])) = count[SessionOf[h]]
      BY <2>1 DEF StoreInv, CountExact
    <2>3. QED
      BY <2>1, <2>2 DEF EndSession, StoreInv, TypeOK
  <1>3. /\ Goto(h, "ended")
        /\ UNCHANGED <<lock, events, baseline, previous, sequence, link, checkpoint>>
        /\ pc[h] \notin InTx /\ "ended" \notin InTx /\ "ended" \in Behind
    BY DEF EndSession, contextVars, draftVars, InTx, Behind
  <1>4. QED
    BY <1>1, <1>2, <1>3, OutsideFrame

-----------------------------------------------------------------------------
\* The invariant is inductive.
THEOREM InvStep == StoreInv /\ [Next]_vars => StoreInv'
  <1> SUFFICES ASSUME StoreInv, [Next]_vars PROVE StoreInv'
    OBVIOUS
  <1>1. ASSUME NEW h \in Hooks, Step(h)
        PROVE  StoreInv'
    BY <1>1, OutsideInv, ReadInv, BeginInv, AllocateInv, CommitInv, RollBackInv, EndInv
       DEF Step
  <1>2. ASSUME NEW h \in Hooks, Kill(h)
        PROVE  StoreInv'
    BY <1>2, KillInv
  <1>3. CASE UNCHANGED vars
    <2>1. /\ UNCHANGED <<pc, lock, events, sessions, ended, count, failures, verdict>>
          /\ UNCHANGED <<baseline, previous, unread, checkpoint, reasons, sequence, link>>
          /\ UNCHANGED <<readIds, readFailures>>
      BY <1>3 DEF vars, sessionVars, contextVars, draftVars, readVars
    <2>2. TypeOK'
      BY <2>1 DEF StoreInv, TypeOK
    <2>3. LockHeld' /\ RowPerHook'
      BY <2>1 DEF StoreInv, LockHeld, RowPerHook
    <2>4. SlotCurrent'
      BY <2>1 DEF StoreInv, SlotCurrent, LastSequence, LastId, LastEvent, IsLast, EventsOf
    <2>5. HistoryStored' /\ CountExact' /\ Logs'
      BY <2>1, HistoryFrame, CountFrame, LogsFrame DEF StoreInv, Logs
    <2>6. QED
      BY <2>2, <2>3, <2>4, <2>5 DEF StoreInv, Logs
  <1>4. QED
    BY <1>1, <1>2, <1>3 DEF Next, Quiet

\* The strengthened invariant holds of every execution of the capture path.
THEOREM StoreInvariant == Spec => []StoreInv
  <1>1. Init => StoreInv
    BY InitInv
  <1>2. QED
    BY <1>1, InvStep, PTL DEF Spec

\* Type correctness, for every choice of hooks, sessions, files and scans.
THEOREM TypeCorrect == Spec => []TypeOK
  <1>1. StoreInv => TypeOK
    BY DEF StoreInv
  <1>2. QED
    BY <1>1, StoreInvariant, PTL

\* Sequences are unique and contiguous however the WriteEvent transactions of
\* concurrent hook processes interleave, fail, roll back or die.
THEOREM SequencesAreContiguous == Spec => []SequencesContiguous
  <1>1. StoreInv => SequencesContiguous
    BY DEF StoreInv
  <1>2. QED
    BY <1>1, StoreInvariant, PTL

\* previous_event_hash always names the event one position below.
THEOREM ChainIsLinked == Spec => []ChainLinked
  <1>1. StoreInv => ChainLinked
    BY DEF StoreInv
  <1>2. QED
    BY <1>1, StoreInvariant, PTL

\* event_count, incremented by WriteEvent and recounted by EndSession, is exact.
THEOREM CountIsExact == Spec => []CountExact
  <1>1. StoreInv => CountExact
    BY DEF StoreInv
  <1>2. QED
    BY <1>1, StoreInvariant, PTL

\* The rows of every session are a log, for any number of hook processes that
\* overlap, fail, roll back or die inside WriteEvent and EndSession.
THEOREM LogIsSound == Spec => []LogSound
  <1>1. StoreInv => LogSound
    BY DEF StoreInv, LogSound
  <1>2. QED
    BY <1>1, StoreInvariant, PTL

\* A stored complete checkpoint was compared with the event just before it.
THEOREM CompleteCheckpointsAreAdjacent == Spec => []CompleteIsAdjacent
  <1>1. StoreInv => CompleteIsAdjacent
    BY DEF StoreInv
  <1>2. QED
    BY <1>1, StoreInvariant, PTL

-----------------------------------------------------------------------------
\* The verdict of the sessions table.

\* What a hook has read for its reconciliation was stored.
ReadsBehind ==
    \A h \in Hooks :
        /\ readIds[h] \subseteq Ids(SessionOf[h])
        /\ readFailures[h] <= failures[SessionOf[h]]

\* Only session_end hooks come to reconcile.
Closing == {"stored", "ended", "reconciling", "reconciled"}
EndersClose == \A h \in Hooks : pc[h] \in Closing => Attr[h].phase = "session_end"

VerdictInv == VerdictCurrent /\ ReadsBehind /\ EndersClose

\* Steps that write no session row, no event and no outcome.
LEMMA VerdictFrame ==
    ASSUME VerdictInv, NEW h \in Hooks, NEW label, Goto(h, label), StoreInv,
           UNCHANGED <<events, failures, verdict, readIds, readFailures>>,
           pc[h] # "done", label = "done" => Attr[h].phase # "session_end",
           label \in Closing => pc[h] \in Closing
    PROVE  VerdictInv'
  <1>1. ASSUME NEW s \in Sessions
        PROVE  Reconcilers(s)' = Reconcilers(s)
    BY DEF Reconcilers, Goto, StoreInv, TypeOK
  <1>2. ASSUME NEW s \in Sessions
        PROVE  /\ Ids(s)' = Ids(s) /\ Partial(s)' = Partial(s)
               /\ Reported(s)' = Reported(s) /\ Unpaired(s)' = Unpaired(s)
    BY DEF Ids, EventsOf, Partial, Reported, Unpaired, Lacks
  <1>3. ASSUME NEW g \in Hooks
        PROVE  UpToDate(g)' = UpToDate(g)
    BY DEF UpToDate, Ids, EventsOf
  <1>4. VerdictCurrent'
    <2> SUFFICES ASSUME NEW s \in Sessions
                 PROVE  /\ Reconcilers(s)' = {} => (Partial(s)' <=> Reported(s)')
                        /\ Reconcilers(s)' # {} /\ (\A g \in Reconcilers(s)' : UpToDate(g)') =>
                             (Partial(s)' <=> Reported(s)' \/ Unpaired(s)')
      BY DEF VerdictCurrent
    <2>1. Reconcilers(s) \subseteq Hooks
      BY DEF Reconcilers
    <2>2. QED
      BY <1>1, <1>2, <1>3, <2>1 DEF VerdictInv, VerdictCurrent
  <1>5. ReadsBehind'
    BY DEF VerdictInv, ReadsBehind, Ids, EventsOf
  <1>6. EndersClose'
    BY DEF VerdictInv, EndersClose, Closing, Goto, StoreInv, TypeOK
  <1>7. QED
    BY <1>4, <1>5, <1>6 DEF VerdictInv

\* A new event makes what was read before it outdated.
LEMMA VerdictCommit ==
    ASSUME VerdictInv, StoreInv, NEW h \in Hooks, CommitEvent(h)
    PROVE  VerdictInv'
  <1>1. /\ readIds' = readIds /\ readFailures' = readFailures /\ failures' = failures
        /\ events' = events \union {NewRow(h)} /\ pc[h] = "allocated"
    BY DEF CommitEvent, readVars
  <1>2. PICK t \in Sessions : t = SessionOf[h]
    BY CaptureAssumption
  <1>3. NewRow(h).id = h /\ NewRow(h).session = t /\ NewRow(h).reasons = reasons[h]
    BY <1>2 DEF NewRow
  <1>4. \A s \in Sessions : Ids(s)' = IF s = t THEN Ids(s) \union {h} ELSE Ids(s)
    BY <1>1, <1>3 DEF Ids, EventsOf
  <1>5. h \notin Ids(t)
    BY <1>1 DEF Ids, EventsOf, StoreInv, RowPerHook, Exited
  <1>6. ReadsBehind'
    BY <1>1, <1>4, CaptureAssumption DEF VerdictInv, ReadsBehind
  <1>7. ASSUME NEW s \in Sessions
        PROVE  Reconcilers(s)' = Reconcilers(s)
    BY <1>1 DEF CommitEvent, Reconcilers, Goto, StoreInv, TypeOK
  <1>8. ASSUME NEW g \in Reconcilers(t)
        PROVE  ~UpToDate(g)'
    <2>1. g \in Hooks /\ SessionOf[g] = t
      BY DEF Reconcilers
    <2>2. h \notin readIds'[g]
      BY <1>1, <1>5, <2>1 DEF VerdictInv, ReadsBehind
    <2>3. h \in Ids(t)'
      BY <1>2, <1>4
    <2>4. QED
      BY <2>1, <2>2, <2>3 DEF UpToDate
  <1>9. verdict' = [verdict EXCEPT ![t] = IF reasons[h] # {} THEN reasons[h] ELSE @]
    BY <1>2 DEF CommitEvent
  <1>10. /\ Partial(t)' <=> Partial(t) \/ reasons[h] # {}
         /\ Reported(t)' <=> Reported(t) \/ reasons[h] # {}
    <2>1. Partial(t)' <=> Partial(t) \/ reasons[h] # {}
      BY <1>9 DEF Partial, StoreInv, TypeOK
    <2>2. EventsOf(t)' = EventsOf(t) \union {NewRow(h)}
      BY <1>1, <1>3 DEF EventsOf
    <2>3. (\E e \in EventsOf(t)' : e.reasons # {})
            <=> (\E e \in EventsOf(t) : e.reasons # {}) \/ reasons[h] # {}
      BY <1>3, <2>2
    <2>4. QED
      BY <1>1, <2>1, <2>3 DEF Reported
  <1>11. ASSUME NEW s \in Sessions, s # t
         PROVE  /\ Partial(s)' = Partial(s) /\ Reported(s)' = Reported(s)
                /\ Unpaired(s)' = Unpaired(s)
    <2>1. EventsOf(s)' = EventsOf(s)
      BY <1>1, <1>3, <1>11 DEF EventsOf
    <2>2. Ids(s)' = Ids(s)
      BY <2>1 DEF Ids
    <2>3. Partial(s)' = Partial(s)
      BY <1>9, <1>11 DEF Partial, StoreInv, TypeOK
    <2>4. Reported(s)' = Reported(s)
      BY <1>1, <2>1 DEF Reported
    <2>5. Unpaired(s)' = Unpaired(s)
      BY <2>2 DEF Unpaired, Lacks
    <2>6. QED
      BY <2>3, <2>4, <2>5
  <1>12. ASSUME NEW s \in Sessions, s # t, NEW g \in Reconcilers(s)
         PROVE  UpToDate(g)' = UpToDate(g)
    <2>1. SessionOf[g] = s
      BY DEF Reconcilers
    <2>2. Ids(s)' = Ids(s)
      BY <1>4, <1>12
    <2>3. QED
      BY <1>1, <2>1, <2>2 DEF UpToDate
  <1>13. VerdictCurrent'
    <2> SUFFICES ASSUME NEW s \in Sessions
                 PROVE  /\ Reconcilers(s)' = {} => (Partial(s)' <=> Reported(s)')
                        /\ Reconcilers(s)' # {} /\ (\A g \in Reconcilers(s)' : UpToDate(g)') =>
                             (Partial(s)' <=> Reported(s)' \/ Unpaired(s)')
      BY DEF VerdictCurrent
    <2>1. CASE s = t
      BY <1>7, <1>8, <1>10, <2>1 DEF VerdictInv, VerdictCurrent
    <2>2. CASE s # t
      BY <1>7, <1>11, <1>12, <2>2 DEF VerdictInv, VerdictCurrent
    <2>3. QED
      BY <2>1, <2>2
  <1>14. EndersClose'
    BY DEF VerdictInv, EndersClose, Closing, CommitEvent, Goto, StoreInv, TypeOK
  <1>15. QED
    BY <1>6, <1>13, <1>14 DEF VerdictInv

\* So does a new failure.
LEMMA VerdictFailure ==
    ASSUME VerdictInv, StoreInv, NEW h \in Hooks, RecordCaptureFailure(h)
    PROVE  VerdictInv'
  <1>1. /\ readIds' = readIds /\ readFailures' = readFailures /\ events' = events
        /\ pc' = [pc EXCEPT ![h] = "done"]
    BY DEF RecordCaptureFailure, readVars, Goto
  <1>2. PICK t \in Sessions : t = SessionOf[h]
    BY CaptureAssumption
  <1>3. /\ failures' = [failures EXCEPT ![t] = @ + 1]
        /\ verdict' = [verdict EXCEPT ![t] = {"capture_error"}]
    BY <1>2 DEF RecordCaptureFailure
  <1>4. failures \in [Sessions -> Nat] /\ readFailures \in [Hooks -> Nat]
        /\ verdict \in [Sessions -> SUBSET Reasons] /\ pc \in [Hooks -> {"idle"} \union Running \union Exited]
    BY DEF StoreInv, TypeOK
  <1>5. failures'[t] = failures[t] + 1 /\ \A s \in Sessions : s # t => failures'[s] = failures[s]
    BY <1>3, <1>4
  <1>6. \A s \in Sessions : EventsOf(s)' = EventsOf(s) /\ Ids(s)' = Ids(s) /\ Unpaired(s)' = Unpaired(s)
    BY <1>1 DEF EventsOf, Ids, Unpaired, Lacks
  <1>7. ASSUME NEW g \in Hooks
        PROVE  readFailures[g] <= failures[SessionOf[g]] /\ SessionOf[g] \in Sessions
    BY CaptureAssumption DEF VerdictInv, ReadsBehind
  <1>8. ReadsBehind'
    <2>1. ASSUME NEW g \in Hooks
          PROVE  readIds'[g] \subseteq Ids(SessionOf[g])'
      BY <1>1, <1>6, <1>7 DEF VerdictInv, ReadsBehind
    <2>2. ASSUME NEW g \in Hooks
          PROVE  readFailures'[g] <= failures'[SessionOf[g]]
      BY <1>1, <1>4, <1>5, <1>7
    <2>3. QED
      BY <2>1, <2>2 DEF ReadsBehind
  <1>9. ASSUME NEW g \in Reconcilers(t)'
        PROVE  ~UpToDate(g)'
    <2>1. g \in Hooks /\ SessionOf[g] = t
      BY DEF Reconcilers
    <2>2. readFailures'[g] # failures'[t]
      BY <1>1, <1>4, <1>5, <1>7, <2>1
    <2>3. QED
      BY <2>1, <2>2 DEF UpToDate
  <1>10. Partial(t)' /\ Reported(t)'
    <2>1. verdict'[t] = {"capture_error"} /\ failures'[t] > 0
      BY <1>3, <1>4, <1>5
    <2>2. QED
      BY <2>1 DEF Partial, Reported
  <1>11. ASSUME NEW s \in Sessions, s # t
         PROVE  /\ Partial(s)' = Partial(s) /\ Reported(s)' = Reported(s)
                /\ Reconcilers(s)' = Reconcilers(s)
    <2>1. verdict'[s] = verdict[s]
      BY <1>3, <1>4, <1>11
    <2>2. Reconcilers(s)' = Reconcilers(s)
      BY <1>1, <1>2, <1>4, <1>11 DEF Reconcilers
    <2>3. QED
      BY <1>5, <1>6, <1>11, <2>1, <2>2 DEF Partial, Reported
  <1>12. ASSUME NEW s \in Sessions, s # t, NEW g \in Reconcilers(s)
         PROVE  UpToDate(g)' = UpToDate(g)
    BY <1>1, <1>5, <1>6, <1>12 DEF UpToDate, Reconcilers
  <1>13. VerdictCurrent'
    <2> SUFFICES ASSUME NEW s \in Sessions
                 PROVE  /\ Reconcilers(s)' = {} => (Partial(s)' <=> Reported(s)')
                        /\ Reconcilers(s)' # {} /\ (\A g \in Reconcilers(s)' : UpToDate(g)') =>
                             (Partial(s)' <=> Reported(s)' \/ Unpaired(s)')
      BY DEF VerdictCurrent
    <2>1. CASE s = t
      BY <1>9, <1>10, <2>1
    <2>2. CASE s # t
      BY <1>6, <1>11, <1>12, <2>2 DEF VerdictInv, VerdictCurrent
    <2>3. QED
      BY <2>1, <2>2
  <1>14. EndersClose'
    BY <1>1 DEF VerdictInv, EndersClose, Closing, Goto, StoreInv, TypeOK
  <1>15. QED
    BY <1>8, <1>13, <1>14 DEF VerdictInv

\* What a hook reads for its reconciliation concerns no hook that is done.
LEMMA VerdictRead ==
    ASSUME VerdictInv, StoreInv, NEW h \in Hooks, ReconcileEvents(h) \/ ReconcileFailures(h)
    PROVE  VerdictInv'
  <1>1. /\ events' = events /\ failures' = failures /\ verdict' = verdict
        /\ pc[h] # "done" /\ pc'[h] # "done" /\ \A g \in Hooks \ {h} : pc'[g] = pc[g]
    BY DEF ReconcileEvents, ReconcileFailures, sessionVars, Goto, StoreInv, TypeOK
  <1>2. \A g \in Hooks \ {h} : readIds'[g] = readIds[g] /\ readFailures'[g] = readFailures[g]
    BY DEF ReconcileEvents, ReconcileFailures, StoreInv, TypeOK
  <1>3. /\ readIds'[h] = readIds[h] \/ readIds'[h] = Ids(SessionOf[h])
        /\ readFailures'[h] = readFailures[h] \/ readFailures'[h] = failures[SessionOf[h]]
    BY DEF ReconcileEvents, ReconcileFailures, Ids, StoreInv, TypeOK
  <1>4. \A s \in Sessions : Reconcilers(s)' = Reconcilers(s) /\ h \notin Reconcilers(s)
    BY <1>1 DEF Reconcilers
  <1>5. \A s : /\ Ids(s)' = Ids(s) /\ Partial(s)' = Partial(s)
               /\ Reported(s)' = Reported(s) /\ Unpaired(s)' = Unpaired(s)
    BY <1>1 DEF Ids, EventsOf, Partial, Reported, Unpaired, Lacks
  <1>6. ASSUME NEW g \in Hooks \ {h}
        PROVE  UpToDate(g)' = UpToDate(g)
    BY <1>1, <1>2, <1>5 DEF UpToDate
  <1>7. ReadsBehind'
    <2>1. ASSUME NEW g \in Hooks
          PROVE  readIds'[g] \subseteq Ids(SessionOf[g])'
      BY <1>2, <1>3, <1>5 DEF VerdictInv, ReadsBehind
    <2>2. ASSUME NEW g \in Hooks
          PROVE  readFailures'[g] <= failures'[SessionOf[g]]
      <3>1. failures[SessionOf[g]] \in Nat
        BY CaptureAssumption DEF StoreInv, TypeOK
      <3>2. QED
        BY <1>1, <1>2, <1>3, <3>1 DEF VerdictInv, ReadsBehind
    <2>3. QED
      BY <2>1, <2>2 DEF ReadsBehind
  <1>8. VerdictCurrent'
    <2> SUFFICES ASSUME NEW s \in Sessions
                 PROVE  /\ Reconcilers(s)' = {} => (Partial(s)' <=> Reported(s)')
                        /\ Reconcilers(s)' # {} /\ (\A g \in Reconcilers(s)' : UpToDate(g)') =>
                             (Partial(s)' <=> Reported(s)' \/ Unpaired(s)')
      BY DEF VerdictCurrent
    <2>1. \A g \in Reconcilers(s) : UpToDate(g)' = UpToDate(g)
      <3>1. Reconcilers(s) \subseteq Hooks \ {h}
        BY <1>4 DEF Reconcilers
      <3>2. QED
        BY <1>6, <3>1
    <2>2. QED
      BY <1>4, <1>5, <2>1 DEF VerdictInv, VerdictCurrent
  <1>9. EndersClose'
    BY DEF VerdictInv, EndersClose, Closing, ReconcileEvents, ReconcileFailures, Goto, StoreInv, TypeOK
  <1>10. QED
    BY <1>7, <1>8, <1>9 DEF VerdictInv

\* The verdict of a hook that has read everything there is.
LEMMA VerdictOfAll ==
    ASSUME StoreInv, NEW s \in Sessions
    PROVE  Verdict(Ids(s), failures[s]) # {} <=> Reported(s) \/ Unpaired(s)
  <1>1. {d \in events : d.id \in Ids(s)} = EventsOf(s)
    BY DEF Ids, EventsOf, StoreInv, RowPerHook
  <1>2. (UNION {e.reasons : e \in EventsOf(s)}) # {} <=> \E e \in EventsOf(s) : e.reasons # {}
    OBVIOUS
  <1>3. {r \in {"capture_error"} : failures[s] > 0} # {} <=> failures[s] > 0
    OBVIOUS
  <1>4. /\ {r \in {"missing_pre_event"} : Lacks(Ids(s), "pre", "post")} # {} <=> Lacks(Ids(s), "pre", "post")
        /\ {r \in {"missing_post_event"} : Lacks(Ids(s), "post", "pre")} # {} <=> Lacks(Ids(s), "post", "pre")
    OBVIOUS
  <1>5. \A A, B, C, D : (A \union B \union C \union D) # {} <=> A # {} \/ B # {} \/ C # {} \/ D # {}
    OBVIOUS
  <1>6. QED
    BY <1>1, <1>2, <1>3, <1>4, <1>5 DEF Verdict, Reported, Unpaired

\* The write of a reconciliation makes the row say what the hook has read.
LEMMA VerdictWrite ==
    ASSUME VerdictInv, StoreInv, NEW h \in Hooks, ReconcileWrite(h)
    PROVE  VerdictInv'
  <1>1. /\ events' = events /\ failures' = failures
        /\ readIds' = readIds /\ readFailures' = readFailures
        /\ pc' = [pc EXCEPT ![h] = "done"] /\ pc[h] = "reconciled"
    BY DEF ReconcileWrite, readVars, Goto
  <1>2. PICK t \in Sessions : t = SessionOf[h]
    BY CaptureAssumption
  <1>3. PICK w : w = Verdict(readIds[h], readFailures[h])
    OBVIOUS
  <1>4. verdict' = [verdict EXCEPT ![t] = w]
    BY <1>2, <1>3 DEF ReconcileWrite
  <1>5. ReadsBehind'
    BY <1>1 DEF VerdictInv, ReadsBehind, Ids, EventsOf
  <1>6. \A s \in Sessions : /\ Ids(s)' = Ids(s) /\ Reported(s)' = Reported(s) /\ Unpaired(s)' = Unpaired(s)
    BY <1>1 DEF Ids, EventsOf, Reported, Unpaired, Lacks
  <1>7. \A g \in Hooks : UpToDate(g)' = UpToDate(g)
    BY <1>1 DEF UpToDate, Ids, EventsOf
  <1>8. ASSUME NEW s \in Sessions, s # t
        PROVE  Partial(s)' = Partial(s) /\ Reconcilers(s)' = Reconcilers(s)
    <2>1. verdict'[s] = verdict[s]
      BY <1>4, <1>8 DEF StoreInv, TypeOK
    <2>2. Reconcilers(s)' = Reconcilers(s)
      BY <1>1, <1>2, <1>8 DEF Reconcilers, StoreInv, TypeOK
    <2>3. QED
      BY <2>1, <2>2 DEF Partial
  <1>9. h \in Reconcilers(t)'
    BY <1>1, <1>2 DEF VerdictInv, EndersClose, Closing, Reconcilers, StoreInv, TypeOK
  <1>10. ASSUME UpToDate(h)
         PROVE  Partial(t)' <=> Reported(t) \/ Unpaired(t)
    <2>1. w = Verdict(Ids(t), failures[t])
      BY <1>2, <1>3, <1>10 DEF UpToDate
    <2>2. verdict'[t] = w
      BY <1>4 DEF StoreInv, TypeOK
    <2>3. QED
      BY <2>1, <2>2, VerdictOfAll DEF Partial
  <1>11. VerdictCurrent'
    <2> SUFFICES ASSUME NEW s \in Sessions
                 PROVE  /\ Reconcilers(s)' = {} => (Partial(s)' <=> Reported(s)')
                        /\ Reconcilers(s)' # {} /\ (\A g \in Reconcilers(s)' : UpToDate(g)') =>
                             (Partial(s)' <=> Reported(s)' \/ Unpaired(s)')
      BY DEF VerdictCurrent
    <2>1. CASE s = t
      BY <1>6, <1>7, <1>9, <1>10, <2>1
    <2>2. CASE s # t
      <3>1. Reconcilers(s) \subseteq Hooks
        BY DEF Reconcilers
      <3>2. QED
        BY <1>6, <1>7, <1>8, <2>2, <3>1 DEF VerdictInv, VerdictCurrent
    <2>3. QED
      BY <2>1, <2>2
  <1>12. EndersClose'
    BY <1>1 DEF VerdictInv, EndersClose, Closing, StoreInv, TypeOK
  <1>13. QED
    BY <1>5, <1>11, <1>12 DEF VerdictInv

\* Every step preserves what the verdict rests on.
LEMMA VerdictStep == StoreInv /\ VerdictInv /\ [Next]_vars => VerdictInv'
  <1> SUFFICES ASSUME StoreInv, VerdictInv, [Next]_vars PROVE VerdictInv'
    OBVIOUS
  <1>1. ASSUME NEW h \in Hooks,
               \/ EnsureSession(h) \/ EnsureFails(h) \/ SkipCheckpoint(h) \/ ReadBaseline(h)
               \/ ReadPrevious(h) \/ HistoryFails(h) \/ TakeCheckpoint(h)
        PROVE  VerdictInv'
    <2>1. PICK label \in {"ensured", "unrecorded", "ready", "baseline", "history"} : Goto(h, label)
      BY <1>1 DEF EnsureSession, EnsureFails, SkipCheckpoint, ReadBaseline, ReadPrevious, HistoryFails,
         TakeCheckpoint
    <2>2. UNCHANGED <<events, failures, verdict, readIds, readFailures>> /\ pc[h] # "done"
      BY <1>1 DEF EnsureSession, EnsureFails, SkipCheckpoint, ReadBaseline, ReadPrevious, HistoryFails,
         TakeCheckpoint, sessionVars, readVars
    <2>3. QED
      BY <2>1, <2>2, VerdictFrame DEF Closing
  <1>2. ASSUME NEW h \in Hooks,
               \/ BeginImmediate(h) \/ BeginBusy(h) \/ Allocate(h) \/ RollBack(h)
               \/ RecordFailureFails(h) \/ EndFails(h) \/ Kill(h)
        PROVE  VerdictInv'
    <2>1. PICK label \in {"locked", "failed", "allocated", "unrecorded", "unreconciled", "killed"} :
            Goto(h, label)
      BY <1>2 DEF BeginImmediate, BeginBusy, Allocate, RollBack, RecordFailureFails, EndFails, Kill
    <2>2. UNCHANGED <<events, failures, verdict, readIds, readFailures>> /\ pc[h] # "done"
      BY <1>2 DEF BeginImmediate, BeginBusy, Allocate, RollBack, RecordFailureFails, EndFails, Kill,
         sessionVars, readVars, Running
    <2>3. QED
      BY <2>1, <2>2, VerdictFrame DEF Closing
  <1>3. ASSUME NEW h \in Hooks, EndSession(h)
        PROVE  VerdictInv'
    <2>1. /\ Goto(h, "ended") /\ pc[h] = "stored"
          /\ UNCHANGED <<events, failures, verdict, readIds, readFailures>>
      BY <1>3 DEF EndSession, readVars
    <2>2. QED
      BY <2>1, VerdictFrame DEF Closing
  <1>4. CASE UNCHANGED vars
    BY <1>4 DEF vars, sessionVars, readVars, VerdictInv, VerdictCurrent, ReadsBehind, EndersClose,
       Reconcilers, Partial, Reported, Unpaired, Lacks, UpToDate, Ids, EventsOf
  <1>5. QED
    BY <1>1, <1>2, <1>3, <1>4, VerdictCommit, VerdictFailure, VerdictRead, VerdictWrite
       DEF Next, Step, Quiet

\* The verdict of a session agrees with its events and failures: before a session_end
\* hook has reconciled it, and when one has that had read everything.
THEOREM VerdictIsCurrent == Spec => []VerdictCurrent
  <1>1. Init => VerdictInv
    <2> SUFFICES ASSUME Init PROVE VerdictInv
      OBVIOUS
    <2>1. ReadsBehind
      BY CaptureAssumption DEF Init, ReadsBehind
    <2>2. EndersClose
      BY DEF Init, EndersClose, Closing
    <2>3. VerdictCurrent
      BY DEF Init, VerdictCurrent, Reconcilers, Partial, Reported, EventsOf
    <2>4. QED
      BY <2>1, <2>2, <2>3 DEF VerdictInv
  <1>2. StoreInv /\ VerdictInv /\ [Next]_vars => VerdictInv'
    BY VerdictStep
  <1>3. VerdictInv => VerdictCurrent
    BY DEF VerdictInv
  <1>4. QED
    BY <1>1, <1>2, <1>3, StoreInvariant, PTL DEF Spec

-----------------------------------------------------------------------------
\* The store implements the abstract log.

\* The sequences of a session are those from 1 to the number of its events.
Dense ==
    \A s \in Sessions :
        /\ \A e \in EventsOf(s) : e.sequence \in 1 .. Cardinality(EventsOf(s))
        /\ \A i \in 1 .. Cardinality(EventsOf(s)) : \E e \in EventsOf(s) : e.sequence = i

\* Then the latest sequence is the number of events.
LEMMA LastIsCount ==
    ASSUME StoreInv, Dense, NEW s \in Sessions
    PROVE  LastSequence(s) = Cardinality(EventsOf(s)) /\ Cardinality(EventsOf(s)) \in Nat
  <1>1. PICK n \in Nat : n = Cardinality(EventsOf(s))
    BY EventsOfFinite DEF StoreInv
  <1>2. CASE EventsOf(s) = {}
    BY <1>1, <1>2, FS_EmptySet DEF LastSequence
  <1>3. CASE EventsOf(s) # {}
    <2>1. PICK m : m = LastSequence(s)
      OBVIOUS
    <2>2. /\ \E e \in EventsOf(s) : e.sequence = m
          /\ \A e \in EventsOf(s) : e.sequence <= m
      BY <1>3, <2>1, LastExists DEF StoreInv, IsLast
    <2>3. m \in 1 .. n
      BY <1>1, <2>2 DEF Dense
    <2>4. \E e \in EventsOf(s) : e.sequence = n
      BY <1>1, <2>3 DEF Dense
    <2>5. n <= m
      BY <2>2, <2>4
    <2>6. QED
      BY <1>1, <2>1, <2>3, <2>5
  <1>4. QED
    BY <1>2, <1>3, <1>1

\* What a commit adds to the log of its session.
LEMMA CommitAppends ==
    ASSUME StoreInv, Dense, NEW h \in Hooks, CommitEvent(h)
    PROVE  LET n == NewRow(h) s0 == SessionOf[h]
           IN /\ s0 \in Sessions /\ n.id = h
              /\ n.sequence = Cardinality(EventsOf(s0)) + 1
              /\ Cardinality(EventsOf(s0)) \in Nat
              /\ \A s \in Sessions : EventsOf(s)' = IF s = s0 THEN EventsOf(s) \union {n} ELSE EventsOf(s)
              /\ Cardinality(EventsOf(s0)') = Cardinality(EventsOf(s0)) + 1
  <1> DEFINE n == NewRow(h)  s0 == SessionOf[h]
  <1>1. /\ n \notin events /\ s0 \in Sessions /\ n.id = h /\ n.sequence = LastSequence(s0) + 1
        /\ \A s : EventsOf(s)' = IF s = s0 THEN EventsOf(s) \union {n} ELSE EventsOf(s)
    BY CommitFacts
  <1> HIDE DEF n, s0
  <1>2. LastSequence(s0) = Cardinality(EventsOf(s0)) /\ Cardinality(EventsOf(s0)) \in Nat
    BY <1>1, LastIsCount
  <1>3. n \notin EventsOf(s0)
    BY <1>1 DEF EventsOf
  <1>4. Cardinality(EventsOf(s0) \union {n}) = Cardinality(EventsOf(s0)) + 1
    BY <1>3, EventsOfFinite, FS_AddElement DEF StoreInv
  <1>5. QED
    BY <1>1, <1>2, <1>4 DEF n, s0

\* Dense is preserved by every step.
LEMMA DenseStep ==
    ASSUME StoreInv, Dense, [Next]_vars
    PROVE  Dense'
  <1>1. ASSUME NEW h \in Hooks, CommitEvent(h)
        PROVE  Dense'
    <2>1. PICK n : n = NewRow(h)
      OBVIOUS
    <2>2. PICK t \in Sessions : t = SessionOf[h]
      BY CaptureAssumption
    <2>3. PICK m \in Nat : m = Cardinality(EventsOf(t))
      BY <1>1, <2>2, CommitAppends
    <2>4. /\ n.sequence = m + 1 /\ Cardinality(EventsOf(t)') = m + 1
          /\ EventsOf(t)' = EventsOf(t) \union {n}
          /\ \A s \in Sessions \ {t} : EventsOf(s)' = EventsOf(s)
      BY <1>1, <2>1, <2>2, <2>3, CommitAppends
    <2>5. ASSUME NEW s \in Sessions
          PROVE  /\ \A e \in EventsOf(s)' : e.sequence \in 1 .. Cardinality(EventsOf(s)')
                 /\ \A i \in 1 .. Cardinality(EventsOf(s)') : \E e \in EventsOf(s)' : e.sequence = i
      <3>1. CASE s # t
        BY <2>4, <3>1 DEF Dense
      <3>2. CASE s = t
        <4>1. /\ \A e \in EventsOf(t) : e.sequence \in 1 .. m
              /\ \A i \in 1 .. m : \E e \in EventsOf(t) : e.sequence = i
          BY <2>3 DEF Dense
        <4>2. ASSUME NEW e \in EventsOf(t)'
              PROVE  e.sequence \in 1 .. m + 1
          BY <2>4, <4>1, <4>2
        <4>3. ASSUME NEW i \in 1 .. m + 1
              PROVE  \E e \in EventsOf(t)' : e.sequence = i
          <5>1. CASE i \in 1 .. m
            BY <2>4, <4>1, <5>1
          <5>2. CASE i = m + 1
            <6>1. n \in EventsOf(t)'
              BY <2>4
            <6>2. QED
              BY <2>4, <5>2, <6>1
          <5>3. QED
            BY <4>3, <5>1, <5>2, <2>3
        <4>4. Cardinality(EventsOf(t)') = m + 1
          BY <2>4
        <4>5. QED
          BY <3>2, <4>2, <4>3, <4>4
      <3>3. QED
        BY <3>1, <3>2
    <2>6. QED
      BY <2>5 DEF Dense
  <1>2. ASSUME events' = events
        PROVE  Dense'
    BY <1>2 DEF Dense, EventsOf
  <1>3. (\E h \in Hooks : CommitEvent(h)) \/ events' = events
    BY DEF Next, Step, Quiet, vars, EnsureSession, EnsureFails, SkipCheckpoint, ReadBaseline, ReadPrevious,
       HistoryFails, TakeCheckpoint, BeginImmediate, BeginBusy, Allocate, RollBack, RecordCaptureFailure,
       RecordFailureFails, EndSession, ReconcileEvents, ReconcileFailures, ReconcileWrite, EndFails, Kill
  <1>4. QED
    BY <1>1, <1>2, <1>3

\* A step that commits no event leaves every log alone.
LEMMA LogStays ==
    ASSUME UNCHANGED events
    PROVE  \A s \in Sessions : LogOf(s)' = LogOf(s)
  BY DEF LogOf, EventsOf

\* And such a step of one hook at most gives up that hook's capture.
LEMMA GivesUp ==
    ASSUME StoreInv, NEW h \in Hooks, NEW label, Goto(h, label), UNCHANGED events,
           pc[h] \in Exited \union {"failed"} => label \in Exited \union {"failed"}
    PROVE  Abstract!Lose(h) \/ \A g \in Hooks : FateOf(g)' = FateOf(g)
  <1>1. \A s \in Sessions : LogOf(s)' = LogOf(s)
    BY LogStays
  <1>2. ASSUME NEW g \in Hooks, g # h
        PROVE  FateOf(g)' = FateOf(g)
    <2>1. pc'[g] = pc[g]
      BY <1>2 DEF Goto, StoreInv, TypeOK
    <2>2. QED
      BY <2>1 DEF FateOf
  <1>3. pc'[h] = label
    BY DEF Goto, StoreInv, TypeOK
  <1>4. CASE FateOf(h)' = FateOf(h)
    BY <1>2, <1>4
  <1>5. CASE FateOf(h)' # FateOf(h)
    <2>1. FateOf(h) = "open" /\ FateOf(h)' = "lost"
      BY <1>3, <1>5 DEF FateOf
    <2>2. PICK F : F = [g \in Hooks |-> FateOf(g)]
      OBVIOUS
    <2>3. [g \in Hooks |-> FateOf(g)]' = [F EXCEPT ![h] = "lost"]
      BY <1>2, <2>1, <2>2
    <2>4. [s \in Sessions |-> LogOf(s)]' = [s \in Sessions |-> LogOf(s)]
      BY <1>1
    <2>5. Abstract!Lose(h)
      BY <2>1, <2>2, <2>3, <2>4 DEF Abstract!Lose
    <2>6. QED
      BY <2>5
  <1>6. QED
    BY <1>4, <1>5


\* A stored event keeps its place in the log of its session, and the log of a
\* commit's session grows by the id of the committing hook.
LEMMA Grows ==
    ASSUME StoreInv, Dense, NEW h \in Hooks, CommitEvent(h)
    PROVE  \A s \in Sessions :
             LogOf(s)' = IF s = SessionOf[h] THEN Append(LogOf(s), h) ELSE LogOf(s)
  <1>1. PICK n : n = NewRow(h)
    OBVIOUS
  <1>2. PICK t \in Sessions : t = SessionOf[h]
    BY CaptureAssumption
  <1>3. PICK m \in Nat : m = Cardinality(EventsOf(t))
    BY <1>2, CommitAppends
  <1>4. /\ n.id = h /\ n.sequence = m + 1 /\ Cardinality(EventsOf(t)') = m + 1
        /\ EventsOf(t)' = EventsOf(t) \union {n}
        /\ \A s \in Sessions \ {t} : EventsOf(s)' = EventsOf(s)
    BY <1>1, <1>2, <1>3, CommitAppends
  <1>5. ASSUME NEW s \in Sessions, s # t
        PROVE  LogOf(s)' = LogOf(s)
    <2>1. EventsOf(s)' = EventsOf(s)
      BY <1>4, <1>5
    <2>2. QED
      BY <2>1 DEF LogOf
  <1>6. PICK E : E = EventsOf(t)
    OBVIOUS
  <1>7. /\ \A e \in E : e.sequence \in 1 .. m
        /\ \A i \in 1 .. m : \E e \in E : e.sequence = i
    BY <1>3, <1>6 DEF Dense
  <1>8. ASSUME NEW i \in 1 .. m
        PROVE  (CHOOSE e \in E \union {n} : e.sequence = i) = (CHOOSE e \in E : e.sequence = i)
    <2>1. \A d, e \in E : d.sequence = e.sequence => d = e
      BY <1>6 DEF StoreInv, SequencesContiguous
    <2>2. PICK d \in E : d.sequence = i
      BY <1>7
    <2>3. i # m + 1
      BY <1>3
    <2>4. (CHOOSE e \in E \union {n} : e.sequence = i) = d
      BY <1>4, <2>1, <2>2, <2>3
    <2>5. (CHOOSE e \in E : e.sequence = i) = d
      BY <2>1, <2>2
    <2>6. QED
      BY <2>4, <2>5
  <1>9. (CHOOSE e \in E \union {n} : e.sequence = m + 1) = n
    <2>1. \A e \in E : e.sequence # m + 1
      BY <1>7, <1>3
    <2>2. QED
      BY <1>4, <2>1
  <1>10. LogOf(t) = [i \in 1 .. m |-> (CHOOSE e \in E : e.sequence = i).id]
    BY <1>3, <1>6 DEF LogOf
  <1>11. LogOf(t)' = [i \in 1 .. m + 1 |-> (CHOOSE e \in E \union {n} : e.sequence = i).id]
    BY <1>4, <1>6 DEF LogOf
  <1>12. LogOf(t)' = Append(LogOf(t), h)
    <2>1. ASSUME NEW i \in 1 .. m
          PROVE  LogOf(t)[i] \in Hooks /\ LogOf(t)'[i] = LogOf(t)[i]
      <3>1. PICK d : d \in E /\ d = (CHOOSE e \in E : e.sequence = i)
        BY <1>7
      <3>2. d.id \in Hooks
        BY <1>6, <3>1 DEF StoreInv, TypeOK, EventRow, EventsOf
      <3>3. i \in 1 .. m + 1
        BY <1>3
      <3>4. QED
        BY <1>8, <1>10, <1>11, <3>1, <3>2, <3>3
    <2>2. LogOf(t) \in [1 .. m -> Hooks]
      BY <1>10, <2>1
    <2>3. LogOf(t) \in Seq(Hooks) /\ Len(LogOf(t)) = m
      BY <1>3, <2>2
    <2>4. PICK A : A = Append(LogOf(t), h)
      OBVIOUS
    <2>5. /\ A \in Seq(Hooks) /\ Len(A) = m + 1
          /\ \A i \in 1 .. m : A[i] = LogOf(t)[i]
          /\ A[m + 1] = h
      BY <1>3, <2>3, <2>4
    <2>6. A = [i \in 1 .. m + 1 |-> A[i]]
      BY <1>3, <2>5
    <2>7. PICK B : B = LogOf(t)'
      OBVIOUS
    <2>8. B = [i \in 1 .. m + 1 |-> B[i]]
      BY <1>11, <2>7
    <2>9. B[m + 1] = h
      BY <1>3, <1>4, <1>9, <1>11, <2>7
    <2>10. \A i \in 1 .. m + 1 : A[i] = B[i]
      BY <1>3, <2>1, <2>5, <2>7, <2>9
    <2>11. A = B
      BY <2>6, <2>8, <2>10
    <2>12. QED
      BY <2>4, <2>7, <2>11
  <1>13. QED
    BY <1>2, <1>5, <1>12

\* A commit is the abstract log keeping the capture.
LEMMA Keeps ==
    ASSUME StoreInv, Dense, NEW h \in Hooks, CommitEvent(h)
    PROVE  Abstract!Keep(h)
  <1>1. PICK n : n = NewRow(h)
    OBVIOUS
  <1>2. /\ n.id = h /\ events' = events \union {n} /\ \A e \in events : e.id # h
    BY <1>1, CommitFacts DEF CommitEvent
  <1>3. pc[h] = "allocated" /\ \A g \in Hooks \ {h} : pc'[g] = pc[g]
    BY DEF CommitEvent, Goto, StoreInv, TypeOK
  <1>4. FateOf(h) = "open"
    BY <1>2, <1>3 DEF FateOf, Exited
  <1>5. FateOf(h)' = "kept"
    BY <1>2 DEF FateOf
  <1>6. ASSUME NEW g \in Hooks, g # h
        PROVE  FateOf(g)' = FateOf(g)
    <2>1. (\E e \in events' : e.id = g) <=> (\E e \in events : e.id = g)
      BY <1>2, <1>6
    <2>2. QED
      BY <1>3, <1>6, <2>1 DEF FateOf
  <1>7. PICK F : F = [g \in Hooks |-> FateOf(g)]
    OBVIOUS
  <1>8. [g \in Hooks |-> FateOf(g)]' = [F EXCEPT ![h] = "kept"]
    BY <1>5, <1>6, <1>7
  <1>9. PICK L : L = [s \in Sessions |-> LogOf(s)]
    OBVIOUS
  <1>10. PICK t \in Sessions : t = SessionOf[h]
    BY CaptureAssumption
  <1>11. [s \in Sessions |-> LogOf(s)]' = [L EXCEPT ![t] = Append(@, h)]
    BY <1>9, <1>10, Grows
  <1>12. QED
    BY <1>4, <1>7, <1>8, <1>9, <1>10, <1>11 DEF Abstract!Keep

\* A step that moves no hook and adds no event is a stutter of the log.
LEMMA LogStutters ==
    ASSUME UNCHANGED <<events, pc>>
    PROVE  UNCHANGED <<[s \in Sessions |-> LogOf(s)], [h \in Hooks |-> FateOf(h)]>>
  <1>1. \A s \in Sessions : LogOf(s)' = LogOf(s)
    BY LogStays
  <1>2. \A h \in Hooks : FateOf(h)' = FateOf(h)
    BY DEF FateOf
  <1>3. QED
    BY <1>1, <1>2

\* Every step of the store is one step of the log, or none.
LEMMA LogStep ==
    ASSUME StoreInv, Dense, [Next]_vars
    PROVE  [Abstract!Next]_<<[s \in Sessions |-> LogOf(s)], [h \in Hooks |-> FateOf(h)]>>
  <1>1. CASE UNCHANGED <<events, pc>>
    BY <1>1, LogStutters
  <1>2. ASSUME NEW h \in Hooks, Step(h) \/ Kill(h)
        PROVE  [Abstract!Next]_<<[s \in Sessions |-> LogOf(s)], [g \in Hooks |-> FateOf(g)]>>
    <2>1. CASE CommitEvent(h)
      BY <2>1, Keeps DEF Abstract!Next
    <2>2. CASE ~CommitEvent(h)
      <3>1. events' = events
        BY <1>2, <2>2 DEF Step, EnsureSession, EnsureFails, SkipCheckpoint, ReadBaseline,
           ReadPrevious, HistoryFails, TakeCheckpoint, BeginImmediate, BeginBusy, Allocate,
           RollBack, RecordCaptureFailure, RecordFailureFails, EndSession, ReconcileEvents,
           ReconcileFailures, ReconcileWrite, EndFails, Kill
      <3>2. PICK label : /\ Goto(h, label)
                         /\ pc[h] \in Exited \union {"failed"} => label \in Exited \union {"failed"}
        BY <1>2, <2>2 DEF Step, EnsureSession, EnsureFails, SkipCheckpoint, ReadBaseline,
           ReadPrevious, HistoryFails, TakeCheckpoint, BeginImmediate, BeginBusy, Allocate,
           RollBack, RecordCaptureFailure, RecordFailureFails, EndSession, ReconcileEvents,
           ReconcileFailures, ReconcileWrite, EndFails, Kill, Exited, Running
      <3>3. CASE Abstract!Lose(h)
        BY <3>3 DEF Abstract!Next
      <3>4. CASE \A g \in Hooks : FateOf(g)' = FateOf(g)
        <4>1. \A s \in Sessions : LogOf(s)' = LogOf(s)
          BY <3>1, LogStays
        <4>2. QED
          BY <3>4, <4>1
      <3>5. QED
        BY <3>1, <3>2, <3>3, <3>4, GivesUp
    <2>3. QED
      BY <2>1, <2>2
  <1>3. QED
    BY <1>1, <1>2 DEF Next, Quiet, vars

\* Nothing is stored, and nothing decided, at the start.
LEMMA LogInit ==
    ASSUME Init
    PROVE  Dense /\ Abstract!Init
  <1>1. \A s : EventsOf(s) = {} /\ Cardinality(EventsOf(s)) = 0
    BY FS_EmptySet DEF Init, EventsOf
  <1>2. Dense
    BY <1>1 DEF Dense
  <1>3. \A s : LogOf(s) = <<>>
    BY <1>1 DEF LogOf
  <1>4. \A h \in Hooks : FateOf(h) = "open"
    BY DEF Init, FateOf, Exited
  <1>5. QED
    BY <1>2, <1>3, <1>4 DEF Abstract!Init

\* The store implements the abstract log: a session's events only grow at the
\* end, each capture is kept once in its own session or lost, and neither is
\* revised, whichever hooks overlap, fail or die (WriteEvent, RecordCaptureFailure).
THEOREM ImplementsLog == Spec => ImplementsEventLog
  <1>1. Init => StoreInv /\ Dense /\ Abstract!Init
    BY InitInv, LogInit
  <1>2. StoreInv /\ Dense /\ [Next]_vars => Dense'
    BY DenseStep
  <1>3. StoreInv /\ Dense /\ [Next]_vars =>
          [Abstract!Next]_<<[s \in Sessions |-> LogOf(s)], [h \in Hooks |-> FateOf(h)]>>
    BY LogStep
  <1>4. QED
    BY <1>1, <1>2, <1>3, InvStep, PTL DEF Spec, ImplementsEventLog, Abstract!Spec

-----------------------------------------------------------------------------
\* The store as SessionSync sees it

LeastOf(P) == IF P = {} THEN 0 ELSE CHOOSE n \in P : \A m \in P : n <= m
PartialOf(s) == {e.sequence : e \in {d \in EventsOf(s) : d.reasons # {}}}

\* A set of numbers has a least one.
LEMMA Least ==
    ASSUME NEW T \in SUBSET Nat, T # {}
    PROVE  \E x \in T : \A y \in T : x <= y
  <1>1. PICK x \in T : \A y \in T : <<y, x>> \notin OpToRel(<, Nat)
    BY NatLessThanWellFounded, WFMin
  <1>2. \A y \in T : ~(y < x)
    BY <1>1 DEF OpToRel
  <1>3. QED
    BY <1>2

\* LeastOf finds it.
LEMMA LeastIs ==
    ASSUME NEW P \in SUBSET Nat
    PROVE  /\ P = {} => LeastOf(P) = 0
           /\ P # {} => LeastOf(P) \in P /\ \A m \in P : LeastOf(P) <= m
  <1>1. P # {} => \E n \in P : \A m \in P : n <= m
    BY Least
  <1>2. QED
    BY <1>1 DEF LeastOf

\* FirstPartial is the least sequence of a partial event, if there is one.
LEMMA FirstPartialIs ==
    ASSUME NEW s
    PROVE  FirstPartial(s) = LeastOf(PartialOf(s)) /\ FirstPartial(s)' = LeastOf(PartialOf(s)')
  BY DEF FirstPartial, LeastOf, PartialOf

\* It stays while no event is added.
LEMMA FirstPartialStays ==
    ASSUME NEW s, EventsOf(s)' = EventsOf(s)
    PROVE  FirstPartial(s)' = FirstPartial(s)
  <1>1. PartialOf(s)' = PartialOf(s)
    BY DEF PartialOf
  <1>2. QED
    BY <1>1, FirstPartialIs

\* A hook that commits has no row yet, so there are fewer rows than hooks.
LEMMA RoomLeft ==
    ASSUME StoreInv, NEW h \in Hooks, CommitEvent(h), NEW s
    PROVE  Cardinality(EventsOf(s)) < Cardinality(Hooks)
  <1>1. PICK E : E = EventsOf(s)
    OBVIOUS
  <1>2. /\ \A e \in E : e.id \in Hooks /\ e.id # h
        /\ \A d, e \in E : d.id = e.id => d = e
    BY <1>1, CommitFacts DEF EventsOf, StoreInv, TypeOK, EventRow, RowPerHook
  <1>3. IsFiniteSet(E) /\ Cardinality(E) \in Nat
    BY <1>1, EventsOfFinite DEF StoreInv
  <1>4. /\ IsFiniteSet(Hooks \ {h}) /\ Cardinality(Hooks \ {h}) \in Nat
        /\ Cardinality(Hooks) = Cardinality(Hooks \ {h}) + 1
    <2>1. IsFiniteSet(Hooks) /\ IsFiniteSet(Hooks \ {h})
      BY CaptureAssumption, FS_RemoveElement
    <2>2. Cardinality(Hooks \ {h}) = Cardinality(Hooks) - 1
      BY CaptureAssumption, FS_RemoveElement
    <2>3. Cardinality(Hooks) \in Nat /\ Cardinality(Hooks \ {h}) \in Nat
      BY <2>1, FS_CardinalityType
    <2>4. QED
      BY <2>1, <2>2, <2>3
  <1>5. Cardinality(E) <= Cardinality(Hooks \ {h})
    <2>1. SUFFICES ASSUME Cardinality(Hooks \ {h}) < Cardinality(E)
          PROVE  FALSE
      BY <1>3, <1>4
    <2>2. PICK f : f = [e \in E |-> e.id]
      OBVIOUS
    <2>3. f \in [E -> Hooks \ {h}]
      BY <1>2, <2>2
    <2>4. PICK d, e \in E : d # e /\ f[d] = f[e]
      BY <1>3, <1>4, <2>1, <2>3, FS_PigeonHole
    <2>5. QED
      BY <1>2, <2>2, <2>4
  <1>6. QED
    BY <1>1, <1>3, <1>4, <1>5

\* A commit adds one to the events of its session, and nothing to those of others; the
\* first partial event stays, or is the one that is added.
LEMMA FirstPartialGrows ==
    ASSUME StoreInv, Dense, NEW h \in Hooks, CommitEvent(h),
           NEW t, t = SessionOf[h], NEW m \in Nat, m = Cardinality(EventsOf(t)),
           NEW p \in BOOLEAN, p <=> reasons[h] # {}
    PROVE  /\ FirstPartial(t)' = IF p /\ FirstPartial(t) = 0 THEN m + 1 ELSE FirstPartial(t)
           /\ \A s \in Sessions : s # t => FirstPartial(s)' = FirstPartial(s)
  <1>1. PICK n : n = NewRow(h)
    OBVIOUS
  <1>2. /\ n.sequence = m + 1 /\ n.reasons = reasons[h] /\ t \in Sessions
        /\ EventsOf(t)' = EventsOf(t) \union {n}
        /\ \A s \in Sessions : s # t => EventsOf(s)' = EventsOf(s)
    BY <1>1, CommitAppends DEF NewRow
  <1>3. \A s \in Sessions : s # t => FirstPartial(s)' = FirstPartial(s)
    BY <1>2, FirstPartialStays
  <1>4. PICK F, G : F = FirstPartial(t) /\ G = FirstPartial(t)'
    OBVIOUS
  <1>5. PICK P, Q : P = PartialOf(t) /\ Q = PartialOf(t)'
    OBVIOUS
  <1>6. /\ P \in SUBSET (1 .. m) /\ (P = {} => F = 0)
        /\ P # {} => F \in P /\ \A k \in P : F <= k
    <2>1. \A e \in EventsOf(t) : e.sequence \in 1 .. m
      BY <1>2 DEF Dense
    <2>2. PartialOf(t) \in SUBSET (1 .. m)
      BY <2>1 DEF PartialOf
    <2>3. P \in SUBSET Nat /\ F = LeastOf(P)
      BY <1>4, <1>5, <2>2, FirstPartialIs
    <2>4. QED
      BY <1>5, <2>2, <2>3, LeastIs
  <1>7. Q = IF p THEN P \union {m + 1} ELSE P
    BY <1>2, <1>5 DEF PartialOf
  <1>8. /\ Q \in SUBSET Nat /\ (Q = {} => G = 0)
        /\ Q # {} => G \in Q /\ \A k \in Q : G <= k
    <2>1. Q \in SUBSET Nat
      <3>1. m + 1 \in Nat /\ P \in SUBSET Nat
        BY <1>6
      <3>2. QED
        BY <1>7, <3>1
    <2>2. G = LeastOf(Q)
      BY <1>4, <1>5, FirstPartialIs
    <2>3. QED
      BY <2>1, <2>2, LeastIs
  <1>9. G = IF p /\ F = 0 THEN m + 1 ELSE F
    <2>1. CASE p /\ P = {}
      BY <1>6, <1>8, <1>7, <2>1
    <2>2. CASE P # {}
      <3>1. F \in 1 .. m /\ F \in Q /\ G \in Q
        BY <1>6, <1>8, <1>7, <2>2
      <3>2. G <= F
        BY <1>8, <3>1
      <3>3. F <= G
        BY <1>6, <1>7, <2>2, <3>1
      <3>4. QED
        BY <1>8, <3>1, <3>2, <3>3
    <2>3. CASE ~p /\ P = {}
      BY <1>6, <1>8, <1>7, <2>3
    <2>4. QED
      BY <2>1, <2>2, <2>3
  <1>10. QED
    BY <1>3, <1>4, <1>9

\* A commit is a capture of SessionSync.
LEMMA CommitCaptures ==
    ASSUME StoreInv, Dense, NEW h \in Hooks, CommitEvent(h)
    PROVE  Sync!Next
  <1>1. PICK t \in Sessions : t = SessionOf[h]
    BY CaptureAssumption
  <1>2. PICK m \in Nat : m = Cardinality(EventsOf(t))
    BY <1>1, CommitAppends
  <1>3. PICK p \in BOOLEAN : p <=> reasons[h] # {}
    OBVIOUS
  <1>4. PICK S, F : /\ S = [s \in Sessions |-> Cardinality(EventsOf(s))]
                    /\ F = [s \in Sessions |-> FirstPartial(s)]
    OBVIOUS
  <1>5. [s \in Sessions |-> Cardinality(EventsOf(s))]' = [S EXCEPT ![t] = @ + 1]
    <2>1. Cardinality(EventsOf(t)') = m + 1
      BY <1>1, <1>2, CommitAppends
    <2>2. \A s \in Sessions : s # t => EventsOf(s)' = EventsOf(s)
      BY <1>1, CommitAppends
    <2>3. QED
      BY <1>1, <1>2, <1>4, <2>1, <2>2
  <1>6. [s \in Sessions |-> FirstPartial(s)]' = [F EXCEPT ![t] = IF p /\ @ = 0 THEN S[t] + 1 ELSE @]
    <2>1. /\ FirstPartial(t)' = IF p /\ FirstPartial(t) = 0 THEN m + 1 ELSE FirstPartial(t)
          /\ \A s \in Sessions : s # t => FirstPartial(s)' = FirstPartial(s)
      BY <1>1, <1>2, <1>3, FirstPartialGrows
    <2>2. S[t] = m /\ F[t] = FirstPartial(t)
      BY <1>2, <1>4
    <2>3. QED
      BY <1>4, <2>1, <2>2
  <1>7. S[t] < Cardinality(Hooks)
    BY <1>4, RoomLeft
  <1>8. Sync!CaptureEvent(t, p)
    BY <1>4, <1>5, <1>6, <1>7
    DEF Sync!CaptureEvent, Sync!planVars, Sync!envVars, Sync!serverVars
  <1>9. QED
    BY <1>8 DEF Sync!Next

\* Every other step leaves what SessionSync sees alone.
LEMMA SyncStep ==
    ASSUME StoreInv, Dense, [Next]_vars
    PROVE  [Sync!Next]_(Sync!vars)
  <1>1. ASSUME NEW h \in Hooks, CommitEvent(h)
        PROVE  Sync!Next
    BY <1>1, CommitCaptures
  <1>2. ASSUME events' = events
        PROVE  UNCHANGED Sync!vars
    <2>1. \A s : EventsOf(s)' = EventsOf(s)
      BY <1>2 DEF EventsOf
    <2>2. \A s : FirstPartial(s)' = FirstPartial(s)
      BY <2>1, FirstPartialStays
    <2>3. QED
      BY <2>1, <2>2 DEF Sync!vars, Sync!storeVars, Sync!planVars, Sync!envVars, Sync!serverVars
  <1>3. (\E h \in Hooks : CommitEvent(h)) \/ events' = events
    BY DEF Next, Step, Quiet, vars, EnsureSession, EnsureFails, SkipCheckpoint, ReadBaseline, ReadPrevious,
       HistoryFails, TakeCheckpoint, BeginImmediate, BeginBusy, Allocate, RollBack, RecordCaptureFailure,
       RecordFailureFails, EndSession, ReconcileEvents, ReconcileFailures, ReconcileWrite, EndFails, Kill
  <1>4. QED
    BY <1>1, <1>2, <1>3

\* An empty store is what SessionSync starts from.
LEMMA SyncInit ==
    ASSUME Init
    PROVE  Sync!Init
  <1>1. \A s : EventsOf(s) = {} /\ Cardinality(EventsOf(s)) = 0
    BY FS_EmptySet DEF Init, EventsOf
  <1>2. \A s : FirstPartial(s) = 0
    BY <1>1 DEF FirstPartial
  <1>3. QED
    BY <1>1, <1>2 DEF Sync!Init, Sync!Workers, Sync!NoList

\* The store implements the captures that SessionSync is about, for any hooks, failures
\* and kills: the number of a session's events stands for its events, and the sequence
\* of the first partial one for the verdict (WriteEvent).
THEOREM StoreFeedsSync == Spec => FeedsSync
  <1>1. Init => StoreInv /\ Dense /\ Sync!Init
    BY InitInv, LogInit, SyncInit
  <1>2. StoreInv /\ Dense /\ [Next]_vars => Dense'
    BY DenseStep
  <1>3. StoreInv /\ Dense /\ [Next]_vars => [Sync!Next]_(Sync!vars)
    BY SyncStep
  <1>4. QED
    BY <1>1, <1>2, <1>3, InvStep, PTL DEF Spec, FeedsSync, Sync!Spec

-----------------------------------------------------------------------------
\* Facts about one checkpoint.

\* addCheckpoint associates a file with the agent for one of two reasons: the
\* predecessor and the event enclose a change of it, or the predecessor already
\* associated the very same file state.
LEMMA AssociationCause ==
    ASSUME NEW a \in Attributes, NEW scan \in Scan, NEW base \in EventView,
           NEW prior \in EventView, NEW failed \in BOOLEAN,
           NEW c, c = BuildCheckpoint(a, scan, base, prior, failed),
           NEW f \in Associated(c)
    PROVE  /\ HasCheckpoint(prior) /\ c.previous = prior.sequence
           /\ \/ AttributedChange(a, f, prior, c)
              \/ /\ f \in DOMAIN prior.checkpoint.files
                 /\ prior.checkpoint.files[f] = c.files[f]
  <1> DEFINE status == CheckpointStatus(a, scan, base, prior, failed)
             old    == Before(scan, prior)
             seen   == Seen(scan, old)
             first  == FirstOfSession(a, prior, failed)
             paired == Paired(a, status, scan, prior)
             attribution == Attribution(a, f, seen[f], old, first, paired)
             files  == [g \in DOMAIN seen |->
               [status |-> seen[g].status, digest |-> seen[g].digest, meta |-> seen[g].meta,
                attribution |-> Attribution(a, g, seen[g], old, first, paired)]]
  <1>1. c = [status |-> status, previous |-> prior.sequence,
             root |-> scan.root, head |-> scan.head, files |-> files]
    BY DEF BuildCheckpoint
  <1>2. /\ c.status = status /\ c.previous = prior.sequence
        /\ c.root = scan.root /\ c.head = scan.head /\ c.files = files
    BY <1>1
  <1> HIDE DEF status, old, first, paired, seen
  <1>3. f \in DOMAIN seen
    BY <1>2 DEF Associated
  <1>4. /\ c.files[f].status = seen[f].status /\ c.files[f].digest = seen[f].digest
        /\ c.files[f].meta = seen[f].meta /\ c.files[f].attribution = attribution
        /\ c.files[f] = [status |-> seen[f].status, digest |-> seen[f].digest,
                         meta |-> seen[f].meta, attribution |-> attribution]
    BY <1>2, <1>3
  <1>5. attribution = "agent_associated"
    BY <1>4 DEF Associated
  <1>6. ~first
    BY <1>5 DEF Attribution
  <1>7. CASE f \in DOMAIN old /\ Unchanged(seen[f], old[f])
    <2>1. HasCheckpoint(prior) /\ old = prior.checkpoint.files
      BY <1>7 DEF old, Before, NoCheckpoint
    <2>2. old[f].attribution = "agent_associated"
      BY <1>5, <1>6, <1>7 DEF Attribution
    <2>3. old[f] \in FileState
      BY <1>7, <2>1, ListingElim DEF EventView, CheckpointRecord
    <2>4. /\ old[f].status = seen[f].status /\ old[f].digest = seen[f].digest
          /\ old[f].meta = seen[f].meta
      BY <1>7 DEF Unchanged
    <2>5. old[f] = c.files[f]
      BY <1>4, <1>5, <2>2, <2>3, <2>4 DEF FileState
    <2>6. QED
      BY <1>2, <1>7, <2>1, <2>5
  <1>8. CASE ~(f \in DOMAIN old /\ Unchanged(seen[f], old[f]))
    <2>1. paired /\ f \in a.targets /\ Changed(f, seen[f], old)
      BY <1>5, <1>6, <1>8 DEF Attribution
    <2>2. HasCheckpoint(prior) /\ old = prior.checkpoint.files
      BY <2>1 DEF paired, Paired, old, Before
    <2>3. Paired(a, c.status, c, prior)
      BY <1>2, <2>1 DEF paired, Paired
    <2>4. Changed(f, c.files[f], prior.checkpoint.files)
      BY <1>4, <2>1, <2>2 DEF Changed
    <2>5. QED
      BY <1>2, <2>1, <2>2, <2>3, <2>4 DEF AttributedChange
  <1>9. QED
    BY <1>7, <1>8

\* The id of a row determines the row, so that views of it never change.
LEMMA RowOfId ==
    ASSUME RowPerHook, NEW p \in events
    PROVE  Row(p.id) = p
  BY DEF RowPerHook, Row

LEMMA ViewOfRow ==
    ASSUME RowPerHook, NEW p \in events, p.id # NoHook
    PROVE  /\ View(p.id).sequence = p.sequence /\ View(p.id).checkpoint = p.checkpoint
           /\ View(p.id) = [stored |-> TRUE, sequence |-> p.sequence,
                            phase |-> Attr[p.id].phase,
                            invocation |-> Attr[p.id].invocation,
                            tool |-> Attr[p.id].tool, checkpoint |-> p.checkpoint]
  BY RowOfId DEF View

LEMMA ViewStable ==
    ASSUME StoreInv, StoreInv', events \subseteq events', NEW p \in events
    PROVE  View(p.id)' = View(p.id)
  <1>1. Row(p.id) = p
    BY RowOfId DEF StoreInv
  <1>2. Row(p.id)' = p
    BY DEF StoreInv, RowPerHook, Row
  <1>3. QED
    BY <1>1, <1>2 DEF View

\* The view of a stored row of the right type.
LEMMA StoredView ==
    ASSUME StoreInv, NEW p \in events
    PROVE  /\ p \in EventRow /\ p.id \in Hooks /\ p.id # NoHook
           /\ View(p.id) \in EventView
  <1>1. p \in EventRow /\ p.id \in Hooks /\ p.id # NoHook
    BY CaptureAssumption DEF StoreInv, TypeOK, EventRow
  <1>2. QED
    BY <1>1, ViewType DEF StoreInv

\* An explanation stays one while rows are only added.
LEMMA ExplanationStable ==
    ASSUME StoreInv, StoreInv', events \subseteq events', NEW p \in events,
           NEW a, NEW f, NEW c
    PROVE  Explains(p, a, f, c)' <=> Explains(p, a, f, c)
  <1>1. View(p.id)' = View(p.id)
    BY ViewStable
  <1>2. QED
    BY <1>1 DEF Explains, AttributedChange, Paired, HasCheckpoint, MatchingPre, Changed

-----------------------------------------------------------------------------
\* Drafts

\* An explained draft stays explained while rows are only added.
LEMMA DraftStable ==
    ASSUME StoreInv, StoreInv', events \subseteq events', NEW h \in Hooks,
           NEW c, Explained(h, c)
    PROVE  Explained(h, c)'
  <1>1. ASSUME NEW f \in Associated(c)
        PROVE  /\ c.status # "absent"
               /\ \E p \in EventsOf(SessionOf[h])' :
                    p.sequence = c.previous /\ Explains(p, Attr[h], f, c)'
    <2>1. PICK p \in EventsOf(SessionOf[h]) :
            p.sequence = c.previous /\ Explains(p, Attr[h], f, c)
      BY DEF Explained
    <2>2. Explains(p, Attr[h], f, c)' /\ p \in EventsOf(SessionOf[h])'
      BY <2>1, ExplanationStable DEF EventsOf
    <2>3. c.status # "absent"
      BY DEF Explained
    <2>4. QED
      BY <2>1, <2>2, <2>3
  <1>2. Associated(c)' = Associated(c)
    BY DEF Associated
  <1>3. QED
    BY <1>1, <1>2 DEF Explained

\* A step in which one hook h may replace its draft by an explained one, and
\* none of the others allocates, keeps every draft explained.
LEMMA DraftFrame ==
    ASSUME StoreInv, StoreInv', DraftExplained, events \subseteq events',
           NEW h \in Hooks, NEW c, checkpoint'[h] = c, Explained(h, c),
           pc'[h] = "allocated" /\ Associated(c) # {} => c.previous = sequence'[h] - 1,
           \A g \in Hooks \ {h} :
               /\ checkpoint'[g] = checkpoint[g] /\ sequence'[g] = sequence[g]
               /\ pc'[g] = "allocated" => pc[g] = "allocated"
    PROVE  DraftExplained'
  <1>1. ASSUME NEW g \in Hooks, NEW d, checkpoint'[g] = d, Explained(g, d),
               pc'[g] = "allocated" /\ Associated(d) # {} => d.previous = sequence'[g] - 1
        PROVE  /\ Explained(g, checkpoint[g])'
               /\ pc'[g] = "allocated" /\ Associated(checkpoint[g])' # {} =>
                    checkpoint'[g].previous = sequence'[g] - 1
    <2>1. Explained(g, d)'
      BY <1>1, DraftStable
    <2>2. Associated(checkpoint[g])' = Associated(d)
      BY <1>1 DEF Associated
    <2>3. Explained(g, checkpoint[g])'
      BY <1>1, <2>1 DEF Explained, Explains, AttributedChange, Associated
    <2>4. QED
      BY <1>1, <2>2, <2>3
  <1>2. ASSUME NEW g \in Hooks \ {h}
        PROVE  /\ Explained(g, checkpoint[g])'
               /\ pc'[g] = "allocated" /\ Associated(checkpoint[g])' # {} =>
                    checkpoint'[g].previous = sequence'[g] - 1
    <2>1. PICK d : d = checkpoint[g]
      OBVIOUS
    <2>2. /\ checkpoint'[g] = d /\ Explained(g, d)
          /\ pc'[g] = "allocated" /\ Associated(d) # {} => d.previous = sequence'[g] - 1
      BY <2>1 DEF DraftExplained
    <2>3. QED
      BY <1>1, <2>2
  <1>3. /\ Explained(h, checkpoint[h])'
        /\ pc'[h] = "allocated" /\ Associated(checkpoint[h])' # {} =>
             checkpoint'[h].previous = sequence'[h] - 1
    BY <1>1
  <1>4. QED
    BY <1>2, <1>3 DEF DraftExplained

\* The checkpoint a hook takes is explained by the event it read as predecessor.
LEMMA TakeExplained ==
    ASSUME StoreInv, StoreInv', DraftExplained, NEW h \in Hooks, TakeCheckpoint(h)
    PROVE  DraftExplained'
  <1>1. /\ UNCHANGED <<events, sequence>> /\ pc' = [pc EXCEPT ![h] = "ready"]
        /\ \A g \in Hooks \ {h} : checkpoint'[g] = checkpoint[g]
    BY DEF TakeCheckpoint, Goto, StoreInv, TypeOK
  <1>2. PICK base, prior, failed :
          base = View(baseline[h]) /\ prior = View(previous[h]) /\ failed = (h \in unread)
    OBVIOUS
  <1> PICK scan \in Scans : checkpoint'[h] = BuildCheckpoint(Attr[h], scan, base, prior, failed)
    BY <1>2 DEF TakeCheckpoint, StoreInv, TypeOK
  <1>3. PICK c : c = BuildCheckpoint(Attr[h], scan, base, prior, failed) /\ checkpoint'[h] = c
    OBVIOUS
  <1>4. /\ baseline[h] \in Hooks \union {NoHook} /\ previous[h] \in Hooks \union {NoHook}
        /\ \A id \in {baseline[h], previous[h]} :
             id # NoHook => \E e \in EventsOf(SessionOf[h]) : e.id = id
    BY DEF StoreInv, TypeOK, HistoryStored
  <1>5. base \in EventView /\ prior \in EventView /\ failed \in BOOLEAN
    BY <1>2, <1>4, ViewType DEF StoreInv, EventsOf
  <1>6. scan \in Scan /\ Attr[h] \in Attributes
    BY CaptureAssumption
  <1>7. ASSUME NEW f \in Associated(c)
        PROVE  /\ c.status # "absent"
               /\ \E p \in EventsOf(SessionOf[h]) :
                    p.sequence = c.previous /\ Explains(p, Attr[h], f, c)
    <2>1. /\ HasCheckpoint(prior) /\ c.previous = prior.sequence
          /\ \/ AttributedChange(Attr[h], f, prior, c)
             \/ /\ f \in DOMAIN prior.checkpoint.files
                /\ prior.checkpoint.files[f] = c.files[f]
      BY <1>3, <1>5, <1>6, AssociationCause
    <2>2. previous[h] # NoHook
      BY <1>2, <2>1 DEF View, HasCheckpoint, NoHistory
    <2>3. PICK p \in EventsOf(SessionOf[h]) : p.id = previous[h]
      BY <1>4, <2>2
    <2>4. p \in events
      BY DEF EventsOf
    <2>5. View(p.id).sequence = p.sequence /\ View(p.id).checkpoint = p.checkpoint
      BY <2>2, <2>3, <2>4, ViewOfRow DEF StoreInv
    <2>6. View(p.id) = prior
      BY <1>2, <2>3
    <2>7. Explains(p, Attr[h], f, c) /\ p.sequence = c.previous
      BY <2>1, <2>5, <2>6 DEF Explains
    <2>8. c.status \in {"complete", "partial", "failed"}
      <3>1. scan.status \in {"complete", "partial", "failed"}
        BY <1>6 DEF Scan
      <3>2. c.status = CheckpointStatus(Attr[h], scan, base, prior, failed)
        BY <1>3 DEF BuildCheckpoint
      <3>3. QED
        BY <3>1, <3>2 DEF CheckpointStatus
    <2>9. QED
      BY <2>7, <2>8
  <1>8. Explained(h, c)
    BY <1>7 DEF Explained
  <1>9. /\ pc'[h] # "allocated" /\ events \subseteq events'
        /\ \A g \in Hooks \ {h} : pc'[g] = pc[g] /\ sequence'[g] = sequence[g]
    BY <1>1 DEF StoreInv, TypeOK
  <1>10. QED
    BY <1>1, <1>3, <1>8, <1>9, DraftFrame

\* Allocating keeps the draft, whose predecessor is then the position below, or
\* withdraws what it associates.
LEMMA AllocateExplained ==
    ASSUME StoreInv, StoreInv', DraftExplained, NEW h \in Hooks, Allocate(h)
    PROVE  DraftExplained'
  <1>1. /\ events' = events
        /\ \A g \in Hooks \ {h} : checkpoint'[g] = checkpoint[g] /\ sequence'[g] = sequence[g]
                                  /\ pc'[g] = pc[g]
        /\ checkpoint'[h] = IF Overtaken(h) THEN Downgrade(checkpoint[h]) ELSE checkpoint[h]
        /\ sequence'[h] = LastSequence(SessionOf[h]) + 1
    BY DEF Allocate, Goto, StoreInv, TypeOK
  <1>2. LastSequence(SessionOf[h]) \in Nat
    BY CaptureAssumption, LastBounds DEF StoreInv
  <1>3. checkpoint[h] \in CheckpointRecord
    BY DEF StoreInv, TypeOK
  <1>4. PICK c : c = checkpoint'[h]
    OBVIOUS
  <1>5. Explained(h, c) /\ (Associated(c) # {} => c.previous = sequence'[h] - 1)
    <2>1. CASE Overtaken(h)
      <3>1. Associated(c) = {}
        BY <1>1, <1>3, <1>4, <2>1, DowngradeEffect DEF Associated
      <3>2. QED
        BY <3>1 DEF Explained
    <2>2. CASE ~Overtaken(h)
      <3>1. c = checkpoint[h]
        BY <1>1, <1>4, <2>2
      <3>2. Explained(h, c)
        BY <3>1 DEF DraftExplained
      <3>3. Associated(c) # {} => c.status # "absent"
        BY <3>2 DEF Explained
      <3>4. QED
        BY <1>1, <1>2, <2>2, <3>1, <3>2, <3>3 DEF Overtaken
    <2>3. QED
      BY <2>1, <2>2
  <1>6. events \subseteq events'
    BY <1>1
  <1>7. QED
    BY <1>1, <1>4, <1>5, <1>6, DraftFrame

\* Every other step of a hook leaves all drafts alone.
LEMMA OthersExplained ==
    ASSUME StoreInv, StoreInv', DraftExplained, NEW h \in Hooks, Step(h) \/ Kill(h),
           ~TakeCheckpoint(h), ~Allocate(h)
    PROVE  DraftExplained'
  <1>1. UNCHANGED <<checkpoint, sequence>> /\ events \subseteq events'
    BY DEF Step, Kill, EnsureSession, EnsureFails, SkipCheckpoint, ReadBaseline,
           ReadPrevious, HistoryFails, BeginImmediate, BeginBusy, CommitEvent, RollBack,
           RecordCaptureFailure, RecordFailureFails, EndSession, ReconcileEvents,
           ReconcileFailures, ReconcileWrite, EndFails, draftVars
  <1>2. \E label : Goto(h, label) /\ label # "allocated"
    BY DEF Step, Kill, EnsureSession, EnsureFails, SkipCheckpoint, ReadBaseline,
           ReadPrevious, HistoryFails, BeginImmediate, BeginBusy, CommitEvent, RollBack,
           RecordCaptureFailure, RecordFailureFails, EndSession, ReconcileEvents,
           ReconcileFailures, ReconcileWrite, EndFails
  <1>3. pc'[h] # "allocated" /\ \A g \in Hooks \ {h} : pc'[g] = pc[g]
    BY <1>2 DEF Goto, StoreInv, TypeOK
  <1>4. PICK c : c = checkpoint[h]
    OBVIOUS
  <1>5. checkpoint'[h] = c /\ Explained(h, c)
    BY <1>1, <1>4 DEF DraftExplained
  <1>6. QED
    BY <1>1, <1>3, <1>5, DraftFrame

-----------------------------------------------------------------------------
\* The log

\* A step that stores nothing leaves every explanation and every origin alone.
LEMMA LogUntouched ==
    ASSUME AttributionSound, AttributionTraceable, UNCHANGED events
    PROVE  AttributionSound' /\ AttributionTraceable'
  <1>1. \A id : View(id)' = View(id)
    BY DEF View, Row
  <1>2. \A s : EventsOf(s)' = EventsOf(s)
    BY DEF EventsOf
  <1>3. \A p, a, f, c : Explains(p, a, f, c)' <=> Explains(p, a, f, c)
    BY <1>1 DEF Explains, AttributedChange, Paired, HasCheckpoint, MatchingPre, Changed
  <1>4. \A k, p, f, e : Origin(k, p, f, e)' <=> Origin(k, p, f, e)
    BY <1>1, <1>2 DEF Origin, AttributedChange, Paired, HasCheckpoint, MatchingPre, Changed
  <1>5. QED
    BY <1>2, <1>3, <1>4 DEF AttributionSound, AttributionTraceable, Associated

\* Committing stores the explained draft one position above its explanation.
LEMMA CommitSound ==
    ASSUME StoreInv, StoreInv', AttributionInv, NEW h \in Hooks, CommitEvent(h)
    PROVE  AttributionSound'
  <1> PICK n : n = NewRow(h)
    OBVIOUS
  <1>1. /\ events' = events \union {n} /\ pc[h] = "allocated"
        /\ n.id = h /\ n.session = SessionOf[h]
        /\ n.sequence = sequence[h] /\ n.checkpoint = checkpoint[h]
    BY DEF CommitEvent, NewRow
  <1>2. ASSUME NEW e \in events', NEW f \in Associated(e.checkpoint)
        PROVE  \E p \in EventsOf(e.session)' :
                 p.sequence = e.sequence - 1 /\ Explains(p, Attr[e.id], f, e.checkpoint)'
    <2>1. \E p \in EventsOf(e.session) :
            p.sequence = e.sequence - 1 /\ Explains(p, Attr[e.id], f, e.checkpoint)
      <3>1. CASE e \in events
        BY <3>1 DEF AttributionInv, AttributionSound
      <3>2. CASE e = n
        BY <1>1, <3>2 DEF AttributionInv, DraftExplained, Explained
      <3>3. QED
        BY <1>1, <3>1, <3>2
    <2>2. PICK p \in EventsOf(e.session) :
            p.sequence = e.sequence - 1 /\ Explains(p, Attr[e.id], f, e.checkpoint)
      BY <2>1
    <2>3. Explains(p, Attr[e.id], f, e.checkpoint)' /\ p \in EventsOf(e.session)'
      BY <1>1, <2>2, ExplanationStable DEF EventsOf
    <2>4. QED
      BY <2>2, <2>3
  <1>3. \A e : Associated(e.checkpoint)' = Associated(e.checkpoint)
    BY DEF Associated
  <1>4. QED
    BY <1>2, <1>3 DEF AttributionSound

\* The origin of an association in the log is not disturbed by the new row,
\* which is above it.
LEMMA OriginStable ==
    ASSUME StoreInv, StoreInv', NEW h \in Hooks, CommitEvent(h), NEW e \in events,
           NEW k \in EventsOf(e.session), NEW p \in EventsOf(e.session), NEW f,
           Origin(k, p, f, e)
    PROVE  Origin(k, p, f, e)'
  <1> PICK n : n = NewRow(h)
    OBVIOUS
  <1>1. /\ \A s : EventsOf(s)' = IF s = SessionOf[h] THEN EventsOf(s) \union {n} ELSE EventsOf(s)
        /\ \A d \in EventsOf(SessionOf[h]) : d.sequence \in Nat /\ d.sequence < n.sequence
        /\ n.sequence \in Nat
    BY CommitFacts
  <1>2. events \subseteq events' /\ p \in events
    BY DEF CommitEvent, EventsOf
  <1>3. View(p.id)' = View(p.id)
    BY <1>2, ViewStable
  <1>4. AttributedChange(Attr[k.id], f, View(p.id), k.checkpoint)'
    BY <1>3 DEF Origin, AttributedChange, Paired, HasCheckpoint, MatchingPre, Changed
  <1>5. k.sequence \in Nat /\ e.sequence \in Nat
    BY DEF StoreInv, TypeOK, EventRow, EventsOf
  <1>6. ASSUME NEW m \in EventsOf(e.session)', m.sequence \in k.sequence .. e.sequence
        PROVE  f \in DOMAIN m.checkpoint.files /\ m.checkpoint.files[f] = e.checkpoint.files[f]
    <2>1. m # n
      <3>1. CASE e.session = SessionOf[h]
        <4>1. e.sequence < n.sequence
          BY <1>1, <3>1 DEF EventsOf
        <4>2. QED
          BY <1>1, <1>5, <1>6, <4>1
      <3>2. CASE e.session # SessionOf[h]
        BY <1>1, <3>2, CommitFacts DEF EventsOf
      <3>3. QED
        BY <3>1, <3>2
    <2>2. m \in EventsOf(e.session)
      BY <1>1, <2>1
    <2>3. QED
      BY <1>6, <2>2 DEF Origin
  <1>7. QED
    BY <1>4, <1>6 DEF Origin

\* The new row either is the origin of an association or extends that of its
\* predecessor.
LEMMA CommitOrigin ==
    ASSUME StoreInv, StoreInv', AttributionInv, NEW h \in Hooks, CommitEvent(h),
           NEW n, n = NewRow(h), NEW f \in Associated(n.checkpoint)
    PROVE  \E k, p \in EventsOf(n.session)' : Origin(k, p, f, n)'
  <1>1. /\ \A s : EventsOf(s)' = IF s = SessionOf[h] THEN EventsOf(s) \union {n} ELSE EventsOf(s)
        /\ \A d \in EventsOf(SessionOf[h]) : d.sequence \in Nat /\ d.sequence < n.sequence
        /\ n.sequence \in Nat /\ n.session = SessionOf[h] /\ n.id = h
    BY CommitFacts
  <1>2. /\ events \subseteq events' /\ pc[h] = "allocated"
        /\ n.sequence = sequence[h] /\ n.checkpoint = checkpoint[h]
    BY DEF CommitEvent, NewRow
  <1>3. PICK p \in EventsOf(n.session) :
          p.sequence = n.sequence - 1 /\ Explains(p, Attr[h], f, n.checkpoint)
    BY <1>1, <1>2 DEF AttributionInv, DraftExplained, Explained
  <1>4. p \in events /\ p.session = n.session
    BY DEF EventsOf
  <1>5. CASE AttributedChange(Attr[h], f, View(p.id), n.checkpoint)
    <2>1. View(p.id)' = View(p.id)
      BY <1>2, <1>4, ViewStable
    <2>2. AttributedChange(Attr[n.id], f, View(p.id), n.checkpoint)'
      BY <1>1, <1>5, <2>1 DEF AttributedChange, Paired, HasCheckpoint, MatchingPre, Changed
    <2>3. \A m \in EventsOf(n.session)' : m.sequence \in n.sequence .. n.sequence => m = n
      BY <1>1
    <2>4. f \in DOMAIN n.checkpoint.files
      BY DEF Associated
    <2>5. Origin(n, p, f, n)'
      BY <1>1, <1>3, <2>2, <2>3, <2>4 DEF Origin
    <2>6. QED
      BY <1>1, <1>3, <2>5
  <1>6. CASE f \in DOMAIN p.checkpoint.files /\ p.checkpoint.files[f] = n.checkpoint.files[f]
    <2>1. f \in Associated(p.checkpoint)
      BY <1>6 DEF Associated
    <2>2. PICK k, q \in EventsOf(p.session) : Origin(k, q, f, p)
      BY <1>4, <2>1 DEF AttributionInv, AttributionTraceable
    <2>3. Origin(k, q, f, p)'
      BY <1>4, <2>2, OriginStable
    <2>4. k.sequence \in Nat /\ p.sequence \in Nat /\ k.sequence <= p.sequence
      BY <1>4, <2>2 DEF Origin, StoreInv, TypeOK, EventRow, EventsOf
    <2>5. ASSUME NEW m \in EventsOf(n.session)', m.sequence \in k.sequence .. n.sequence
          PROVE  f \in DOMAIN m.checkpoint.files
                 /\ m.checkpoint.files[f] = n.checkpoint.files[f]
      <3>1. CASE m = n
        BY <3>1 DEF Associated
      <3>2. CASE m # n
        <4>1. m.sequence \in k.sequence .. p.sequence
          BY <1>1, <1>3, <2>4, <2>5, <3>2
        <4>2. QED
          BY <1>4, <1>6, <2>3, <2>5, <4>1 DEF Origin
      <3>3. QED
        BY <3>1, <3>2
    <2>6. Origin(k, q, f, n)'
      BY <1>1, <1>3, <2>3, <2>4, <2>5 DEF Origin
    <2>7. k \in EventsOf(n.session)' /\ q \in EventsOf(n.session)'
      BY <1>1, <1>4, <2>2
    <2>8. QED
      BY <2>6, <2>7
  <1>7. QED
    BY <1>3, <1>5, <1>6 DEF Explains

LEMMA CommitTraceable ==
    ASSUME StoreInv, StoreInv', AttributionInv, NEW h \in Hooks, CommitEvent(h)
    PROVE  AttributionTraceable'
  <1> PICK n : n = NewRow(h)
    OBVIOUS
  <1>1. events' = events \union {n}
    BY DEF CommitEvent
  <1>2. ASSUME NEW e \in events', NEW f \in Associated(e.checkpoint)
        PROVE  \E k, p \in EventsOf(e.session)' : Origin(k, p, f, e)'
    <2>1. CASE e \in events
      <3>1. PICK k, p \in EventsOf(e.session) : Origin(k, p, f, e)
        BY <2>1 DEF AttributionInv, AttributionTraceable
      <3>2. Origin(k, p, f, e)'
        BY <2>1, <3>1, OriginStable
      <3>3. k \in EventsOf(e.session)' /\ p \in EventsOf(e.session)'
        BY <1>1, <3>1 DEF EventsOf
      <3>4. QED
        BY <3>2, <3>3
    <2>2. CASE e = n
      BY <2>2, CommitOrigin
    <2>3. QED
      BY <1>1, <2>1, <2>2
  <1>3. \A e : Associated(e.checkpoint)' = Associated(e.checkpoint)
    BY DEF Associated
  <1>4. QED
    BY <1>2, <1>3 DEF AttributionTraceable

-----------------------------------------------------------------------------
\* The invariant is inductive relative to the one of the store.
LEMMA AttributionStep ==
    ASSUME StoreInv, StoreInv', AttributionInv, [Next]_vars
    PROVE  AttributionInv'
  <1>1. ASSUME NEW h \in Hooks, Step(h) \/ Kill(h)
        PROVE  AttributionInv'
    <2>1. DraftExplained'
      BY <1>1, TakeExplained, AllocateExplained, OthersExplained DEF AttributionInv
    <2>2. CASE CommitEvent(h)
      BY <2>1, <2>2, CommitSound, CommitTraceable DEF AttributionInv
    <2>3. CASE ~CommitEvent(h)
      <3>1. UNCHANGED events
        BY <1>1, <2>3
           DEF Step, Kill, EnsureSession, EnsureFails, SkipCheckpoint, ReadBaseline,
               ReadPrevious, HistoryFails, TakeCheckpoint, BeginImmediate, BeginBusy,
               Allocate, RollBack, RecordCaptureFailure, RecordFailureFails, EndSession,
               ReconcileEvents, ReconcileFailures, ReconcileWrite, EndFails
      <3>2. QED
        BY <2>1, <3>1, LogUntouched DEF AttributionInv
    <2>4. QED
      BY <2>2, <2>3
  <1>2. CASE UNCHANGED vars
    <2>1. UNCHANGED <<events, pc, checkpoint, sequence>>
      BY <1>2 DEF vars, draftVars
    <2>2. AttributionSound' /\ AttributionTraceable'
      BY <2>1, LogUntouched DEF AttributionInv
    <2>3. DraftExplained'
      <3>1. CASE Hooks = {}
        BY <3>1 DEF DraftExplained
      <3>2. ASSUME NEW h \in Hooks PROVE DraftExplained'
        <4>1. PICK c : c = checkpoint[h]
          OBVIOUS
        <4>2. /\ Explained(h, c)
              /\ pc'[h] = "allocated" /\ Associated(c) # {} => c.previous = sequence'[h] - 1
          BY <2>1, <4>1 DEF AttributionInv, DraftExplained
        <4>3. QED
          BY <2>1, <4>1, <4>2, DraftFrame DEF AttributionInv
      <3>3. QED
        BY <3>1, <3>2
    <2>4. QED
      BY <2>2, <2>3 DEF AttributionInv
  <1>3. QED
    BY <1>1, <1>2 DEF Next, Quiet

\* Every draft and every stored association is explained at all times.
THEOREM AttributionInvariant == Spec => []AttributionInv
  <1>1. Init => AttributionInv
    BY DEF Init, AttributionInv, DraftExplained, Explained, Associated, NoCheckpoint,
           AttributionSound, AttributionTraceable
  <1>2. StoreInv /\ StoreInv' /\ AttributionInv /\ [Next]_vars => AttributionInv'
    BY AttributionStep
  <1>3. QED
    BY <1>1, <1>2, StoreInvariant, PTL DEF Spec

\* A stored event associates a file with the agent only if the event stored just
\* before explains it, although another process may have stored one between the
\* comparison and the transaction.
THEOREM AttributionIsSound == Spec => []AttributionSound
  <1>1. AttributionInv => AttributionSound
    BY DEF AttributionInv
  <1>2. QED
    BY <1>1, AttributionInvariant, PTL

\* Every association goes back to one change enclosed by a matching pair of
\* events, through stored events that all saw the file in the same state.
THEOREM AttributionIsTraceable == Spec => []AttributionTraceable
  <1>1. AttributionInv => AttributionTraceable
    BY DEF AttributionInv
  <1>2. QED
    BY <1>1, AttributionInvariant, PTL
=============================================================================
