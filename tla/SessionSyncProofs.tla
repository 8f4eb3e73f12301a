--------------------------- MODULE SessionSyncProofs ---------------------------
(***************************************************************************)
(* What last_synced_event_count, a successful `secuarden sync` and the     *)
(* envelopes on the server promise, for any sessions, workers, failures    *)
(* and late requests.                                                      *)
(***************************************************************************)
EXTENDS SessionSync, TLAPS

InFlight == {"read", "posted", "accepted"}

\* Every envelope was read from the store.
EnvelopesRead ==
    \A e \in received \union late :
        e.count <= stored[e.session] /\ (e.partial => flaw[e.session] \in 1 .. e.count)

\* So is the one a worker is building, the row before the events.
DraftRead(u) ==
    /\ pc[u] \in {"row"} \union InFlight =>
         job[u] \in todo[u] /\ (row[u] => flaw[job[u]] > 0)
    /\ pc[u] \in InFlight =>
         /\ listed[u][job[u]] <= count[u] /\ count[u] <= stored[job[u]]
         /\ row[u] => flaw[job[u]] <= count[u]
    /\ pc[u] = "accepted" => EnvelopeOf(u) \in received

\* What a command listed and has not to upload any more was delivered.
ListDelivered(u) ==
    /\ \A s \in Sessions : /\ listed[u][s] <= stored[s]
                           /\ listed[u][s] > 0 /\ s \notin todo[u] =>
                                Delivered(s, listed[u][s])
    /\ pc[u] = "complete" => todo[u] = {}
    /\ u \in EndHooks => listed[u] = NoList

FlawStored == \A s \in Sessions : flaw[s] <= stored[s]

SyncInv ==
    /\ TypeOK /\ FlawStored /\ EnvelopesRead /\ SyncedIsDelivered
    /\ \A u \in Workers : DraftRead(u) /\ ListDelivered(u)

-----------------------------------------------------------------------------
\* Frames

\* A step of one worker leaves what is known of the others.
LEMMA OtherWorker ==
    ASSUME NEW v \in Workers, DraftRead(v), ListDelivered(v),
           UNCHANGED <<stored, flaw>>, received \subseteq received',
           pc'[v] = pc[v], todo'[v] = todo[v], listed'[v] = listed[v],
           job'[v] = job[v], row'[v] = row[v], count'[v] = count[v]
    PROVE  DraftRead(v)' /\ ListDelivered(v)'
  <1>1. EnvelopeOf(v)' = EnvelopeOf(v)
    BY DEF EnvelopeOf
  <1>2. DraftRead(v)'
    BY <1>1 DEF DraftRead
  <1>3. \A s, n : Delivered(s, n) => Delivered(s, n)'
    BY DEF Delivered
  <1>4. ListDelivered(v)'
    <2>1. PICK l : l = listed[v]
      OBVIOUS
    <2>2. \A s : Delivered(s, l[s]) => Delivered(s, listed[v][s])'
      BY <1>3, <2>1 DEF Delivered
    <2>3. QED
      BY <2>1, <2>2 DEF ListDelivered
  <1>5. QED
    BY <1>2, <1>4

\* The facts about the store and the server hold on while nothing changes there.
LEMMA StoreFrame ==
    ASSUME FlawStored, EnvelopesRead, SyncedIsDelivered,
           UNCHANGED <<stored, flaw, synced, received, late>>
    PROVE  FlawStored' /\ EnvelopesRead' /\ SyncedIsDelivered'
  BY DEF FlawStored, EnvelopesRead, SyncedIsDelivered

-----------------------------------------------------------------------------
\* Types

LEMMA InitSync == Init => SyncInv
  <1> SUFFICES ASSUME Init PROVE SyncInv
    OBVIOUS
  <1>1. TypeOK
    BY SyncAssumption DEF Init, TypeOK, NoList
  <1>2. FlawStored /\ EnvelopesRead /\ SyncedIsDelivered
    BY DEF Init, FlawStored, EnvelopesRead, SyncedIsDelivered
  <1>3. \A u \in Workers : DraftRead(u) /\ ListDelivered(u)
    BY DEF Init, DraftRead, ListDelivered, InFlight, NoList
  <1>4. QED
    BY <1>1, <1>2, <1>3 DEF SyncInv

LEMMA EnvelopeType ==
    ASSUME TypeOK, NEW u \in Workers, job[u] \in Sessions
    PROVE  EnvelopeOf(u) \in Envelope
  BY DEF TypeOK, Envelope, EnvelopeOf

\* The effect of a step of worker u, which moves only u.
Moves(u) ==
    /\ \A v \in Workers \ {u} :
         /\ pc'[v] = pc[v] /\ todo'[v] = todo[v] /\ listed'[v] = listed[v]
         /\ job'[v] = job[v] /\ row'[v] = row[v] /\ count'[v] = count[v]
    /\ UNCHANGED <<stored, flaw>>

\* What remains to be shown of a step of worker u.
LEMMA WorkerStep ==
    ASSUME SyncInv, NEW u \in Workers, Moves(u), received \subseteq received',
           TypeOK', EnvelopesRead', SyncedIsDelivered', DraftRead(u)', ListDelivered(u)'
    PROVE  SyncInv'
  <1>1. FlawStored'
    BY DEF SyncInv, FlawStored, Moves
  <1>2. ASSUME NEW v \in Workers \ {u}
        PROVE  DraftRead(v)' /\ ListDelivered(v)'
    BY OtherWorker DEF SyncInv, Moves
  <1>3. QED
    BY <1>1, <1>2 DEF SyncInv

-----------------------------------------------------------------------------
\* The actions

LEMMA CaptureInv ==
    ASSUME SyncInv, NEW s \in Sessions, NEW partial \in BOOLEAN, CaptureEvent(s, partial)
    PROVE  SyncInv'
  <1>1. /\ UNCHANGED <<synced, pc, todo, listed, job, row, count, received, late, faults>>
        /\ stored' = [stored EXCEPT ![s] = @ + 1]
        /\ flaw' = [flaw EXCEPT ![s] = IF partial /\ @ = 0 THEN stored[s] + 1 ELSE @]
    BY DEF CaptureEvent, planVars, envVars, serverVars
  <1>2. /\ stored \in [Sessions -> Nat] /\ flaw \in [Sessions -> Nat]
        /\ \A r \in Sessions : flaw[r] <= stored[r]
    BY DEF SyncInv, TypeOK, FlawStored
  <1>3. /\ stored' \in [Sessions -> Nat] /\ flaw' \in [Sessions -> Nat]
        /\ \A r \in Sessions : stored[r] <= stored'[r] /\ flaw'[r] <= stored'[r]
        /\ \A r \in Sessions : flaw[r] > 0 => flaw'[r] = flaw[r]
    BY <1>1, <1>2
  <1>4. TypeOK' /\ FlawStored'
    BY <1>1, <1>3 DEF SyncInv, TypeOK, FlawStored
  <1>5. EnvelopesRead'
    <2>1. ASSUME NEW e \in received \union late
          PROVE  e.count <= stored'[e.session] /\ (e.partial => flaw'[e.session] \in 1 .. e.count)
      <3>1. e.session \in Sessions /\ e.count \in Nat
        BY DEF SyncInv, TypeOK, Envelope
      <3>2. QED
        BY <1>2, <1>3, <3>1 DEF SyncInv, EnvelopesRead
    <2>2. QED
      BY <1>1, <2>1 DEF EnvelopesRead
  <1>6. SyncedIsDelivered'
    <2>1. synced \in [Sessions -> Nat]
      BY DEF SyncInv, TypeOK
    <2>2. QED
      BY <1>1, <1>2, <1>3, <2>1 DEF SyncInv, SyncedIsDelivered
  <1>7. ASSUME NEW u \in Workers
        PROVE  DraftRead(u)' /\ ListDelivered(u)'
    <2>1. /\ todo[u] \subseteq Sessions /\ count[u] \in Nat
          /\ listed[u] \in [Sessions -> Nat]
      BY DEF SyncInv, TypeOK
    <2>2. DraftRead(u) /\ ListDelivered(u)
      BY DEF SyncInv
    <2>3. EnvelopeOf(u)' = EnvelopeOf(u)
      BY <1>1 DEF EnvelopeOf
    <2>4. DraftRead(u)'
      BY <1>1, <1>2, <1>3, <2>1, <2>2, <2>3 DEF DraftRead, InFlight
    <2>5. \A r \in Sessions : listed[u][r] <= stored'[r]
      BY <1>2, <1>3, <2>1, <2>2 DEF ListDelivered
    <2>6. ListDelivered(u)'
      BY <1>1, <2>2, <2>5 DEF ListDelivered, Delivered
    <2>7. QED
      BY <2>4, <2>6
  <1>8. QED
    BY <1>4, <1>5, <1>6, <1>7 DEF SyncInv

\* A command starts from what is stored.
LEMMA ListInv ==
    ASSUME SyncInv, NEW u \in Workers, NEW list \in SUBSET Sessions, SyncList(u, list)
    PROVE  SyncInv'
  <1>1. /\ UNCHANGED <<stored, flaw, synced, job, row, count, received, late, faults>>
        /\ todo' = [todo EXCEPT ![u] = list]
        /\ listed' = [listed EXCEPT ![u] = [s \in Sessions |-> IF s \in list THEN stored[s] ELSE 0]]
        /\ pc' = [pc EXCEPT ![u] = "working"]
    BY DEF SyncList, Goto, storeVars, envVars, serverVars
  <1>2. TypeOK'
    BY <1>1 DEF SyncInv, TypeOK
  <1>3. Moves(u)
    BY <1>1 DEF SyncInv, TypeOK, Moves
  <1>4. EnvelopesRead' /\ SyncedIsDelivered'
    BY <1>1, StoreFrame DEF SyncInv
  <1>5. pc'[u] = "working" /\ todo'[u] = list
        /\ listed'[u] = [s \in Sessions |-> IF s \in list THEN stored[s] ELSE 0]
    BY <1>1 DEF SyncInv, TypeOK
  <1>6. DraftRead(u)'
    BY <1>5 DEF DraftRead, InFlight
  <1>7. ListDelivered(u)'
    <2>1. u \notin EndHooks
      BY SyncAssumption DEF SyncList
    <2>2. QED
      BY <1>1, <1>5, <2>1 DEF ListDelivered, SyncInv, TypeOK
  <1>8. QED
    BY <1>1, <1>2, <1>3, <1>4, <1>6, <1>7, WorkerStep

\* Giving up forgets the list and the envelope.
LEMMA GiveUpInv ==
    ASSUME SyncInv, NEW u \in Workers, GiveUp(u), TypeOK', EnvelopesRead',
           UNCHANGED <<stored, flaw, synced, received>>
    PROVE  SyncInv'
  <1>1. Moves(u)
    BY DEF GiveUp, Stop, Goto, ForgetEnvelope, SyncInv, TypeOK, Moves
  <1>2. pc'[u] \in {"gone", "error"} /\ listed'[u] = NoList
    BY DEF GiveUp, Stop, Goto, SyncInv, TypeOK
  <1>3. DraftRead(u)'
    BY <1>2 DEF DraftRead, InFlight
  <1>4. ListDelivered(u)'
    BY <1>2 DEF ListDelivered, NoList, SyncInv, TypeOK
  <1>5. SyncedIsDelivered'
    BY DEF SyncInv, SyncedIsDelivered
  <1>6. QED
    BY <1>1, <1>3, <1>4, <1>5, WorkerStep

LEMMA GiveUpType ==
    ASSUME TypeOK, NEW u \in Workers, GiveUp(u), faults' \in 0 .. MaxFaults,
           late' \subseteq Envelope, UNCHANGED <<stored, flaw, synced, received>>
    PROVE  TypeOK'
  BY DEF GiveUp, Stop, Goto, ForgetEnvelope, NoList, TypeOK

\* A fault, or no integration: the request may be under way, nothing else is left.
LEMMA FailInv ==
    ASSUME SyncInv, NEW u \in Workers, NotIntegrated(u) \/ UploadFails(u) \/ Abort(u)
    PROVE  SyncInv'
  <1>1. GiveUp(u) /\ UNCHANGED <<stored, flaw, synced, received>>
    BY DEF NotIntegrated, UploadFails, Abort, storeVars, serverVars
  <1>2. faults' \in 0 .. MaxFaults
    BY SyncAssumption DEF NotIntegrated, UploadFails, Abort, Fault, SyncInv, TypeOK
  <1>3. late' = late \/ (pc[u] = "posted" /\ late' = late \union {EnvelopeOf(u)})
    BY DEF NotIntegrated, UploadFails, Abort, serverVars
  <1>4. pc[u] = "posted" =>
          LET e == EnvelopeOf(u)
          IN /\ e \in Envelope /\ e.count <= stored[e.session]
             /\ e.partial => flaw[e.session] \in 1 .. e.count
    <2>1. CASE pc[u] = "posted"
      <3>1. /\ job[u] \in Sessions /\ count[u] \in Nat /\ count[u] <= stored[job[u]]
            /\ row[u] => flaw[job[u]] > 0 /\ flaw[job[u]] <= count[u]
        BY <2>1 DEF SyncInv, TypeOK, DraftRead, InFlight
      <3>2. EnvelopeOf(u) \in Envelope
        BY <3>1, EnvelopeType DEF SyncInv
      <3>3. flaw[job[u]] \in Nat
        BY <3>1 DEF SyncInv, TypeOK
      <3>4. QED
        BY <3>1, <3>2, <3>3 DEF EnvelopeOf
    <2>2. QED
      BY <2>1
  <1>5. late' \subseteq Envelope
    BY <1>3, <1>4 DEF SyncInv, TypeOK
  <1>6. EnvelopesRead'
    BY <1>1, <1>3, <1>4 DEF SyncInv, EnvelopesRead
  <1>7. TypeOK'
    BY <1>1, <1>2, <1>5, GiveUpType DEF SyncInv
  <1>8. QED
    BY <1>1, <1>6, <1>7, GiveUpInv

\* Steps that only move a worker along its way.
LEMMA WalkInv ==
    ASSUME SyncInv, NEW u \in Workers,
           StartHook(u) \/ Complete(u) \/ ReadRow(u) \/ ReadEvents(u) \/ Post(u)
    PROVE  SyncInv'
  <1>1. UNCHANGED <<stored, flaw, synced, listed, received, late, faults>>
    BY DEF StartHook, Complete, ReadRow, ReadEvents, Post, storeVars, planVars, serverVars
  <1>2. EnvelopesRead' /\ SyncedIsDelivered'
    BY <1>1, StoreFrame DEF SyncInv
  <1>3. /\ stored \in [Sessions -> Nat] /\ flaw \in [Sessions -> Nat]
        /\ \A s \in Sessions : flaw[s] <= stored[s]
        /\ listed[u] \in [Sessions -> Nat]
        /\ DraftRead(u) /\ ListDelivered(u)
    BY DEF SyncInv, TypeOK, FlawStored
  <1>4. ASSUME todo'[u] = todo[u], pc'[u] = "complete" => todo[u] = {}
        PROVE  ListDelivered(u)'
    BY <1>1, <1>3, <1>4 DEF ListDelivered, Delivered
  <1>5. CASE StartHook(u)
    <2>1. TypeOK' /\ Moves(u) /\ pc'[u] = "working" /\ todo'[u] = {SessionOf[u]}
      BY <1>1, <1>5, SyncAssumption
         DEF StartHook, Goto, storeVars, envVars, SyncInv, TypeOK, Moves
    <2>2. DraftRead(u)'
      BY <2>1 DEF DraftRead, InFlight
    <2>3. ListDelivered(u)'
      <3>1. \A s \in Sessions : listed[u][s] = 0
        BY <1>3, <1>5 DEF StartHook, ListDelivered, NoList
      <3>2. QED
        BY <1>1, <1>3, <2>1, <3>1 DEF ListDelivered, Delivered
    <2>4. QED
      BY <1>1, <1>2, <2>1, <2>2, <2>3, WorkerStep
  <1>6. CASE Complete(u)
    <2>1. TypeOK' /\ Moves(u) /\ pc'[u] = "complete" /\ todo'[u] = todo[u] /\ todo[u] = {}
      BY <1>1, <1>6 DEF Complete, Goto, storeVars, planVars, envVars, SyncInv, TypeOK, Moves
    <2>2. DraftRead(u)'
      BY <2>1 DEF DraftRead, InFlight
    <2>3. QED
      BY <1>1, <1>2, <1>4, <2>1, <2>2, WorkerStep
  <1>7. CASE ReadRow(u)
    <2>1. PICK s \in Sessions :
            IsNext(u, s) /\ job' = [job EXCEPT ![u] = s] /\ row' = [row EXCEPT ![u] = flaw[s] > 0]
      BY <1>7 DEF ReadRow
    <2>2. /\ pc' = [pc EXCEPT ![u] = "row"] /\ UNCHANGED <<todo, count>>
      BY <1>7 DEF ReadRow, Goto, planVars
    <2>3. TypeOK' /\ Moves(u)
      BY <1>1, <2>1, <2>2 DEF SyncInv, TypeOK, Moves
    <2>4. pc'[u] = "row" /\ job'[u] = s /\ row'[u] = (flaw[s] > 0) /\ s \in todo[u]
      BY <2>1, <2>2 DEF SyncInv, TypeOK, IsNext
    <2>5. DraftRead(u)'
      BY <1>1, <2>2, <2>4 DEF DraftRead, InFlight
    <2>6. ListDelivered(u)'
      BY <1>4, <2>2, <2>4
    <2>7. QED
      BY <1>1, <1>2, <2>3, <2>5, <2>6, WorkerStep
  <1>8. CASE ReadEvents(u)
    <2>1. /\ pc[u] = "row" /\ pc' = [pc EXCEPT ![u] = "read"] /\ UNCHANGED <<todo, job, row>>
          /\ count' = [count EXCEPT ![u] = stored[job[u]]]
      BY <1>8 DEF ReadEvents, Goto, planVars
    <2>2. job[u] \in todo[u] /\ job[u] \in Sessions /\ (row[u] => flaw[job[u]] > 0)
      BY <1>3, <2>1 DEF DraftRead, SyncInv, TypeOK
    <2>3. TypeOK' /\ Moves(u)
      BY <1>1, <1>3, <2>1, <2>2 DEF SyncInv, TypeOK, Moves
    <2>4. pc'[u] = "read" /\ count'[u] = stored[job[u]]
      BY <2>1 DEF SyncInv, TypeOK
    <2>5. listed[u][job[u]] <= stored[job[u]] /\ stored[job[u]] \in Nat
      BY <1>3, <2>2 DEF ListDelivered
    <2>6. DraftRead(u)'
      BY <1>1, <1>3, <2>1, <2>2, <2>4, <2>5 DEF DraftRead, InFlight
    <2>7. ListDelivered(u)'
      BY <1>4, <2>1, <2>4
    <2>8. QED
      BY <1>1, <1>2, <2>3, <2>6, <2>7, WorkerStep
  <1>9. CASE Post(u)
    <2>1. /\ pc[u] = "read" /\ pc' = [pc EXCEPT ![u] = "posted"]
          /\ UNCHANGED <<todo, job, row, count>>
      BY <1>9 DEF Post, Goto, planVars, envVars
    <2>2. TypeOK' /\ Moves(u) /\ pc'[u] = "posted"
      BY <1>1, <2>1 DEF SyncInv, TypeOK, Moves
    <2>3. DraftRead(u)'
      BY <1>1, <1>3, <2>1, <2>2 DEF DraftRead, InFlight
    <2>4. ListDelivered(u)'
      BY <1>4, <2>1, <2>2
    <2>5. QED
      BY <1>1, <1>2, <2>2, <2>3, <2>4, WorkerStep
  <1>10. QED
    BY <1>5, <1>6, <1>7, <1>8, <1>9

\* The server accepts what a worker posted.
LEMMA AcceptInv ==
    ASSUME SyncInv, NEW u \in Workers, Accept(u)
    PROVE  SyncInv'
  <1>1. /\ UNCHANGED <<stored, flaw, synced, todo, listed, job, row, count, late, faults>>
        /\ pc[u] = "posted" /\ pc' = [pc EXCEPT ![u] = "accepted"]
        /\ received' = received \union {EnvelopeOf(u)}
    BY DEF Accept, Goto, storeVars, planVars, envVars
  <1>2. /\ job[u] \in Sessions /\ count[u] \in Nat /\ count[u] <= stored[job[u]]
        /\ row[u] => flaw[job[u]] > 0 /\ flaw[job[u]] <= count[u]
        /\ flaw[job[u]] \in Nat
    BY <1>1 DEF SyncInv, TypeOK, DraftRead, InFlight
  <1>3. EnvelopeOf(u) \in Envelope
    BY <1>2, EnvelopeType DEF SyncInv
  <1>4. TypeOK' /\ Moves(u)
    BY <1>1, <1>3 DEF SyncInv, TypeOK, Moves
  <1>5. EnvelopesRead'
    BY <1>1, <1>2 DEF SyncInv, EnvelopesRead, EnvelopeOf
  <1>6. SyncedIsDelivered'
    BY <1>1 DEF SyncInv, SyncedIsDelivered
  <1>7. pc'[u] = "accepted" /\ EnvelopeOf(u)' = EnvelopeOf(u) /\ EnvelopeOf(u) \in received'
    BY <1>1 DEF SyncInv, TypeOK, EnvelopeOf
  <1>8. DraftRead(u)'
    BY <1>1, <1>7 DEF SyncInv, DraftRead, InFlight
  <1>9. ListDelivered(u)'
    BY <1>1, <1>7 DEF SyncInv, ListDelivered, Delivered
  <1>10. QED
    BY <1>1, <1>4, <1>5, <1>6, <1>8, <1>9, WorkerStep

LEMMA ArriveLateInv ==
    ASSUME SyncInv, NEW e \in late, ArriveLate(e)
    PROVE  SyncInv'
  <1>1. /\ UNCHANGED <<stored, flaw, synced, pc, todo, listed, job, row, count, faults>>
        /\ late' = late \ {e} /\ received' = received \union {e}
    BY DEF ArriveLate, storeVars, planVars, envVars
  <1>2. TypeOK' /\ FlawStored' /\ EnvelopesRead' /\ SyncedIsDelivered'
    BY <1>1 DEF SyncInv, TypeOK, FlawStored, EnvelopesRead, SyncedIsDelivered
  <1>3. \A v \in Workers : DraftRead(v)' /\ ListDelivered(v)'
    BY <1>1, OtherWorker DEF SyncInv
  <1>4. QED
    BY <1>2, <1>3 DEF SyncInv

\* The recorded count is that of an accepted envelope, which had at least the
\* events that were listed.
LEMMA RecordInv ==
    ASSUME SyncInv, NEW u \in Workers, RecordSyncSuccess(u)
    PROVE  SyncInv'
  <1>1. /\ UNCHANGED <<stored, flaw, listed, received, late, faults>>
        /\ pc[u] = "accepted" /\ Stop(u, "working") /\ ForgetEnvelope(u)
        /\ synced' = [synced EXCEPT ![job[u]] = count[u]]
        /\ todo' = [todo EXCEPT ![u] = @ \ {job[u]}]
    BY DEF RecordSyncSuccess, storeVars, serverVars
  <1>2. /\ job[u] \in Sessions /\ count[u] \in Nat /\ count[u] <= stored[job[u]]
        /\ EnvelopeOf(u) \in received /\ listed[u][job[u]] <= count[u]
        /\ listed[u] \in [Sessions -> Nat]
    BY <1>1 DEF SyncInv, TypeOK, DraftRead, InFlight
  <1>3. TypeOK' /\ Moves(u)
    BY <1>1, <1>2 DEF SyncInv, TypeOK, Moves, Stop, Goto, ForgetEnvelope
  <1>4. EnvelopesRead'
    BY <1>1 DEF SyncInv, EnvelopesRead
  <1>5. SyncedIsDelivered'
    <2>1. synced \in [Sessions -> Nat]
      BY DEF SyncInv, TypeOK
    <2>2. EnvelopeOf(u).session = job[u] /\ EnvelopeOf(u).count = count[u]
      BY DEF EnvelopeOf
    <2>3. QED
      BY <1>1, <1>2, <2>1, <2>2 DEF SyncInv, SyncedIsDelivered
  <1>6. pc'[u] \in {"gone", "working"} /\ todo'[u] = todo[u] \ {job[u]}
    BY <1>1 DEF SyncInv, TypeOK, Stop, Goto
  <1>7. DraftRead(u)'
    BY <1>6 DEF DraftRead, InFlight
  <1>8. ListDelivered(u)'
    <2>1. Delivered(job[u], listed[u][job[u]])
      BY <1>2 DEF Delivered, EnvelopeOf
    <2>2. \A s \in Sessions : listed[u][s] > 0 /\ s \notin todo'[u] => Delivered(s, listed[u][s])
      BY <1>6, <2>1 DEF SyncInv, ListDelivered
    <2>3. QED
      BY <1>1, <1>6, <2>2 DEF SyncInv, ListDelivered, Delivered
  <1>9. QED
    BY <1>1, <1>3, <1>4, <1>5, <1>7, <1>8, WorkerStep

-----------------------------------------------------------------------------
THEOREM SyncStep == SyncInv /\ [Next]_vars => SyncInv'
  <1> SUFFICES ASSUME SyncInv, [Next]_vars PROVE SyncInv'
    OBVIOUS
  <1>1. CASE \E s \in Sessions, partial \in BOOLEAN : CaptureEvent(s, partial)
    BY <1>1, CaptureInv
  <1>2. ASSUME NEW u \in Workers, Step(u) \/ SyncOne(u) \/ UploadFails(u) \/ Abort(u)
        PROVE  SyncInv'
    <2>1. CASE SyncPending(u) \/ SyncOne(u)
      <3>1. \E list \in SUBSET Sessions : SyncList(u, list)
        BY <2>1 DEF SyncPending, SyncOne, Oldest
      <3>2. QED
        BY <3>1, ListInv
    <2>2. CASE StartHook(u) \/ Complete(u) \/ ReadRow(u) \/ ReadEvents(u) \/ Post(u)
      BY <2>2, WalkInv
    <2>3. CASE NotIntegrated(u) \/ UploadFails(u) \/ Abort(u)
      BY <2>3, FailInv
    <2>4. CASE Accept(u)
      BY <2>4, AcceptInv
    <2>5. CASE RecordSyncSuccess(u)
      BY <2>5, RecordInv
    <2>6. QED
      BY <1>2, <2>1, <2>2, <2>3, <2>4, <2>5 DEF Step
  <1>3. CASE \E e \in late : ArriveLate(e)
    BY <1>3, ArriveLateInv
  <1>4. CASE UNCHANGED vars
    <2>1. UNCHANGED <<stored, flaw, synced, pc, todo, listed, job, row, count, received, late, faults>>
      BY <1>4 DEF vars, storeVars, planVars, envVars, serverVars
    <2>2. TypeOK'
      BY <2>1 DEF SyncInv, TypeOK
    <2>3. FlawStored' /\ EnvelopesRead' /\ SyncedIsDelivered'
      BY <2>1, StoreFrame DEF SyncInv
    <2>4. \A v \in Workers : DraftRead(v)' /\ ListDelivered(v)'
      BY <2>1, OtherWorker DEF SyncInv
    <2>5. QED
      BY <2>2, <2>3, <2>4 DEF SyncInv
  <1>5. QED
    BY <1>1, <1>2, <1>3, <1>4 DEF Next

\* The strengthened invariant holds of every execution.
THEOREM SyncInvariant == Spec => []SyncInv
  <1>1. QED
    BY InitSync, SyncStep, PTL DEF Spec

\* last_synced_event_count is always the event count of an accepted envelope.
THEOREM SyncedWasDelivered == Spec => []SyncedIsDelivered
  <1>1. SyncInv => SyncedIsDelivered
    BY DEF SyncInv
  <1>2. QED
    BY <1>1, SyncInvariant, PTL

\* A `secuarden sync` that reports success has delivered what it listed.
THEOREM CompleteWasDelivered == Spec => []CompleteMeansDelivered
  <1>1. SyncInv => CompleteMeansDelivered
    BY DEF SyncInv, ListDelivered, CompleteMeansDelivered, Workers
  <1>2. QED
    BY <1>1, SyncInvariant, PTL

\* A partial envelope on the server carries the event that made its session so.
THEOREM PartialWasExplained == Spec => []PartialIsExplained
  <1>1. SyncInv => PartialIsExplained
    BY DEF SyncInv, EnvelopesRead, PartialIsExplained
  <1>2. QED
    BY <1>1, SyncInvariant, PTL
================================================================================
