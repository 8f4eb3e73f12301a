------------------------- MODULE ObservationInboxProofs -------------------------
(***************************************************************************)
(* What the observation ledger promises, for any deliveries, processors,   *)
(* limit and failures.                                                     *)
(***************************************************************************)
EXTENDS ObservationInbox, TLAPS

Working == {"list", "next", "save", "remove"}

\* The lock is held by the processor that is in a pass.
LockHeld == \A w \in Processors : pc[w] # "idle" <=> lock = w

RunsOpen ==
    \A w \in Processors :
        /\ pc[w] \in Working => open = {w}
        /\ pc[w] = "insert" => open = {}
        /\ pc[w] = "report" => open # {}

\* An interruption that is not reported yet.
Unreported ==
    IF open # {} /\ \A w \in Processors : pc[w] \in {"idle", "report"} THEN 1 ELSE 0

RestartsCounted == restarts + Unreported <= faults

\* Who has a row with an observation has the observation.
RowsSound ==
    \A k \in Key : disposition[k] \notin {"none", "rejected"} =>
        k.readable /\ Payload[k.delivery] \in stored

Observed(p, repo) == repo # NoRepository => [place |-> Place[p], repository |-> repo] \in checkpoints

CacheSound ==
    \A w \in Processors, p \in Payloads :
        cache[w][Place[p]] # Unseen => Observed(p, cache[w][Place[p]])

\* The input a processor works on came from its file.
InputRead(w) ==
    pc[w] \in {"save", "remove"} =>
        /\ input[w] \in Input
        /\ input[w].key.delivery = input[w].entry.delivery
        /\ input[w].content # Refused =>
             /\ input[w].key.readable /\ input[w].content = Payload[input[w].key.delivery]
             /\ Observed(input[w].content, input[w].repository)
        /\ pc[w] = "remove" => disposition[input[w].key] # "none"

InputsRead == \A w \in Processors : InputRead(w)

\* A file that was renamed stays until it is accounted for.
RenamedKept ==
    \A d \in Deliveries : step[d] = "renamed" => Named(d, FALSE) \in entries \/ Accounted(d)

InboxInv ==
    /\ TypeOK /\ LockHeld /\ RunsOpen /\ RestartsCounted
    /\ RowsSound /\ CacheSound /\ InputsRead /\ RenamedKept /\ NothingVanishes
    /\ InsertedOnce /\ ReceiptTimeIsFirst /\ RepositoryObserved

-----------------------------------------------------------------------------
\* Frames

\* The steps of capture hooks, which processors do not see.
HookStep(d) == Hook(d) \/ WriteFails(d) \/ KillHook(d)

LEMMA HookFrame ==
    ASSUME NEW d \in Deliveries, HookStep(d)
    PROVE  /\ UNCHANGED <<ledgerVars, checkpoints, gapVars, runVars, pc, localVars>>
           /\ faults' \in {faults, faults + 1}
  BY DEF HookStep, Hook, WriteTemp, Rename, SyncDirectory, Acknowledge, WriteFails, KillHook,
         HookOnly, Fault, ledgerVars, gapVars, runVars, localVars

\* The ledger only changes where a delivery is saved.
Saves(w) == Reject(w) \/ Insert(w) \/ Merge(w)

LEMMA PassFrame ==
    ASSUME NEW w \in Processors, Pass(w) \/ StopPass(w)
    PROVE  /\ UNCHANGED <<hookVars, disk>>
           /\ UNCHANGED ledgerVars \/ Saves(w)
           /\ RemoveInput(w) \/ UNCHANGED entries
  BY DEF Pass, Saves, StartPass, Begin, ReportRestart, MarkInterrupted, InsertRun, ReadDirectory,
         NextDirectory, FinishRun, SkipTemp, ReadRefused, ReadKnownPlace, ReadNewPlace, Take,
         Replay, Reject, Insert, Merge, Saved, RemoveInput, StopPass,
         hookVars, fileVars, ledgerVars

\* No checkpoint is forgotten.
LEMMA PassChecks ==
    ASSUME NEW w \in Processors, Pass(w) \/ StopPass(w)
    PROVE  checkpoints \subseteq checkpoints'
  BY DEF Pass, StartPass, Begin, ReportRestart, MarkInterrupted, InsertRun, ReadDirectory,
         NextDirectory, FinishRun, SkipTemp, ReadRefused, ReadKnownPlace, ReadNewPlace,
         Replay, Reject, Insert, Merge, Saved, RemoveInput, StopPass

-----------------------------------------------------------------------------
\* Types

LEMMA InputType ==
    ASSUME NEW e \in Entry, NEW readable \in BOOLEAN, NEW repo \in Repositories \union {NoRepository}
    PROVE  [entry |-> e, key |-> [delivery |-> e.delivery, readable |-> readable],
            content |-> Content(e, readable), repository |-> repo] \in Input
  <1>1. e.delivery \in Deliveries
    BY DEF Entry
  <1>2. Content(e, readable) \in Payloads \union {Refused}
    BY <1>1, InboxAssumption DEF Content, InboxAssumption
  <1>. QED
    BY <1>1, <1>2 DEF Input, Key

LEMMA LeaveType ==
    ASSUME TypeOK, NEW w \in Processors, Leave(w), open' \subseteq open, faults' \in 0 .. MaxFaults,
           UNCHANGED <<hookVars, fileVars, ledgerVars, checkpoints, gapVars>>
    PROVE  TypeOK'
  BY DEF TypeOK, Leave, Goto, Blank, hookVars, fileVars, ledgerVars, gapVars, Directories

LEMMA HookType ==
    ASSUME TypeOK, NEW d \in Deliveries, HookStep(d)
    PROVE  TypeOK'
  <1>1. \A temp \in BOOLEAN : Named(d, temp) \in Entry
    BY DEF TypeOK, Named, Entry
  <1>2. /\ entries' \subseteq Entry /\ disk' \subseteq Entry
    BY <1>1 DEF TypeOK, HookStep, Hook, WriteTemp, Rename, SyncDirectory, Acknowledge, WriteFails,
                KillHook, fileVars
  <1>4. target' \in [Deliveries -> Directories]
    BY DEF TypeOK, HookStep, Hook, WriteTemp, Rename, SyncDirectory, Acknowledge, WriteFails,
           KillHook, Directories
  <1>5. faults' \in 0 .. MaxFaults
    <2>1. faults' = faults \/ Fault
      BY DEF HookStep, Hook, WriteTemp, Rename, SyncDirectory, WriteFails, KillHook
    <2>. QED
      BY <2>1, InboxAssumption DEF TypeOK, Fault, InboxAssumption
  <1>3. step' \in [Deliveries -> {"start", "temp", "renamed",
                                  "acknowledged", "reported", "unreported", "killed"}]
    <2>1. PICK label \in {"start", "temp", "renamed",
                          "acknowledged", "reported", "unreported", "killed"} : Advance(d, label)
      BY DEF HookStep, Hook, WriteTemp, Rename, SyncDirectory, Acknowledge, WriteFails, KillHook
    <2>. QED
      BY <2>1 DEF TypeOK, Advance
  <1>. QED
    BY <1>2, <1>3, <1>4, <1>5, HookFrame DEF TypeOK, ledgerVars, gapVars, runVars, localVars

LEMMA PassType ==
    ASSUME TypeOK, NEW w \in Processors, InputRead(w), Pass(w) \/ StopPass(w)
    PROVE  TypeOK'
  <1>1. CASE StartPass(w) \/ ReportRestart(w) \/ MarkInterrupted(w) \/ InsertRun(w)
    <2>1. CASE StartPass(w)
      BY <2>1 DEF TypeOK, StartPass, Begin, Goto, hookVars, fileVars, ledgerVars, gapVars, localVars
    <2>2. CASE ReportRestart(w)
      BY <2>2 DEF TypeOK, ReportRestart, Goto, hookVars, fileVars, ledgerVars, runVars, localVars
    <2>3. CASE MarkInterrupted(w) \/ InsertRun(w)
      BY <2>3 DEF TypeOK, MarkInterrupted, InsertRun, Goto, hookVars, fileVars, ledgerVars, gapVars,
                  localVars
    <2>. QED
      BY <1>1, <2>1, <2>2, <2>3
  <1>10. CASE ReadDirectory(w)
    BY <1>10 DEF TypeOK, ReadDirectory, Goto, hookVars, fileVars, ledgerVars, gapVars, runVars
  <1>11. CASE NextDirectory(w)
    BY <1>11 DEF TypeOK, NextDirectory, Goto, hookVars, fileVars, ledgerVars, gapVars, runVars,
                 Directories
  <1>12. CASE Saves(w)
    <2>1. UNCHANGED <<hookVars, fileVars, checkpoints, gapVars, runVars, localVars, faults>>
      BY <1>12 DEF Saves, Reject, Insert, Merge, Saved
    <2>2. pc[w] = "save" /\ Goto(w, "remove")
      BY <1>12 DEF Saves, Reject, Insert, Merge, Saved
    <2>3. pc' \in [Processors -> {"idle", "report", "interrupt", "insert", "list",
                                  "next", "save", "remove"}]
      BY <2>2 DEF TypeOK, Goto
    <2>4. disposition' \in [Key -> Dispositions \union {"none"}]
      <3>1. PICK label \in Dispositions : Saved(w, label)
        BY <1>12 DEF Saves, Reject, Insert, Merge, Dispositions
      <3>. QED
        BY <3>1 DEF Saved, TypeOK
    <2>5. input[w] \in Input
      BY <2>2 DEF InputRead
    <2>6. /\ input[w].content \in Payloads \union {Refused}
          /\ input[w].repository \in Repositories \union {NoRepository}
          /\ ReceivedAt[input[w].key.delivery] \in Nat
      BY <2>5, InboxAssumption DEF Input, Key, InboxAssumption
    <2>7. stored' \subseteq Payloads
      BY <1>12, <2>6 DEF Saves, Reject, Insert, Merge, TypeOK
    <2>8. received' \in [Payloads -> Nat]
      <3>1. CASE Reject(w)
        BY <3>1 DEF Reject, TypeOK
      <3>2. CASE Insert(w)
        BY <3>2, <2>6 DEF Insert, TypeOK
      <3>3. CASE Merge(w)
        BY <3>3, <2>6 DEF Merge, TypeOK
      <3>. QED
        BY <1>12, <3>1, <3>2, <3>3 DEF Saves
    <2>9. repository' \in [Payloads -> Repositories \union {NoRepository}]
      BY <1>12, <2>6 DEF Saves, Reject, Insert, Merge, TypeOK
    <2>. QED
      BY <2>1, <2>3, <2>4, <2>7, <2>8, <2>9 DEF TypeOK, hookVars, fileVars, gapVars, runVars, localVars
  <1>2. CASE FinishRun(w) \/ StopPass(w)
    BY <1>2, LeaveType, InboxAssumption DEF FinishRun, StopPass, Fault, TypeOK, InboxAssumption
  <1>3. CASE SkipTemp(w)
    BY <1>3 DEF TypeOK, SkipTemp, hookVars, fileVars, ledgerVars, runVars
  <1>4. ASSUME NEW e \in todo[w], NEW readable \in BOOLEAN, ~e.temp,
               NEW repo \in Repositories \union {NoRepository}, Take(w, e, readable, repo),
               cache' \in [Processors -> [Places -> Repositories \union {NoRepository, Unseen}]],
               checkpoints' \subseteq [place : Places, repository : Repositories],
               faults' \in 0 .. MaxFaults
        PROVE  TypeOK'
    <2>1. e \in Entry
      BY DEF TypeOK
    <2>2. input' \in [Processors -> Input \union {NoInput}]
      BY <1>4, <2>1, InputType DEF TypeOK, Take
    <2>. QED
      BY <1>4, <2>1, <2>2 DEF TypeOK, Take, Goto, hookVars, fileVars, ledgerVars, gapVars, runVars
  <1>5. CASE ReadRefused(w)
    BY <1>4, <1>5, InboxAssumption DEF ReadRefused, Fault, TypeOK, InboxAssumption
  <1>6. CASE ReadKnownPlace(w)
    <2>1. PICK e \in todo[w] :
            /\ Chosen(w, e) /\ ~e.temp /\ Content(e, TRUE) # Refused
            /\ cache[w][Place[Content(e, TRUE)]] # Unseen
            /\ Take(w, e, TRUE, cache[w][Place[Content(e, TRUE)]])
      BY <1>6 DEF ReadKnownPlace
    <2>2. Content(e, TRUE) \in Payloads
      BY <2>1, InboxAssumption DEF TypeOK, Content, Entry, InboxAssumption
    <2>4. Place[Content(e, TRUE)] \in Places
      BY <2>2 DEF Places
    <2>3. cache[w][Place[Content(e, TRUE)]] \in Repositories \union {NoRepository}
      <3>1. cache[w] \in [Places -> Repositories \union {NoRepository, Unseen}]
        BY DEF TypeOK
      <3>. QED
        BY <2>1, <2>4, <3>1
    <2>. QED
      BY <1>4, <1>6, <2>1, <2>3 DEF ReadKnownPlace, TypeOK
  <1>7. CASE ReadNewPlace(w)
    <2>1. PICK e \in todo[w], repo \in Repositories \union {NoRepository} :
            /\ Chosen(w, e) /\ ~e.temp /\ Content(e, TRUE) # Refused
            /\ cache' = [cache EXCEPT ![w][Place[Content(e, TRUE)]] = repo]
            /\ checkpoints' = checkpoints \union
                 IF repo = NoRepository THEN {}
                 ELSE {[place |-> Place[Content(e, TRUE)], repository |-> repo]}
            /\ Take(w, e, TRUE, repo)
      BY <1>7 DEF ReadNewPlace
    <2>2. Content(e, TRUE) \in Payloads
      BY <2>1, InboxAssumption DEF TypeOK, Content, Entry, InboxAssumption
    <2>3. Place[Content(e, TRUE)] \in Places
      BY <2>2 DEF Places
    <2>6. [cache[w] EXCEPT ![Place[Content(e, TRUE)]] = repo]
              \in [Places -> Repositories \union {NoRepository, Unseen}]
      <3>1. cache[w] \in [Places -> Repositories \union {NoRepository, Unseen}]
        BY DEF TypeOK
      <3>. QED
        BY <2>3, <3>1
    <2>4. cache' \in [Processors -> [Places -> Repositories \union {NoRepository, Unseen}]]
      BY <2>1, <2>6 DEF TypeOK
    <2>5. checkpoints' \subseteq [place : Places, repository : Repositories]
      <3>1. repo # NoRepository =>
              [place |-> Place[Content(e, TRUE)], repository |-> repo]
                \in [place : Places, repository : Repositories]
        BY <2>3
      <3>. QED
        BY <2>1, <3>1 DEF TypeOK
    <2>. QED
      BY <1>4, <1>7, <2>1, <2>4, <2>5 DEF ReadNewPlace, TypeOK
  <1>8. CASE Replay(w)
    BY <1>8 DEF TypeOK, Replay, Goto, hookVars, fileVars, ledgerVars, gapVars, runVars, localVars
  <1>9. CASE RemoveInput(w)
    BY <1>9 DEF TypeOK, RemoveInput, Goto, hookVars, ledgerVars, gapVars, runVars
  <1>. QED
    BY <1>1, <1>2, <1>3, <1>5, <1>6, <1>7, <1>8, <1>9, <1>10, <1>11, <1>12 DEF Pass, Saves

LEMMA PowerType == TypeOK /\ PowerLoss => TypeOK'
  <1> SUFFICES ASSUME TypeOK, PowerLoss PROVE TypeOK'
    OBVIOUS
  <1>1. entries' \subseteq Entry /\ disk' \subseteq Entry
    BY DEF PowerLoss, TypeOK
  <1>2. step' \in [Deliveries -> {"start", "temp", "renamed",
                                  "acknowledged", "reported", "unreported", "killed"}]
    BY DEF PowerLoss, TypeOK
  <1>3. faults' \in 0 .. MaxFaults
    BY InboxAssumption DEF PowerLoss, Fault, TypeOK, InboxAssumption
  <1>. QED
    BY <1>1, <1>2, <1>3 DEF PowerLoss, TypeOK, Blank, Directories, ledgerVars, gapVars

LEMMA InitType == Init => TypeOK
  <1> SUFFICES ASSUME Init PROVE TypeOK
    OBVIOUS
  <1>1. entries \subseteq Entry /\ disk \subseteq Entry
    BY InboxAssumption DEF Init, Entry, Directories, InboxAssumption
  <1>2. step \in [Deliveries -> {"start", "temp", "renamed",
                                 "acknowledged", "reported", "unreported", "killed"}]
    BY DEF Init
  <1>3. faults \in 0 .. MaxFaults
    BY InboxAssumption DEF Init, InboxAssumption
  <1>4. cache \in [Processors -> [Places -> Repositories \union {NoRepository, Unseen}]]
    BY DEF Init, Blank
  <1>. QED
    BY <1>1, <1>2, <1>3, <1>4 DEF Init, TypeOK, Directories

-----------------------------------------------------------------------------
\* The lock and the runs

\* What a step means for the lock and the runs.
Enters(w)  == pc[w] = "idle" /\ lock = NoProcessor /\ lock' = w /\ UNCHANGED open
              /\ Goto(w, IF open # {} THEN "report" ELSE "insert")
Stays(w)   == /\ UNCHANGED <<open, lock>>
              /\ \E label \in Working : pc[w] \in Working /\ Goto(w, label)
Exits(w)   == pc[w] # "idle" /\ Leave(w)

LEMMA PassControl ==
    ASSUME TypeOK, NEW w \in Processors, Pass(w) \/ StopPass(w)
    PROVE  \/ Enters(w) /\ UNCHANGED <<restarts, faults>>
           \/ ReportRestart(w) \/ MarkInterrupted(w) \/ InsertRun(w)
           \/ Stays(w) /\ restarts' = restarts /\ faults' \in {faults, faults + 1}
           \/ FinishRun(w) \/ StopPass(w)
  <1>1. CASE StartPass(w)
    BY <1>1 DEF StartPass, Begin, Enters, gapVars
  <1>2. CASE ReadDirectory(w) \/ NextDirectory(w) \/ SkipTemp(w)
    <2>1. pc[w] \in Working /\ UNCHANGED <<open, lock, restarts, faults>>
      BY <1>2 DEF ReadDirectory, NextDirectory, Exhausted, SkipTemp, Chosen, Working, gapVars, runVars
    <2>2. Goto(w, "next") \/ Goto(w, "list") \/ Goto(w, pc[w])
      BY <1>2 DEF ReadDirectory, NextDirectory, SkipTemp, Goto, TypeOK
    <2>. QED
      BY <2>1, <2>2 DEF Stays, Working
  <1>3. CASE ReadRefused(w) \/ ReadKnownPlace(w) \/ ReadNewPlace(w)
    <2>1. pc[w] = "next" /\ Goto(w, "save") /\ UNCHANGED <<open, lock, restarts>>
      BY <1>3 DEF ReadRefused, ReadKnownPlace, ReadNewPlace, Chosen, Take, gapVars, runVars
    <2>2. faults' \in {faults, faults + 1}
      BY <1>3 DEF ReadRefused, ReadKnownPlace, ReadNewPlace, Fault
    <2>. QED
      BY <2>1, <2>2 DEF Stays, Working
  <1>4. CASE Replay(w) \/ Saves(w) \/ RemoveInput(w)
    <2>1. /\ pc[w] \in Working /\ UNCHANGED <<open, lock, restarts, faults>>
          /\ Goto(w, "remove") \/ Goto(w, "next")
      BY <1>4 DEF Replay, Saves, Reject, Insert, Merge, Saved, RemoveInput, Working, gapVars, runVars
    <2>. QED
      BY <2>1 DEF Stays, Working
  <1>. QED
    BY <1>1, <1>2, <1>3, <1>4 DEF Pass, Saves

LEMMA LockStep ==
    ASSUME TypeOK, LockHeld, RunsOpen, NEW w \in Processors, Pass(w) \/ StopPass(w)
    PROVE  LockHeld' /\ RunsOpen'
  <1>1. CASE Enters(w)
    BY <1>1, InboxAssumption DEF Enters, LockHeld, RunsOpen, Goto, TypeOK, Working, InboxAssumption
  <1>2. CASE ReportRestart(w) \/ MarkInterrupted(w) \/ InsertRun(w)
    <2>1. /\ \A v \in Processors \ {w} : pc[v] = "idle" /\ pc'[v] = pc[v]
          /\ lock = w /\ lock' = w /\ pc[w] # "idle"
      BY <1>2 DEF ReportRestart, MarkInterrupted, InsertRun, LockHeld, Goto, TypeOK, runVars
    <2>2. CASE ReportRestart(w)
      <3>1. pc'[w] = "interrupt"
        BY <2>2 DEF ReportRestart, Goto, TypeOK
      <3>. QED
        BY <2>1, <3>1 DEF LockHeld, RunsOpen, Working
    <2>3. CASE MarkInterrupted(w)
      <3>1. pc'[w] = "insert" /\ open' = {}
        BY <2>3 DEF MarkInterrupted, Goto, TypeOK
      <3>. QED
        BY <2>1, <3>1 DEF LockHeld, RunsOpen, Working
    <2>4. CASE InsertRun(w)
      <3>1. pc'[w] = "list" /\ open' = {w}
        BY <2>4 DEF InsertRun, Goto, TypeOK, RunsOpen
      <3>. QED
        BY <2>1, <3>1 DEF LockHeld, RunsOpen, Working
    <2>. QED
      BY <1>2, <2>2, <2>3, <2>4
  <1>3. CASE Stays(w)
    BY <1>3, InboxAssumption DEF Stays, LockHeld, RunsOpen, Goto, TypeOK, Working, InboxAssumption
  <1>4. CASE FinishRun(w) \/ StopPass(w)
    <2>1. Leave(w) /\ pc[w] # "idle"
      BY <1>4 DEF FinishRun, StopPass, Exhausted
    <2>2. \A v \in Processors : pc'[v] = "idle"
      BY <2>1, InboxAssumption DEF LockHeld, Leave, Goto, TypeOK, InboxAssumption
    <2>3. lock' = NoProcessor
      BY <2>1 DEF LockHeld, Leave
    <2>. QED
      BY <2>2, <2>3, InboxAssumption DEF LockHeld, RunsOpen, Working, InboxAssumption
  <1>. QED
    BY <1>1, <1>2, <1>3, <1>4, PassControl

LEMMA RestartStep ==
    ASSUME TypeOK, LockHeld, RunsOpen, RestartsCounted,
           NEW w \in Processors, Pass(w) \/ StopPass(w)
    PROVE  RestartsCounted'
  <1>1. restarts \in Nat /\ faults \in Nat
    BY InboxAssumption DEF TypeOK, InboxAssumption
  <1>2. CASE Enters(w) /\ UNCHANGED <<restarts, faults>>
    <2>1. Unreported' = 1 => Unreported = 1
      BY <1>2, InboxAssumption DEF Enters, Unreported, Goto, LockHeld, TypeOK, InboxAssumption
    <2>. QED
      BY <1>1, <1>2, <2>1 DEF RestartsCounted, Unreported
  <1>3. CASE ReportRestart(w)
    <2>1. \A v \in Processors : pc[v] \in {"idle", "report"}
      BY <1>3 DEF ReportRestart, LockHeld
    <2>2. pc'[w] = "interrupt" /\ restarts' = restarts + 1 /\ UNCHANGED <<open, faults>>
      BY <1>3 DEF ReportRestart, Goto, TypeOK, runVars
    <2>3. Unreported' = 0
      BY <2>2 DEF Unreported
    <2>4. open # {}
      BY <1>3 DEF ReportRestart, RunsOpen
    <2>. QED
      BY <1>1, <2>1, <2>2, <2>3, <2>4 DEF RestartsCounted, Unreported
  <1>4. CASE MarkInterrupted(w) \/ InsertRun(w)
    <2>1. Unreported' = 0 /\ UNCHANGED <<restarts, faults>>
      BY <1>4 DEF MarkInterrupted, InsertRun, Unreported, Goto, TypeOK, gapVars
    <2>. QED
      BY <1>1, <2>1 DEF RestartsCounted, Unreported
  <1>5. CASE Stays(w) /\ restarts' = restarts /\ faults' \in {faults, faults + 1}
    <2>1. pc'[w] \in Working
      BY <1>5 DEF Stays, Goto, TypeOK
    <2>2. Unreported' = 0
      BY <2>1 DEF Unreported, Working
    <2>. QED
      BY <1>1, <1>5, <2>2 DEF RestartsCounted, Unreported
  <1>6. CASE FinishRun(w)
    <2>1. open' = {}
      BY <1>6 DEF FinishRun, Exhausted, RunsOpen, Working
    <2>2. UNCHANGED <<restarts, faults>>
      BY <1>6 DEF FinishRun, gapVars
    <2>. QED
      BY <1>1, <2>1, <2>2 DEF RestartsCounted, Unreported
  <1>7. CASE StopPass(w)
    <2>1. restarts' = restarts /\ faults' = faults + 1
      BY <1>7 DEF StopPass, Fault, gapVars
    <2>. QED
      BY <1>1, <2>1 DEF RestartsCounted, Unreported
  <1>. QED
    BY <1>2, <1>3, <1>4, <1>5, <1>6, <1>7, PassControl

-----------------------------------------------------------------------------
\* What the processors have read

LEMMA ReadStep ==
    ASSUME TypeOK, CacheSound, InputsRead, RowsSound, NEW w \in Processors, Pass(w) \/ StopPass(w)
    PROVE  CacheSound' /\ InputsRead'
  <1>1. \A p, r : Observed(p, r) => Observed(p, r)'
    BY PassChecks DEF Observed
  <1>2. \A k \in Key : disposition[k] # "none" => disposition'[k] # "none"
    <2>1. CASE UNCHANGED disposition
      BY <2>1
    <2>2. CASE Saves(w)
      <3>1. PICK label \in Dispositions : Saved(w, label)
        BY <2>2 DEF Saves, Reject, Insert, Merge, Dispositions
      <3>2. label # "none"
        BY DEF Dispositions
      <3>. QED
        BY <3>1, <3>2 DEF Saved, TypeOK
    <2>. QED
      BY <2>1, <2>2, PassFrame DEF ledgerVars
  <1>3. \A v \in Processors :
          pc'[v] = pc[v] /\ input'[v] = input[v] => InputRead(v)'
    BY <1>1, <1>2 DEF InputsRead, InputRead, Input
  <1>4. ASSUME pc'[w] \notin {"save", "remove"},
               \A v \in Processors \ {w} : pc'[v] = pc[v] /\ input'[v] = input[v]
        PROVE  InputsRead'
    BY <1>3, <1>4 DEF InputsRead, InputRead
  <1>5. ASSUME UNCHANGED cache PROVE CacheSound'
    BY <1>1, <1>5 DEF CacheSound
  <1>6. ASSUME Leave(w) PROVE CacheSound' /\ InputsRead'
    <2>1. \A p \in Payloads : cache'[w][Place[p]] = Unseen
      BY <1>6 DEF Leave, Blank, TypeOK, Places
    <2>2. \A v \in Processors \ {w} : cache'[v] = cache[v] /\ pc'[v] = pc[v] /\ input'[v] = input[v]
      BY <1>6 DEF Leave, Goto, TypeOK
    <2>3. pc'[w] = "idle"
      BY <1>6 DEF Leave, Goto, TypeOK
    <2>4. CacheSound'
      BY <1>1, <2>1, <2>2 DEF CacheSound
    <2>. QED
      BY <1>4, <2>2, <2>3, <2>4
  <1>7. CASE StartPass(w) \/ ReportRestart(w) \/ MarkInterrupted(w) \/ InsertRun(w)
             \/ ReadDirectory(w) \/ NextDirectory(w)
    <2>1. UNCHANGED <<cache, input>>
      BY <1>7 DEF StartPass, Begin, ReportRestart, MarkInterrupted, InsertRun, ReadDirectory,
         NextDirectory, localVars
    <2>2. \E label \in {"report", "insert", "interrupt", "list", "next"} : Goto(w, label)
      BY <1>7 DEF StartPass, Begin, ReportRestart, MarkInterrupted, InsertRun, ReadDirectory, NextDirectory
    <2>3. pc'[w] \notin {"save", "remove"} /\ \A v \in Processors \ {w} : pc'[v] = pc[v]
      BY <2>2 DEF Goto, TypeOK
    <2>. QED
      BY <1>4, <1>5, <2>1, <2>3
  <1>8. CASE SkipTemp(w)
    BY <1>3, <1>5, <1>8 DEF SkipTemp, InputsRead
  <1>9. CASE FinishRun(w) \/ StopPass(w)
    BY <1>6, <1>9 DEF FinishRun, StopPass
  <1>10. ASSUME NEW e \in todo[w], NEW readable \in BOOLEAN,
                NEW repo \in Repositories \union {NoRepository}, Take(w, e, readable, repo),
                Content(e, readable) # Refused => readable /\ Observed(Content(e, readable), repo)'
         PROVE  InputsRead'
    <2>1. e \in Entry
      BY DEF TypeOK
    <2>2. pc'[w] = "save" /\ \A v \in Processors \ {w} : pc'[v] = pc[v] /\ input'[v] = input[v]
      BY <1>10 DEF Take, Goto, TypeOK
    <2>3. input'[w] = [entry |-> e, key |-> [delivery |-> e.delivery, readable |-> readable],
                       content |-> Content(e, readable), repository |-> repo]
      BY <1>10 DEF Take, TypeOK
    <2>4. input'[w] \in Input
      BY <2>1, <2>3, InputType
    <2>5. InputRead(w)'
      BY <1>10, <2>2, <2>3, <2>4 DEF InputRead, Content
    <2>. QED
      BY <1>3, <2>2, <2>5 DEF InputsRead
  <1>11. CASE ReadRefused(w)
    BY <1>5, <1>10, <1>11 DEF ReadRefused
  <1>12. ASSUME NEW e \in todo[w], Content(e, TRUE) # Refused PROVE Content(e, TRUE) \in Payloads
    BY <1>12, InboxAssumption DEF TypeOK, Content, Entry, InboxAssumption
  <1>13. CASE ReadKnownPlace(w)
    <2>0. PICK e \in todo[w] :
            /\ Content(e, TRUE) # Refused
            /\ cache[w][Place[Content(e, TRUE)]] # Unseen
            /\ Take(w, e, TRUE, cache[w][Place[Content(e, TRUE)]])
      BY <1>13 DEF ReadKnownPlace
    <2>1. PICK repo :
            /\ Content(e, TRUE) # Refused
            /\ repo = cache[w][Place[Content(e, TRUE)]] /\ repo # Unseen
            /\ Take(w, e, TRUE, repo)
      BY <2>0
    <2>2. Observed(Content(e, TRUE), repo)'
      BY <1>1, <1>12, <2>1 DEF CacheSound
    <2>3. repo \in Repositories \union {NoRepository}
      <3>1. Place[Content(e, TRUE)] \in Places
        BY <1>12, <2>1 DEF Places
      <3>2. cache[w] \in [Places -> Repositories \union {NoRepository, Unseen}]
        BY DEF TypeOK
      <3>. QED
        BY <2>1, <3>1, <3>2
    <2>4. InputsRead'
      BY <1>10, <2>1, <2>2, <2>3
    <2>. QED
      BY <1>5, <1>13, <2>4 DEF ReadKnownPlace
  <1>14. CASE ReadNewPlace(w)
    <2>1. PICK e \in todo[w], repo \in Repositories \union {NoRepository} :
            /\ Content(e, TRUE) # Refused
            /\ cache' = [cache EXCEPT ![w][Place[Content(e, TRUE)]] = repo]
            /\ checkpoints' = checkpoints \union
                 IF repo = NoRepository THEN {}
                 ELSE {[place |-> Place[Content(e, TRUE)], repository |-> repo]}
            /\ Take(w, e, TRUE, repo)
      BY <1>14 DEF ReadNewPlace
    <2>2. repo # NoRepository =>
            [place |-> Place[Content(e, TRUE)], repository |-> repo] \in checkpoints'
      BY <2>1
    <2>3. InputsRead'
      BY <1>10, <2>1, <2>2 DEF Observed
    <2>4. \A v \in Processors, p \in Payloads :
            \/ cache'[v][Place[p]] = cache[v][Place[p]]
            \/ cache'[v][Place[p]] = repo /\ Place[p] = Place[Content(e, TRUE)]
      <3>1. \A v \in Processors : v # w => cache'[v] = cache[v]
        BY <2>1 DEF TypeOK
      <3>2. cache'[w] = [cache[w] EXCEPT ![Place[Content(e, TRUE)]] = repo]
        BY <2>1 DEF TypeOK
      <3>3. \A p \in Payloads : Place[p] \in DOMAIN cache[w]
        BY DEF TypeOK, Places
      <3>4. \A p \in Payloads : cache'[w][Place[p]] =
              IF Place[p] = Place[Content(e, TRUE)] THEN repo ELSE cache[w][Place[p]]
        BY <3>2, <3>3
      <3>. QED
        BY <3>1, <3>4
    <2>5. CacheSound'
      BY <1>1, <2>2, <2>4 DEF CacheSound, Observed
    <2>. QED
      BY <2>3, <2>5
  <1>15. CASE Replay(w) \/ Saves(w)
    <2>1. UNCHANGED <<cache, input>> /\ pc[w] = "save" /\ Goto(w, "remove")
      BY <1>15 DEF Replay, Saves, Reject, Insert, Merge, Saved, localVars
    <2>2. disposition'[input[w].key] # "none"
      <3>1. input[w].key \in Key
        BY <2>1 DEF InputsRead, InputRead, Input
      <3>2. CASE Replay(w)
        BY <3>1, <3>2 DEF Replay, Known, ledgerVars
      <3>3. CASE Saves(w)
        <4>1. PICK label \in Dispositions : Saved(w, label)
          BY <3>3 DEF Saves, Reject, Insert, Merge, Dispositions
        <4>. QED
          BY <3>1, <4>1 DEF Saved, TypeOK, Dispositions
      <3>. QED
        BY <1>15, <3>2, <3>3
    <2>3. pc'[w] = "remove" /\ \A v \in Processors \ {w} : pc'[v] = pc[v]
      BY <2>1 DEF Goto, TypeOK
    <2>4. InputRead(w)'
      BY <1>1, <2>1, <2>2, <2>3 DEF InputsRead, InputRead
    <2>. QED
      BY <1>3, <1>5, <2>1, <2>3, <2>4 DEF InputsRead
  <1>16. CASE RemoveInput(w)
    <2>1. /\ pc'[w] = "next" /\ UNCHANGED cache
          /\ \A v \in Processors \ {w} : pc'[v] = pc[v] /\ input'[v] = input[v]
      BY <1>16 DEF RemoveInput, Goto, TypeOK
    <2>. QED
      BY <1>4, <1>5, <2>1
  <1>. QED
    BY <1>7, <1>8, <1>9, <1>11, <1>13, <1>14, <1>15, <1>16 DEF Pass, Saves

-----------------------------------------------------------------------------
\* The ledger

Good == {"accepted", "conflict", "duplicate"}

LEMMA SavedInput ==
    ASSUME TypeOK, InputsRead, NEW w \in Processors, pc[w] = "save"
    PROVE  /\ input[w].key \in Key /\ ReceivedAt[input[w].key.delivery] \in Nat
           /\ input[w].content # Refused =>
                /\ input[w].content \in Payloads
                /\ input[w].key.readable /\ input[w].content = Payload[input[w].key.delivery]
                /\ Observed(input[w].content, input[w].repository)
  BY InboxAssumption DEF InputsRead, InputRead, Input, Key, InboxAssumption

\* A saved delivery adds its key to the rows of its observation.
LEMMA RowAdded ==
    ASSUME NEW key \in Key, disposition[key] = "none", NEW label, disposition'[key] = label,
           \A k \in Key : k # key => disposition'[k] = disposition[k],
           NEW S, NEW labels, "none" \notin labels
    PROVE  /\ key.readable /\ label \in labels /\ Payload[key.delivery] \in S =>
                RowsOf(S, labels)' = RowsOf(S, labels) \union {key}
           /\ label \notin labels \/ Payload[key.delivery] \notin S =>
                RowsOf(S, labels)' = RowsOf(S, labels)
  BY DEF RowsOf

LedgerInv == RowsSound /\ InsertedOnce /\ ReceiptTimeIsFirst /\ RepositoryObserved

LEMMA RejectStep ==
    ASSUME TypeOK, InputsRead, LedgerInv, NEW w \in Processors, Reject(w)
    PROVE  LedgerInv'
  <1>1. PICK key \in Key : /\ key = input[w].key /\ disposition[key] = "none"
                           /\ disposition' = [disposition EXCEPT ![key] = "rejected"]
    BY SavedInput DEF Reject, Known, Saved
  <1>2. ASSUME NEW S, NEW labels, labels \subseteq Good
        PROVE  RowsOf(S, labels)' = RowsOf(S, labels)
    <2>1. disposition'[key] = "rejected" /\ \A k \in Key : k # key => disposition'[k] = disposition[k]
      BY <1>1 DEF TypeOK
    <2>. QED
      BY <1>1, <1>2, <2>1, RowAdded DEF Good
  <1>3. UNCHANGED <<stored, received, repository, checkpoints>>
    BY DEF Reject, Saved
  <1>4. RowsSound'
    <2>1. \A k \in Key : disposition'[k] \in {disposition[k], "rejected"}
      BY <1>1 DEF TypeOK
    <2>. QED
      BY <1>3, <2>1 DEF LedgerInv, RowsSound
  <1>5. InsertedOnce'
    <2>1. \A S : /\ RowsOf(S, {"accepted"})' = RowsOf(S, {"accepted"})
                 /\ RowsOf(S, {"accepted", "conflict"})' = RowsOf(S, {"accepted", "conflict"})
                 /\ RowsOf(S, {"accepted", "conflict", "duplicate"})' =
                      RowsOf(S, {"accepted", "conflict", "duplicate"})
      BY <1>2 DEF Good
    <2>. QED
      BY <1>3, <2>1 DEF LedgerInv, InsertedOnce
  <1>6. ReceiptTimeIsFirst'
    <2>1. \A S : RowsOf(S, {"accepted", "conflict", "duplicate"})' =
                   RowsOf(S, {"accepted", "conflict", "duplicate"})
      BY <1>2 DEF Good
    <2>. QED
      BY <1>3, <2>1 DEF LedgerInv, ReceiptTimeIsFirst
  <1>7. RepositoryObserved'
    BY <1>3 DEF LedgerInv, RepositoryObserved
  <1>. QED
    BY <1>4, <1>5, <1>6, <1>7 DEF LedgerInv

LEMMA InsertStep ==
    ASSUME TypeOK, InputsRead, LedgerInv, NEW w \in Processors, Insert(w)
    PROVE  LedgerInv'
  <1>0. /\ pc[w] = "save" /\ ~Known(w) /\ input[w].content # Refused
        /\ \E label \in {"accepted", "conflict"} :
             /\ Saved(w, label)
             /\ label = IF \E q \in stored : LogicalId[q] = LogicalId[input[w].content]
                        THEN "conflict" ELSE "accepted"
    BY DEF Insert
  <1>8. PICK label \in {"accepted", "conflict"} :
          /\ Saved(w, label)
          /\ label = IF \E q \in stored : LogicalId[q] = LogicalId[input[w].content]
                     THEN "conflict" ELSE "accepted"
    BY <1>0
  <1>9. PICK key, p0, repo, at : /\ key = input[w].key /\ p0 = input[w].content
                                 /\ repo = input[w].repository /\ at = ReceivedAt[key.delivery]
    OBVIOUS
  <1>1. /\ key \in Key /\ p0 \in Payloads /\ at \in Nat /\ at = ReceivedAt[key.delivery]
        /\ disposition[key] = "none" /\ disposition' = [disposition EXCEPT ![key] = label]
        /\ key.readable /\ p0 = Payload[key.delivery] /\ Observed(p0, repo)
        /\ p0 \notin stored /\ stored' = stored \union {p0}
        /\ received' = [received EXCEPT ![p0] = at]
        /\ repository' = [repository EXCEPT ![p0] = repo]
        /\ label \in {"accepted", "conflict"}
        /\ label = IF \E q \in stored : LogicalId[q] = LogicalId[p0] THEN "conflict" ELSE "accepted"
    <2>1. /\ key \in Key /\ at \in Nat /\ p0 \in Payloads
          /\ key.readable /\ p0 = Payload[key.delivery] /\ Observed(p0, repo)
      BY <1>0, <1>9, SavedInput
    <2>2. /\ disposition[key] = "none" /\ disposition' = [disposition EXCEPT ![key] = label]
      BY <1>0, <1>8, <1>9 DEF Known, Saved
    <2>3. /\ p0 \notin stored /\ stored' = stored \union {p0}
          /\ received' = [received EXCEPT ![p0] = at]
          /\ repository' = [repository EXCEPT ![p0] = repo]
      BY <1>9 DEF Insert
    <2>. QED
      BY <1>8, <1>9, <2>1, <2>2, <2>3
  <1>2. checkpoints' = checkpoints
    BY DEF Insert, Saved
  <1>3. ASSUME NEW S, NEW labels, labels \subseteq Good
        PROVE  RowsOf(S, labels)' = IF label \in labels /\ p0 \in S
                                    THEN RowsOf(S, labels) \union {key} ELSE RowsOf(S, labels)
    <2>1. /\ disposition'[key] = label /\ "none" \notin labels
          /\ \A k \in Key : k # key => disposition'[k] = disposition[k]
      BY <1>1, <1>3 DEF TypeOK, Good
    <2>2. key \in Key /\ disposition[key] = "none" /\ key.readable /\ p0 = Payload[key.delivery]
      BY <1>1
    <2>3. /\ label \in labels /\ p0 \in S => RowsOf(S, labels)' = RowsOf(S, labels) \union {key}
          /\ label \notin labels \/ p0 \notin S => RowsOf(S, labels)' = RowsOf(S, labels)
      BY <2>1, <2>2, RowAdded
    <2>. QED
      BY <2>3
  <1>4. RowsSound'
    <2>1. \A k \in Key : k # key => disposition'[k] = disposition[k]
      BY <1>1 DEF TypeOK
    <2>. QED
      BY <1>1, <2>1 DEF LedgerInv, RowsSound
  <1>5. InsertedOnce'
    <2>1. RowsOf({p0}, {"accepted", "conflict", "duplicate"}) = {}
      BY <1>1 DEF LedgerInv, InsertedOnce
    <2>2. RowsOf({p0}, {"accepted", "conflict"})' = {key}
      <3>1. RowsOf({p0}, {"accepted", "conflict"}) = {}
        BY <2>1 DEF RowsOf
      <3>. QED
        BY <1>1, <1>3, <3>1 DEF Good
    <2>3. OneMember(RowsOf(SameEvent(p0), {"accepted"})')
      <3>1. CASE label = "accepted"
        <4>1. RowsOf(SameEvent(p0), {"accepted"}) = {}
          BY <1>1, <3>1 DEF LedgerInv, RowsSound, RowsOf, SameEvent
        <4>2. p0 \in SameEvent(p0)
          BY <1>1 DEF SameEvent
        <4>3. RowsOf(SameEvent(p0), {"accepted"})' = {key}
          BY <1>3, <3>1, <4>1, <4>2 DEF Good
        <4>. QED
          BY <4>3 DEF OneMember
      <3>2. CASE label = "conflict"
        <4>1. PICK q \in stored : LogicalId[q] = LogicalId[p0]
          BY <1>1, <3>2
        <4>2. q \in Payloads /\ SameEvent(q) = SameEvent(p0)
          BY <4>1 DEF SameEvent, TypeOK
        <4>3. OneMember(RowsOf(SameEvent(p0), {"accepted"}))
          BY <4>1, <4>2 DEF LedgerInv, InsertedOnce
        <4>4. RowsOf(SameEvent(p0), {"accepted"})' = RowsOf(SameEvent(p0), {"accepted"})
          BY <1>3, <3>2 DEF Good
        <4>. QED
          BY <4>3, <4>4
      <3>. QED
        BY <1>1, <3>1, <3>2
    <2>4. ASSUME NEW p \in Payloads, p # p0
          PROVE  /\ RowsOf({p}, {"accepted", "conflict"})' = RowsOf({p}, {"accepted", "conflict"})
                 /\ RowsOf({p}, {"accepted", "conflict", "duplicate"})' =
                      RowsOf({p}, {"accepted", "conflict", "duplicate"})
                 /\ p \in stored =>
                      RowsOf(SameEvent(p), {"accepted"})' = RowsOf(SameEvent(p), {"accepted"})
      <3>1. p \in stored => label # "accepted" \/ p0 \notin SameEvent(p)
        BY <1>1 DEF SameEvent
      <3>. QED
        BY <1>3, <2>4, <3>1 DEF Good
    <2>5. OneMember(RowsOf({p0}, {"accepted", "conflict"})')
      BY <2>2 DEF OneMember
    <2>6. ASSUME NEW p \in Payloads
          PROVE  IF p \in stored'
                 THEN /\ OneMember(RowsOf({p}, {"accepted", "conflict"})')
                      /\ OneMember(RowsOf(SameEvent(p), {"accepted"})')
                 ELSE RowsOf({p}, {"accepted", "conflict", "duplicate"})' = {}
      <3>1. CASE p = p0
        BY <1>1, <2>3, <2>5, <3>1
      <3>2. CASE p # p0
        BY <1>1, <2>4, <3>2 DEF LedgerInv, InsertedOnce
      <3>. QED
        BY <3>1, <3>2
    <2>. QED
      BY <2>6 DEF InsertedOnce, OneMember
  <1>6. ReceiptTimeIsFirst'
    <2>1. RowsOf({p0}, {"accepted", "conflict", "duplicate"})' = {key}
      <3>1. RowsOf({p0}, {"accepted", "conflict", "duplicate"}) = {}
        BY <1>1 DEF LedgerInv, InsertedOnce
      <3>. QED
        BY <1>1, <1>3, <3>1 DEF Good
    <2>2. \A p : p # p0 => RowsOf({p}, {"accepted", "conflict", "duplicate"})' =
                             RowsOf({p}, {"accepted", "conflict", "duplicate"})
      BY <1>3 DEF Good
    <2>3. received'[p0] = at /\ \A p \in Payloads : p # p0 => received'[p] = received[p]
      BY <1>1 DEF TypeOK
    <2>4. ASSUME NEW p \in stored'
          PROVE  LET times == {ReceivedAt[k.delivery] :
                        k \in RowsOf({p}, {"accepted", "conflict", "duplicate"})'} IN
                 received'[p] \in times /\ \A t \in times : received'[p] <= t
      <3>1. CASE p = p0
        <4>1. RowsOf({p}, {"accepted", "conflict", "duplicate"})' = {key}
          BY <2>1, <3>1
        <4>2. {ReceivedAt[k.delivery] : k \in {key}} = {at}
          BY <1>1
        <4>3. at <= at
          BY <1>1
        <4>. QED
          BY <2>3, <3>1, <4>1, <4>2, <4>3
      <3>2. CASE p # p0
        BY <1>1, <2>2, <2>3, <2>4, <3>2 DEF LedgerInv, ReceiptTimeIsFirst, TypeOK
      <3>. QED
        BY <3>1, <3>2
    <2>. QED
      BY <2>4 DEF ReceiptTimeIsFirst
  <1>7. RepositoryObserved'
    BY <1>1, <1>2 DEF LedgerInv, RepositoryObserved, Observed, TypeOK
  <1>. QED
    BY <1>4, <1>5, <1>6, <1>7 DEF LedgerInv

LEMMA MinOfUnion ==
    ASSUME NEW T, T \subseteq Nat, NEW r \in T, \A t \in T : r <= t, NEW at \in Nat,
           NEW m, m = IF at < r THEN at ELSE r
    PROVE  m \in T \union {at} /\ \A t \in T \union {at} : m <= t
  <1>1. r \in Nat /\ m \in Nat /\ m <= r /\ m <= at
    OBVIOUS
  <1>2. ASSUME NEW t \in T PROVE m <= t
    <2>1. t \in Nat /\ r <= t
      BY <1>2
    <2>. QED
      BY <1>1, <2>1
  <1>. QED
    BY <1>1, <1>2

LEMMA MergeStep ==
    ASSUME TypeOK, InputsRead, LedgerInv, NEW w \in Processors, Merge(w)
    PROVE  LedgerInv'
  <1>0. /\ pc[w] = "save" /\ ~Known(w) /\ input[w].content \in stored /\ Saved(w, "duplicate")
        /\ input[w].content # Refused
    BY InboxAssumption DEF Merge, TypeOK, InboxAssumption
  <1>8. PICK key, p0, at : /\ key = input[w].key /\ p0 = input[w].content
                           /\ at = ReceivedAt[key.delivery]
    OBVIOUS
  <1>1. /\ key \in Key /\ p0 \in Payloads /\ at \in Nat /\ at = ReceivedAt[key.delivery]
        /\ disposition[key] = "none" /\ disposition' = [disposition EXCEPT ![key] = "duplicate"]
        /\ key.readable /\ p0 = Payload[key.delivery] /\ p0 \in stored
        /\ received' = [received EXCEPT ![p0] = IF at < @ THEN at ELSE @]
    <2>1. /\ key \in Key /\ p0 \in Payloads /\ at \in Nat
          /\ key.readable /\ p0 = Payload[key.delivery]
      BY <1>0, <1>8, SavedInput
    <2>2. /\ disposition[key] = "none" /\ disposition' = [disposition EXCEPT ![key] = "duplicate"]
      BY <1>0, <1>8 DEF Known, Saved
    <2>3. received' = [received EXCEPT ![p0] = IF at < @ THEN at ELSE @]
      BY <1>8 DEF Merge
    <2>. QED
      BY <1>0, <1>8, <2>1, <2>2, <2>3
  <1>2. UNCHANGED <<stored, repository, checkpoints>>
    BY DEF Merge, Saved
  <1>3. ASSUME NEW S, NEW labels, labels \subseteq Good
        PROVE  RowsOf(S, labels)' = IF "duplicate" \in labels /\ p0 \in S
                                    THEN RowsOf(S, labels) \union {key} ELSE RowsOf(S, labels)
    <2>1. /\ disposition'[key] = "duplicate" /\ "none" \notin labels
          /\ \A k \in Key : k # key => disposition'[k] = disposition[k]
      BY <1>1, <1>3 DEF TypeOK, Good
    <2>. QED
      BY <1>1, <2>1, RowAdded
  <1>4. RowsSound'
    <2>1. \A k \in Key : k # key => disposition'[k] = disposition[k]
      BY <1>1 DEF TypeOK
    <2>. QED
      BY <1>1, <1>2, <2>1 DEF LedgerInv, RowsSound
  <1>5. InsertedOnce'
    <2>1. \A S : /\ RowsOf(S, {"accepted"})' = RowsOf(S, {"accepted"})
                 /\ RowsOf(S, {"accepted", "conflict"})' = RowsOf(S, {"accepted", "conflict"})
      BY <1>3 DEF Good
    <2>2. \A p : p # p0 => RowsOf({p}, {"accepted", "conflict", "duplicate"})' =
                             RowsOf({p}, {"accepted", "conflict", "duplicate"})
      BY <1>3 DEF Good
    <2>. QED
      BY <1>1, <1>2, <2>1, <2>2 DEF LedgerInv, InsertedOnce
  <1>6. ReceiptTimeIsFirst'
    <2>1. RowsOf({p0}, {"accepted", "conflict", "duplicate"})' =
            RowsOf({p0}, {"accepted", "conflict", "duplicate"}) \union {key}
      BY <1>3 DEF Good
    <2>2. \A p : p # p0 => RowsOf({p}, {"accepted", "conflict", "duplicate"})' =
                             RowsOf({p}, {"accepted", "conflict", "duplicate"})
      BY <1>3 DEF Good
    <2>3. /\ received'[p0] = IF at < received[p0] THEN at ELSE received[p0]
          /\ \A p \in Payloads : p # p0 => received'[p] = received[p]
      BY <1>1 DEF TypeOK
    <2>4. ASSUME NEW p \in stored
          PROVE  LET times == {ReceivedAt[k.delivery] :
                        k \in RowsOf({p}, {"accepted", "conflict", "duplicate"})'} IN
                 received'[p] \in times /\ \A t \in times : received'[p] <= t
      <3> DEFINE Times(R) == {ReceivedAt[k.delivery] : k \in R}
                 rows == RowsOf({p}, {"accepted", "conflict", "duplicate"})
      <3>1. /\ received[p] \in Times(rows)
            /\ \A t \in Times(rows) : received[p] <= t
            /\ Times(rows) \subseteq Nat
        <4>1. \A k \in rows : ReceivedAt[k.delivery] \in Nat
          BY InboxAssumption DEF RowsOf, Key, InboxAssumption
        <4>. QED
          BY <2>4, <4>1 DEF LedgerInv, ReceiptTimeIsFirst
      <3>2. CASE p = p0
        <4>1. Times(rows \union {key}) = Times(rows) \union {at}
          BY <1>1
        <4>2. rows' = rows \union {key}
          BY <2>1, <3>2
        <4>3. received[p] \in Nat
          BY <1>1, <3>2 DEF TypeOK
        <4>4. /\ received'[p] \in Times(rows \union {key})
              /\ \A t \in Times(rows \union {key}) : received'[p] <= t
          <5>1. PICK T : T = Times(rows)
            OBVIOUS
          <5>2. PICK r, m : r = received[p] /\ m = received'[p]
            OBVIOUS
          <5>3. /\ r \in T /\ T \subseteq Nat /\ (\A t \in T : r <= t) /\ at \in Nat
                /\ m = IF at < r THEN at ELSE r
            BY <1>1, <2>3, <3>1, <3>2, <5>1, <5>2
          <5>4. m \in T \union {at} /\ \A t \in T \union {at} : m <= t
            <6> HIDE DEF Times, rows
            <6>. QED
              BY <5>3, MinOfUnion
          <5>. QED
            BY <4>1, <5>1, <5>2, <5>4
        <4>. QED
          BY <4>2, <4>4
      <3>3. CASE p # p0
        <4>1. rows' = rows /\ p \in Payloads
          BY <2>2, <2>4, <3>3 DEF TypeOK
        <4>. QED
          BY <2>3, <3>1, <3>3, <4>1
      <3>. QED
        BY <3>2, <3>3
    <2>. QED
      BY <1>2, <2>4 DEF ReceiptTimeIsFirst
  <1>7. RepositoryObserved'
    BY <1>1, <1>2 DEF LedgerInv, RepositoryObserved
  <1>. QED
    BY <1>4, <1>5, <1>6, <1>7 DEF LedgerInv

\* Whoever steps, the ledger stays sound.
LEMMA LedgerStep ==
    ASSUME TypeOK, InputsRead, LedgerInv, NEW w \in Processors, Pass(w) \/ StopPass(w)
    PROVE  LedgerInv'
  <1>1. CASE UNCHANGED ledgerVars
    <2>1. checkpoints \subseteq checkpoints'
      BY PassChecks
    <2>2. \A S, labels : RowsOf(S, labels)' = RowsOf(S, labels)
      BY <1>1 DEF RowsOf, ledgerVars
    <2>. QED
      BY <1>1, <2>1, <2>2 DEF LedgerInv, RowsSound, InsertedOnce, ReceiptTimeIsFirst,
         RepositoryObserved, ledgerVars
  <1>2. CASE Saves(w)
    BY <1>2, RejectStep, InsertStep, MergeStep DEF Saves
  <1>. QED
    BY <1>1, <1>2, PassFrame

-----------------------------------------------------------------------------
\* The files

LEMMA AccountedStays ==
    ASSUME TypeOK, InputsRead, NEW d \in Deliveries, Accounted(d),
           NEW w \in Processors, Pass(w) \/ StopPass(w)
    PROVE  Accounted(d)'
  <1>1. PICK k \in Key : /\ k.delivery = d /\ disposition[k] # "none"
                         /\ disposition[k] # "rejected" => Payload[d] \in stored
    BY DEF Accounted
  <1>2. disposition'[k] = disposition[k]
    BY <1>1, PassFrame, SavedInput DEF ledgerVars, Saves, Reject, Insert, Merge, Saved, Known, TypeOK
  <1>3. stored \subseteq stored'
    BY PassFrame DEF ledgerVars, Saves, Reject, Insert, Merge
  <1>. QED
    BY <1>1, <1>2, <1>3 DEF Accounted

LEMMA FileStep ==
    ASSUME TypeOK, InputsRead, RowsSound, RenamedKept, NothingVanishes,
           NEW w \in Processors, Pass(w) \/ StopPass(w)
    PROVE  RenamedKept' /\ NothingVanishes'
  <1>1. UNCHANGED <<target, step, disk>>
    BY PassFrame DEF hookVars
  <1>2. ASSUME NEW e \in entries, e \notin entries' PROVE Accounted(e.delivery)
    <2>1. RemoveInput(w)
      BY <1>2, PassFrame
    <2>2. e = input[w].entry /\ pc[w] = "remove"
      BY <1>2, <2>1 DEF RemoveInput
    <2>3. /\ input[w].key \in Key /\ input[w].key.delivery = e.delivery
          /\ disposition[input[w].key] # "none"
      BY <2>2 DEF InputsRead, InputRead, Input
    <2>. QED
      BY <2>3 DEF RowsSound, Accounted
  <1>3. \A d \in Deliveries, temp \in BOOLEAN : Named(d, temp)' = Named(d, temp)
    BY <1>1 DEF Named
  <1>4. ASSUME NEW d \in Deliveries, step'[d] = "renamed"
        PROVE  Named(d, FALSE)' \in entries' \/ Accounted(d)'
    <2>1. Named(d, FALSE).delivery = d
      BY DEF Named
    <2>. QED
      BY <1>1, <1>2, <1>3, <1>4, <2>1, AccountedStays DEF RenamedKept
  <1>5. ASSUME NEW d \in Deliveries, NEW directory, Kept(d, directory) \/ Accounted(d)
        PROVE  Kept(d, directory)' \/ Accounted(d)'
    <2>1. CASE Accounted(d)
      BY <2>1, AccountedStays
    <2>2. CASE Kept(d, directory)
      <3>1. PICK e : e = [directory |-> directory, delivery |-> d, temp |-> FALSE]
        OBVIOUS
      <3>2. e \in entries /\ e \in disk /\ e.delivery = d
        BY <2>2, <3>1 DEF Kept
      <3>3. CASE e \in entries'
        BY <1>1, <3>1, <3>2, <3>3 DEF Kept
      <3>4. CASE e \notin entries'
        BY <1>2, <3>2, <3>4, AccountedStays
      <3>. QED
        BY <3>3, <3>4
    <2>. QED
      BY <1>5, <2>1, <2>2
  <1>. QED
    BY <1>1, <1>4, <1>5 DEF RenamedKept, NothingVanishes

-----------------------------------------------------------------------------
\* The hooks

\* The processors and the ledger see nothing of a hook's steps.
LEMMA HookKeeps ==
    ASSUME TypeOK, LockHeld, RunsOpen, RestartsCounted, CacheSound, InputsRead, LedgerInv,
           NEW d \in Deliveries, HookStep(d)
    PROVE  LockHeld' /\ RunsOpen' /\ RestartsCounted' /\ CacheSound' /\ InputsRead' /\ LedgerInv'
  <1>1. /\ UNCHANGED <<disposition, stored, received, repository, checkpoints, restarts, open, lock,
                       pc, cache, input>>
        /\ faults' \in {faults, faults + 1}
    BY HookFrame DEF ledgerVars, gapVars, runVars, localVars
  <1>2. LockHeld' /\ RunsOpen'
    BY <1>1 DEF LockHeld, RunsOpen
  <1>3. RestartsCounted'
    <2>1. restarts \in Nat /\ faults \in Nat
      BY InboxAssumption DEF TypeOK, InboxAssumption
    <2>2. Unreported' = Unreported /\ Unreported \in Nat
      BY <1>1 DEF Unreported
    <2>. QED
      BY <1>1, <2>1, <2>2 DEF RestartsCounted
  <1>4. CacheSound' /\ InputsRead'
    BY <1>1 DEF CacheSound, InputsRead, InputRead, Observed
  <1>5. LedgerInv'
    BY <1>1 DEF LedgerInv, RowsSound, InsertedOnce, ReceiptTimeIsFirst, RepositoryObserved, RowsOf
  <1>. QED
    BY <1>2, <1>3, <1>4, <1>5

LEMMA HookFiles ==
    ASSUME TypeOK, RenamedKept, NothingVanishes, NEW d \in Deliveries, HookStep(d)
    PROVE  RenamedKept' /\ NothingVanishes'
  <1>1. \A c \in Deliveries : Accounted(c)' = Accounted(c)
    BY HookFrame DEF Accounted, ledgerVars
  <1>2. PICK label : Advance(d, label)
    BY DEF HookStep, Hook, WriteTemp, Rename, SyncDirectory, Acknowledge, WriteFails, KillHook
  <1>3. \A c \in Deliveries : step'[c] = IF c = d THEN label ELSE step[c]
    BY <1>2 DEF Advance, TypeOK
  <1>4. \A c \in Deliveries : c # d => target'[c] = target[c]
    BY DEF HookStep, Hook, WriteTemp, Rename, SyncDirectory, Acknowledge, WriteFails, KillHook, TypeOK
  <1>5. \A e \in entries : ~e.temp => e \in entries'
    BY DEF HookStep, Hook, WriteTemp, Rename, SyncDirectory, WriteFails, KillHook, Named, fileVars
  <1>6. entries \intersect disk \subseteq disk'
    BY DEF HookStep, Hook, WriteTemp, Rename, SyncDirectory, WriteFails, KillHook, fileVars
  <1>7. \A c \in Deliveries, directory \in Directories : Kept(c, directory) => Kept(c, directory)'
    BY <1>5, <1>6 DEF Kept
  <1>8. RenamedKept'
    <2>1. ASSUME NEW c \in Deliveries, c # d, step'[c] = "renamed"
          PROVE  Named(c, FALSE)' \in entries' \/ Accounted(c)'
      <3>1. Named(c, FALSE)' = Named(c, FALSE) /\ ~Named(c, FALSE).temp
        BY <1>4, <2>1 DEF Named
      <3>2. Named(c, FALSE) \in entries \/ Accounted(c)
        BY <1>3, <2>1 DEF RenamedKept
      <3>. QED
        BY <1>1, <1>5, <3>1, <3>2
    <2>2. ASSUME step'[d] = "renamed" PROVE Named(d, FALSE)' \in entries'
      <3>1. Rename(d)
        BY <1>3, <2>2 DEF HookStep, Hook, WriteTemp, SyncDirectory, Acknowledge, WriteFails, KillHook,
           Advance, TypeOK
      <3>. QED
        BY <3>1 DEF Rename, Named
    <2>. QED
      BY <2>1, <2>2 DEF RenamedKept
  <1>9. NothingVanishes'
    <2>1. ASSUME NEW c \in Deliveries, NEW directory \in Directories, c # d \/ step[d] # "renamed",
                 step[c] \in {"acknowledged", "reported"},
                 Kept(c, directory) \/ Accounted(c)
          PROVE  Kept(c, directory)' \/ Accounted(c)'
      BY <1>1, <1>7, <2>1
    <2>2. ASSUME NEW directory,
                 \/ step'[d] = "acknowledged" /\ directory = "inbox"
                 \/ step'[d] = "reported" /\ directory = "failures"
          PROVE  Kept(d, directory)' \/ Accounted(d)'
      <3>1. SyncDirectory(d)
        BY <1>3, <2>2 DEF HookStep, Hook, WriteTemp, Rename, WriteFails, KillHook, Advance, TypeOK
      <3>2. /\ step[d] = "renamed" /\ entries' = entries
            /\ disk' = (disk \ In(target[d])) \union (entries \intersect In(target[d]))
            /\ step'[d] = IF target[d] = "inbox" THEN "acknowledged" ELSE "reported"
        BY <3>1 DEF SyncDirectory, Acknowledge, Advance, TypeOK
      <3>3. Named(d, FALSE) \in entries \/ Accounted(d)
        BY <3>2 DEF RenamedKept
      <3>4. target[d] = directory
        BY <2>2, <3>2 DEF TypeOK, Directories
      <3>5. Named(d, FALSE) \in entries => Kept(d, directory)'
        <4>1. Named(d, FALSE) \in entries => Named(d, FALSE) \in In(target[d])
          BY DEF In, Named, TypeOK
        <4>2. Named(d, FALSE) = [directory |-> directory, delivery |-> d, temp |-> FALSE]
          BY <3>4 DEF Named
        <4>. QED
          BY <3>2, <4>1, <4>2 DEF Kept
      <3>. QED
        BY <1>1, <3>3, <3>5
    <2>3. ASSUME NEW c \in Deliveries
          PROVE  /\ step'[c] = "acknowledged" => Kept(c, "inbox")' \/ Accounted(c)'
                 /\ step'[c] = "reported" => Kept(c, "failures")' \/ Accounted(c)'
      <3>1. CASE c # d
        BY <1>3, <2>1, <3>1 DEF NothingVanishes, Directories
      <3>2. CASE c = d
        BY <2>2, <3>2
      <3>. QED
        BY <3>1, <3>2
    <2>. QED
      BY <2>3 DEF NothingVanishes
  <1>. QED
    BY <1>8, <1>9

-----------------------------------------------------------------------------
\* Power loss, and the start

LEMMA PowerStep == InboxInv /\ PowerLoss => InboxInv'
  <1> SUFFICES ASSUME InboxInv, PowerLoss PROVE InboxInv'
    OBVIOUS
  <1>1. /\ UNCHANGED <<target, disposition, stored, received, repository, checkpoints, restarts, open>>
        /\ faults' = faults + 1 /\ lock' = NoProcessor
        /\ \A w \in Processors : pc'[w] = "idle" /\ cache'[w] = Blank
    BY DEF PowerLoss, Fault, ledgerVars, gapVars
  <1>2. TypeOK'
    BY PowerType DEF InboxInv
  <1>3. LockHeld' /\ RunsOpen'
    BY <1>1, InboxAssumption DEF LockHeld, RunsOpen, Working, InboxAssumption
  <1>4. RestartsCounted'
    <2>1. restarts \in Nat /\ faults \in Nat
      BY InboxAssumption DEF InboxInv, TypeOK, InboxAssumption
    <2>. QED
      BY <1>1, <2>1 DEF InboxInv, RestartsCounted, Unreported
  <1>5. CacheSound' /\ InputsRead'
    BY <1>1 DEF CacheSound, InputsRead, InputRead, Blank, Places
  <1>6. RowsSound' /\ InsertedOnce' /\ ReceiptTimeIsFirst' /\ RepositoryObserved'
    <2>1. \A S, labels : RowsOf(S, labels)' = RowsOf(S, labels)
      BY <1>1 DEF RowsOf
    <2>. QED
      BY <1>1, <2>1 DEF InboxInv, RowsSound, InsertedOnce, ReceiptTimeIsFirst, RepositoryObserved
  <1>7. \A d \in Deliveries : step'[d] # "renamed" /\ step'[d] \in {"killed", step[d]}
    BY DEF PowerLoss, InboxInv, TypeOK
  <1>8. \A d \in Deliveries, directory \in Directories :
          Kept(d, directory) \/ Accounted(d) => Kept(d, directory)' \/ Accounted(d)'
    <2>1. entries \intersect disk \subseteq entries' \intersect disk'
      BY DEF PowerLoss
    <2>. QED
      BY <1>1, <2>1 DEF Kept, Accounted
  <1>9. RenamedKept' /\ NothingVanishes'
    BY <1>7, <1>8 DEF InboxInv, RenamedKept, NothingVanishes, Directories
  <1>. QED
    BY <1>2, <1>3, <1>4, <1>5, <1>6, <1>9 DEF InboxInv

LEMMA InitInv == Init => InboxInv
  <1> SUFFICES ASSUME Init PROVE InboxInv
    OBVIOUS
  <1>1. TypeOK
    BY InitType
  <1>2. LockHeld /\ RunsOpen
    BY InboxAssumption DEF Init, LockHeld, RunsOpen, Working, InboxAssumption
  <1>3. RestartsCounted
    BY DEF Init, RestartsCounted, Unreported
  <1>4. CacheSound /\ InputsRead
    BY DEF Init, CacheSound, InputsRead, InputRead, Blank, Places
  <1>5. RowsSound /\ InsertedOnce /\ ReceiptTimeIsFirst /\ RepositoryObserved
    <2>1. stored = {} /\ \A k \in Key : disposition[k] = "none"
      BY DEF Init
    <2>2. \A S : RowsOf(S, {"accepted", "conflict", "duplicate"}) = {}
      BY <2>1 DEF RowsOf
    <2>. QED
      BY <2>1, <2>2 DEF RowsSound, InsertedOnce, ReceiptTimeIsFirst, RepositoryObserved
  <1>6. RenamedKept /\ NothingVanishes
    <2>1. \A d \in Deliveries : step[d] \in {"acknowledged", "start"} /\ (step[d] = "acknowledged" => d \in Queued)
      BY DEF Init
    <2>2. \A d \in Queued : Kept(d, "inbox")
      BY DEF Init, Kept
    <2>. QED
      BY <2>1, <2>2 DEF RenamedKept, NothingVanishes
  <1>. QED
    BY <1>1, <1>2, <1>3, <1>4, <1>5, <1>6 DEF InboxInv

\* One step of any process.
LEMMA InboxStep == InboxInv /\ [Next]_vars => InboxInv'
  <1> SUFFICES ASSUME InboxInv, [Next]_vars PROVE InboxInv'
    OBVIOUS
  <1>1. ASSUME NEW d \in Deliveries, HookStep(d) PROVE InboxInv'
    BY <1>1, HookType, HookKeeps, HookFiles DEF InboxInv, LedgerInv
  <1>2. ASSUME NEW w \in Processors, Pass(w) \/ StopPass(w) PROVE InboxInv'
    <2>1. TypeOK'
      BY <1>2, PassType DEF InboxInv, InputsRead
    <2>2. LockHeld' /\ RunsOpen'
      BY <1>2, LockStep DEF InboxInv
    <2>3. RestartsCounted'
      BY <1>2, RestartStep DEF InboxInv
    <2>4. CacheSound' /\ InputsRead'
      BY <1>2, ReadStep DEF InboxInv
    <2>5. LedgerInv'
      BY <1>2, LedgerStep DEF InboxInv, LedgerInv
    <2>6. RenamedKept' /\ NothingVanishes'
      BY <1>2, FileStep DEF InboxInv
    <2>. QED
      BY <2>1, <2>2, <2>3, <2>4, <2>5, <2>6 DEF InboxInv, LedgerInv
  <1>3. CASE PowerLoss
    BY <1>3, PowerStep
  <1>4. CASE UNCHANGED vars
    <2>1. UNCHANGED <<target, step, entries, disk, disposition, stored, received, repository,
                      checkpoints, incomplete, restarts, open, lock, pc, listing, todo, processed,
                      cache, input, faults>>
      BY <1>4 DEF vars, hookVars, fileVars, ledgerVars, gapVars, runVars, localVars
    <2>2. TypeOK'
      BY <2>1 DEF InboxInv, TypeOK
    <2>3. LockHeld' /\ RunsOpen' /\ RestartsCounted'
      BY <2>1 DEF InboxInv, LockHeld, RunsOpen, RestartsCounted, Unreported
    <2>4. CacheSound' /\ InputsRead'
      BY <2>1 DEF InboxInv, CacheSound, InputsRead, InputRead, Observed
    <2>5. RowsSound' /\ InsertedOnce' /\ ReceiptTimeIsFirst' /\ RepositoryObserved'
      <3>1. \A S, labels : RowsOf(S, labels)' = RowsOf(S, labels)
        BY <2>1 DEF RowsOf
      <3>. QED
        BY <2>1, <3>1 DEF InboxInv, RowsSound, InsertedOnce, ReceiptTimeIsFirst, RepositoryObserved
    <2>6. RenamedKept' /\ NothingVanishes'
      BY <2>1 DEF InboxInv, RenamedKept, NothingVanishes, Named, Kept, Accounted
    <2>. QED
      BY <2>2, <2>3, <2>4, <2>5, <2>6 DEF InboxInv
  <1>. QED
    BY <1>1, <1>2, <1>3, <1>4 DEF Next, HookStep

-----------------------------------------------------------------------------
\* The abstract ledger

\* What is stored is what the judged deliveries reported.
LEMMA StoredIsRecorded ==
    ASSUME RowsSound, InsertedOnce, NEW p \in Payloads
    PROVE  p \in stored <=> \E q \in Ledger!Recorded : Reported[q] = p
  <1>1. ASSUME p \in stored PROVE \E q \in Ledger!Recorded : Reported[q] = p
    <2>1. PICK k \in RowsOf({p}, {"accepted", "conflict"}) : TRUE
      BY <1>1 DEF InsertedOnce, OneMember
    <2>2. /\ k \in Key /\ k.readable /\ disposition[k] \in {"accepted", "conflict"}
          /\ Payload[k.delivery] = p
      BY <2>1 DEF RowsOf
    <2>. QED
      BY <2>2 DEF Ledger!Recorded, Reported
  <1>2. ASSUME NEW q \in Ledger!Recorded, Reported[q] = p PROVE p \in stored
    BY <1>2 DEF Ledger!Recorded, Reported, RowsSound
  <1>. QED
    BY <1>1, <1>2

\* A refusal maps to a refusal.
LEMMA RejectMaps ==
    ASSUME TypeOK, InputsRead, NEW w \in Processors, Reject(w)
    PROVE  Ledger!Next
  <1>1. input[w].key \in Key /\ Ledger!Refuse(input[w].key)
    BY SavedInput DEF Reject, Known, Saved, Ledger!Refuse
  <1>. QED
    BY <1>1 DEF Ledger!Next

\* Insert finds no row of its observation, and one of its event if there is any.
LEMMA InsertMaps ==
    ASSUME TypeOK, InputsRead, RowsSound, InsertedOnce, NEW w \in Processors, Insert(w)
    PROVE  Ledger!Next
  <1>1. PICK k, p : k = input[w].key /\ p = input[w].content
    OBVIOUS
  <1>2. /\ pc[w] = "save" /\ disposition[k] = "none" /\ p # Refused /\ p \notin stored
        /\ disposition' = [disposition EXCEPT ![k] =
             IF \E q \in stored : LogicalId[q] = LogicalId[p] THEN "conflict" ELSE "accepted"]
    BY <1>1 DEF Insert, Known, Saved
  <1>3. k \in Key /\ p \in Payloads /\ k.readable /\ p = Payload[k.delivery]
    BY <1>1, <1>2, SavedInput
  <1>4. Reported[k] = p
    BY <1>3 DEF Reported
  <1>5. ~ \E q \in Ledger!Recorded : Reported[q] = p
    BY <1>2, <1>3, StoredIsRecorded
  <1>6. (\E q \in stored : LogicalId[q] = LogicalId[p])
          <=> \E q \in Ledger!Recorded : LogicalId[Reported[q]] = LogicalId[p]
    <2>1. stored \subseteq Payloads
      BY DEF TypeOK
    <2>2. \A q \in Ledger!Recorded : Reported[q] \in stored
      BY DEF Ledger!Recorded, Reported, RowsSound
    <2>. QED
      BY <2>1, <2>2, StoredIsRecorded
  <1>7. Ledger!Observe(k)
    BY <1>2, <1>4, <1>5, <1>6 DEF Ledger!Observe
  <1>. QED
    BY <1>3, <1>7 DEF Ledger!Next

\* Merge finds a row of its observation.
LEMMA MergeMaps ==
    ASSUME TypeOK, InputsRead, RowsSound, InsertedOnce, NEW w \in Processors, Merge(w)
    PROVE  Ledger!Next
  <1>1. PICK k, p : k = input[w].key /\ p = input[w].content
    OBVIOUS
  <1>2. /\ pc[w] = "save" /\ disposition[k] = "none" /\ p \in stored
        /\ disposition' = [disposition EXCEPT ![k] = "duplicate"]
    BY <1>1 DEF Merge, Known, Saved
  <1>3. p # Refused
    BY <1>2, InboxAssumption DEF TypeOK, InboxAssumption
  <1>4. k \in Key /\ p \in Payloads /\ k.readable /\ p = Payload[k.delivery]
    BY <1>1, <1>2, <1>3, SavedInput
  <1>5. Reported[k] = p
    BY <1>4 DEF Reported
  <1>6. \E q \in Ledger!Recorded : Reported[q] = p
    BY <1>2, <1>4, StoredIsRecorded
  <1>7. Ledger!Observe(k)
    BY <1>2, <1>3, <1>5, <1>6 DEF Ledger!Observe
  <1>. QED
    BY <1>4, <1>7 DEF Ledger!Next

\* Every step is a step of the abstract ledger, or leaves it alone.
LEMMA LedgerMaps == InboxInv /\ [Next]_vars => [Ledger!Next]_disposition
  <1> SUFFICES ASSUME InboxInv, [Next]_vars PROVE Ledger!Next \/ UNCHANGED disposition
    OBVIOUS
  <1>1. ASSUME NEW d \in Deliveries, HookStep(d) PROVE UNCHANGED disposition
    BY <1>1, HookFrame DEF ledgerVars
  <1>2. ASSUME NEW w \in Processors, Pass(w) \/ StopPass(w)
        PROVE  Ledger!Next \/ UNCHANGED disposition
    <2>1. UNCHANGED ledgerVars \/ Saves(w)
      BY <1>2, PassFrame
    <2>2. Saves(w) => Ledger!Next
      BY RejectMaps, InsertMaps, MergeMaps DEF Saves, InboxInv
    <2>. QED
      BY <2>1, <2>2 DEF ledgerVars
  <1>3. CASE PowerLoss
    BY <1>3 DEF PowerLoss, ledgerVars
  <1>4. CASE UNCHANGED vars
    BY <1>4 DEF vars, ledgerVars
  <1>. QED
    BY <1>1, <1>2, <1>3, <1>4 DEF Next, HookStep

-----------------------------------------------------------------------------
\* The theorems

\* Whatever is delivered, whoever processes it, and however often processes are
\* killed and power is lost, the state is sound.
THEOREM InboxInvariant == Spec => []InboxInv
  <1>1. Init => InboxInv
    BY InitInv
  <1>2. InboxInv /\ [Next]_vars => InboxInv'
    BY InboxStep
  <1>. QED
    BY <1>1, <1>2, PTL DEF Spec

\* The types of the hooks, the files, the ledger and the processors.
THEOREM InboxTypeCorrect == Spec => []TypeOK
  BY InboxInvariant, PTL DEF InboxInv

\* A delivery that Capture acknowledged, or whose failure it recorded, is on disk or
\* the ledger accounts for it: WriteDurable's sync, and the order in which
\* ProcessInbox saves a delivery and removes its file.
THEOREM AcknowledgedIsKept == Spec => []NothingVanishes
  BY InboxInvariant, PTL DEF InboxInv

\* Every stored observation was inserted by one delivery, and every event has one
\* accepted observation: saveDelivery's keys, against replays of files.
THEOREM DispositionsAgree == Spec => []InsertedOnce
  BY InboxInvariant, PTL DEF InboxInv

\* codex_deliveries implements the abstract ledger: saveDelivery is its only step,
\* although ProcessInbox spreads a delivery over several that a kill may part.
THEOREM InboxImplementsLedger == Spec => ImplementsLedger
  <1>1. Init => Ledger!Init
    BY DEF Init, Ledger!Init
  <1>2. InboxInv /\ [Next]_vars => [Ledger!Next]_disposition
    BY LedgerMaps
  <1>. QED
    BY <1>1, <1>2, InboxInvariant, PTL DEF Spec, ImplementsLedger, Ledger!Spec

\* The order of the files never chooses the receipt time: saveDelivery's merge.
THEOREM ReceiptTimeFirst == Spec => []ReceiptTimeIsFirst
  BY InboxInvariant, PTL DEF InboxInv

\* An observation names no repository without the stored checkpoint that saw it: the
\* cache of ProcessInbox, and the order of Checkpoint and saveDelivery.
THEOREM RepositoryWasObserved == Spec => []RepositoryObserved
  BY InboxInvariant, PTL DEF InboxInv

\* Two processors never work at once, and every earlier interruption is marked by
\* then: process.lock and beginObservationRun.
THEOREM OnlyOneRun == Spec => []OnlyRunOpen
  <1>1. InboxInv => OnlyRunOpen
    BY DEF InboxInv, TypeOK, LockHeld, RunsOpen, Working, OnlyRunOpen
  <1>. QED
    BY <1>1, InboxInvariant, PTL

\* No process_restart gap is made up: beginObservationRun and the end of a run.
THEOREM RestartsReal == Spec => []RestartsWereInterruptions
  <1>1. InboxInv => RestartsWereInterruptions
    BY InboxAssumption DEF InboxInv, TypeOK, RestartsCounted, Unreported, RestartsWereInterruptions,
       InboxAssumption
  <1>. QED
    BY <1>1, InboxInvariant, PTL

\* However many processors are started, fail or are killed, runs and restart gaps tell
\* what happened: the lock, beginObservationRun and finishObservationRun.
THEOREM RunsTrue == Spec => []RunsAreTrue
  BY OnlyOneRun, RestartsReal, PTL DEF RunsAreTrue
=================================================================================
