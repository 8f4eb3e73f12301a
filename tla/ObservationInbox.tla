---------------------------- MODULE ObservationInbox ----------------------------
(***************************************************************************)
(* The Codex observation inbox: hooks leave deliveries as files            *)
(* (internal/observationcapture/inbox.go), and `secuarden ledger process`  *)
(* applies them to the ledger (internal/changeledger/process.go,           *)
(* observation_store.go, observation_checkpoint.go).                       *)
(*                                                                         *)
(* Processes may be killed between any two steps, and the machine may lose *)
(* power: what is in the database has been synced by SQLite, and a         *)
(* directory keeps the entries it had when it was last synced, plus or     *)
(* minus any of those that changed since.                                  *)
(***************************************************************************)
EXTENDS Naturals

CONSTANTS Deliveries,   \* calls of the capture hook, each of which has its own id
          Payloads,     \* inputs that Normalize accepts; one is one observation
          Refused,      \* an input that it rejects
          Queued,       \* deliveries that were acknowledged before the model starts
          Payload,      \* [Deliveries -> Payloads \union {Refused}]
          LogicalId,    \* the event a payload reports
          Place,        \* its session and working directory
          ReceivedAt,   \* [Deliveries -> Nat]
          Repositories, NoRepository, Unseen,
          Processors, NoProcessor, NoInput,
          Limit,        \* --limit
          MaxFaults     \* bound on failures

Directories == {"inbox", "failures"}
Places == {Place[p] : p \in Payloads}

ASSUME InboxAssumption ==
    /\ Queued \subseteq Deliveries /\ Refused \notin Payloads
    /\ Payload \in [Deliveries -> Payloads \union {Refused}]
    /\ DOMAIN LogicalId = Payloads /\ DOMAIN Place = Payloads
    /\ ReceivedAt \in [Deliveries -> Nat]
    /\ NoRepository \notin Repositories /\ Unseen \notin Repositories \union {NoRepository}
    /\ NoProcessor \notin Processors
    /\ Limit \in Nat \ {0} /\ MaxFaults \in Nat

\* A name in one of the two directories, and the key of a row in codex_deliveries:
\* the delivery's id, or the file's name if the file cannot be read.
Entry == [directory : Directories, delivery : Deliveries, temp : BOOLEAN]
Key == [delivery : Deliveries, readable : BOOLEAN]
Input == [entry : Entry, key : Key, content : Payloads \union {Refused},
          repository : Repositories \union {NoRepository}]
ASSUME NoInput \notin Input

Dispositions == {"accepted", "duplicate", "conflict", "rejected"}

VARIABLES target, step,      \* each capture hook: where it writes, how far it is
          entries, disk,     \* the directories as seen, and as last synced
          disposition,       \* codex_deliveries, "none" without a row
          stored, received,  \* codex_observations: which, and their received_at
          repository,        \*   and their repository
          checkpoints,       \* ledger_checkpoints of kind processing
          incomplete,        \* gaps of code incomplete_delivery, one per name
          restarts,          \* number of gaps of code process_restart
          open,              \* runs without finished_at, by their processor
          lock,              \* process.lock
          pc, listing, todo, processed, cache, input, \* each processor's locals
          faults

hookVars   == <<target, step>>
fileVars   == <<entries, disk>>
ledgerVars == <<disposition, stored, received, repository>>
gapVars    == <<incomplete, restarts>>
runVars    == <<open, lock>>
localVars  == <<listing, todo, processed, cache, input>>
vars == <<hookVars, fileVars, ledgerVars, checkpoints, gapVars, runVars, pc, localVars, faults>>

Blank == [p \in Places |-> Unseen]

TypeOK ==
    /\ target \in [Deliveries -> Directories]
    /\ step \in [Deliveries -> {"start", "temp", "renamed",
                                "acknowledged", "reported", "unreported", "killed"}]
    /\ entries \subseteq Entry /\ disk \subseteq Entry
    /\ disposition \in [Key -> Dispositions \union {"none"}]
    /\ stored \subseteq Payloads /\ received \in [Payloads -> Nat]
    /\ repository \in [Payloads -> Repositories \union {NoRepository}]
    /\ checkpoints \subseteq [place : Places, repository : Repositories]
    /\ incomplete \subseteq Entry /\ restarts \in Nat
    /\ open \subseteq Processors /\ lock \in Processors \union {NoProcessor}
    /\ pc \in [Processors -> {"idle", "report", "interrupt", "insert", "list",
                              "next", "save", "remove"}]
    /\ listing \in [Processors -> Directories]
    /\ todo \in [Processors -> SUBSET Entry] /\ processed \in [Processors -> Nat]
    /\ cache \in [Processors -> [Places -> Repositories \union {NoRepository, Unseen}]]
    /\ input \in [Processors -> Input \union {NoInput}]
    /\ faults \in 0 .. MaxFaults

Init ==
    /\ target = [d \in Deliveries |-> "inbox"] 
    /\ step = [d \in Deliveries |-> IF d \in Queued THEN "acknowledged" ELSE "start"]
    /\ entries = [directory : {"inbox"}, delivery : Queued, temp : {FALSE}] /\ disk = entries
    /\ disposition = [k \in Key |-> "none"]
    /\ stored = {} /\ received = [p \in Payloads |-> 0]
    /\ repository = [p \in Payloads |-> NoRepository]
    /\ checkpoints = {} /\ incomplete = {} /\ restarts = 0
    /\ open = {} /\ lock = NoProcessor
    /\ pc = [w \in Processors |-> "idle"]
    /\ listing = [w \in Processors |-> "failures"]
    /\ todo = [w \in Processors |-> {}] /\ processed = [w \in Processors |-> 0]
    /\ cache = [w \in Processors |-> Blank] /\ input = [w \in Processors |-> NoInput]
    /\ faults = 0

Fault == faults < MaxFaults /\ faults' = faults + 1

-----------------------------------------------------------------------------
\* Capture and WriteDurable

Named(d, temp) == [directory |-> target[d], delivery |-> d, temp |-> temp]
In(directory) == {e \in Entry : e.directory = directory}

Advance(d, label) == step' = [step EXCEPT ![d] = label]
HookOnly == UNCHANGED <<ledgerVars, checkpoints, gapVars, runVars, pc, localVars>>

\* CreateTemp, Write, Sync, Close.
WriteTemp(d) ==
    /\ step[d] = "start"
    /\ entries' = entries \union {Named(d, TRUE)}
    /\ Advance(d, "temp")
    /\ UNCHANGED <<target, disk, faults>> /\ HookOnly

Rename(d) ==
    /\ step[d] = "temp"
    /\ entries' = (entries \ {Named(d, TRUE)}) \union {Named(d, FALSE)}
    /\ Advance(d, "renamed")
    /\ UNCHANGED <<target, disk, faults>> /\ HookOnly

Acknowledge(d) ==
    /\ step[d] = "renamed"
    /\ Advance(d, IF target[d] = "inbox" THEN "acknowledged" ELSE "reported")

SyncDirectory_Skipped(d) ==
    /\ Acknowledge(d)
    /\ UNCHANGED <<target, entries, disk, faults>> /\ HookOnly

\* The directory is synced with all its entries, and the hook returns.
SyncDirectory(d) ==
    /\ Acknowledge(d)
    /\ disk' = (disk \ In(target[d])) \union (entries \intersect In(target[d]))
    /\ UNCHANGED <<target, entries, faults>> /\ HookOnly

\* A file in the inbox cannot be written, or its directory not synced: the hook
\* writes a record without payload beside it, and then gives up.
WriteFails(d) ==
    /\ step[d] \in {"start", "temp", "renamed"} /\ Fault
    /\ entries' = entries \ {Named(d, TRUE)}
    /\ target' = [target EXCEPT ![d] = "failures"]
    /\ Advance(d, IF target[d] = "inbox" THEN "start" ELSE "unreported")
    /\ UNCHANGED disk /\ HookOnly

KillHook(d) ==
    /\ step[d] \in {"start", "temp", "renamed"} /\ Fault
    /\ Advance(d, "killed")
    /\ UNCHANGED <<target, fileVars>> /\ HookOnly

-----------------------------------------------------------------------------
\* ProcessInbox

Goto(w, label) == pc' = [pc EXCEPT ![w] = label]

\* The processor returns, with or without an error, or is killed: the lock is
\* released, and whatever it had read is gone.
Leave(w) ==
    /\ Goto(w, "idle")
    /\ lock' = IF lock = w THEN NoProcessor ELSE lock
    /\ listing' = [listing EXCEPT ![w] = "failures"]
    /\ todo' = [todo EXCEPT ![w] = {}] /\ processed' = [processed EXCEPT ![w] = 0]
    /\ cache' = [cache EXCEPT ![w] = Blank] /\ input' = [input EXCEPT ![w] = NoInput]

Begin(w) ==
    /\ pc[w] = "idle" /\ lock' = w
    /\ Goto(w, IF open # {} THEN "report" ELSE "insert")
    /\ UNCHANGED <<hookVars, fileVars, ledgerVars, checkpoints, gapVars, open, localVars, faults>>

StartPass_Unlocked(w) == Begin(w)

\* flock without waiting, and the first query of beginObservationRun.
StartPass(w) == lock = NoProcessor /\ Begin(w)

ReportRestart(w) ==
    /\ pc[w] = "report"
    /\ restarts' = restarts + 1
    /\ Goto(w, "interrupt")
    /\ UNCHANGED <<hookVars, fileVars, ledgerVars, checkpoints, incomplete, runVars,
                   localVars, faults>>

MarkInterrupted(w) ==
    /\ pc[w] = "interrupt"
    /\ open' = {}
    /\ Goto(w, "insert")
    /\ UNCHANGED <<hookVars, fileVars, ledgerVars, checkpoints, gapVars, lock, localVars, faults>>

InsertRun(w) ==
    /\ pc[w] = "insert"
    /\ open' = open \union {w}
    /\ Goto(w, "list")
    /\ UNCHANGED <<hookVars, fileVars, ledgerVars, checkpoints, gapVars, lock, localVars, faults>>

ReadDirectory(w) ==
    /\ pc[w] = "list"
    /\ todo' = [todo EXCEPT ![w] = entries \intersect In(listing[w])]
    /\ Goto(w, "next")
    /\ UNCHANGED <<hookVars, fileVars, ledgerVars, checkpoints, gapVars, runVars,
                   listing, processed, cache, input, faults>>

Exhausted(w) == pc[w] = "next" /\ (todo[w] = {} \/ processed[w] >= Limit)

\* A break that leaves both loops.
NextDirectory_Breaks(w) ==
    /\ Exhausted(w) /\ listing[w] = "failures"
    /\ open' = open \ {w}
    /\ Leave(w)
    /\ UNCHANGED <<hookVars, fileVars, ledgerVars, checkpoints, gapVars, faults>>

NextDirectory(w) ==
    /\ Exhausted(w) /\ listing[w] = "failures"
    /\ listing' = [listing EXCEPT ![w] = "inbox"]
    /\ Goto(w, "list")
    /\ UNCHANGED <<hookVars, fileVars, ledgerVars, checkpoints, gapVars, runVars,
                   todo, processed, cache, input, faults>>

FinishRun(w) ==
    /\ Exhausted(w) /\ listing[w] = "inbox"
    /\ open' = open \ {w}
    /\ Leave(w)
    /\ UNCHANGED <<hookVars, fileVars, ledgerVars, checkpoints, gapVars, faults>>

\* Names are random, so the directory's order is any order.
Chosen(w, e) == pc[w] = "next" /\ processed[w] < Limit /\ e \in todo[w]

\* A temporary file that is older than a minute, which a slow hook's may be.
SkipTemp(w) ==
    /\ \E e \in todo[w] :
         /\ Chosen(w, e) /\ e.temp
         /\ incomplete' \in {incomplete, incomplete \union ({e} \intersect entries)}
         /\ todo' = [todo EXCEPT ![w] = @ \ {e}]
    /\ UNCHANGED <<hookVars, fileVars, ledgerVars, checkpoints, restarts, runVars, pc,
                   listing, processed, cache, input, faults>>

\* ReadBounded and Normalize.
Content(e, readable) ==
    IF readable /\ e.directory = "inbox" THEN Payload[e.delivery] ELSE Refused

Take(w, e, readable, repo) ==
    /\ todo' = [todo EXCEPT ![w] = @ \ {e}]
    /\ input' = [input EXCEPT ![w] =
         [entry |-> e, key |-> [delivery |-> e.delivery, readable |-> readable],
          content |-> Content(e, readable), repository |-> repo]]
    /\ Goto(w, "save")
    /\ UNCHANGED <<hookVars, fileVars, ledgerVars, gapVars, runVars, listing, processed>>

\* An unreadable file is an invalid envelope, whatever the reason is.
ReadRefused(w) ==
    /\ \E e \in todo[w], readable \in BOOLEAN :
         /\ Chosen(w, e) /\ ~e.temp /\ Content(e, readable) = Refused
         /\ IF readable THEN UNCHANGED faults ELSE Fault
         /\ Take(w, e, readable, NoRepository)
    /\ UNCHANGED <<checkpoints, cache>>

\* The key of the cache is the session alone, which every place shares.
ReadKnownPlace_AnyPlace(w) ==
    /\ \E e \in todo[w], place \in Places :
         LET p == Content(e, TRUE) IN
         /\ Chosen(w, e) /\ ~e.temp /\ p # Refused
         /\ cache[w][place] # Unseen
         /\ Take(w, e, TRUE, cache[w][place])
    /\ UNCHANGED <<checkpoints, cache, faults>>

ReadKnownPlace(w) ==
    /\ \E e \in todo[w] :
         LET p == Content(e, TRUE) IN
         /\ Chosen(w, e) /\ ~e.temp /\ p # Refused
         /\ cache[w][Place[p]] # Unseen
         /\ Take(w, e, TRUE, cache[w][Place[p]])
    /\ UNCHANGED <<checkpoints, cache, faults>>

\* Git is asked once in a pass for each session and working directory.  Its
\* answer is stored before the observation that will refer to it.
ReadNewPlace(w) ==
    /\ \E e \in todo[w], repo \in Repositories \union {NoRepository} :
         LET p == Content(e, TRUE) IN
         /\ Chosen(w, e) /\ ~e.temp /\ p # Refused
         /\ cache[w][Place[p]] = Unseen
         /\ cache' = [cache EXCEPT ![w][Place[p]] = repo]
         /\ checkpoints' = checkpoints \union
              IF repo = NoRepository THEN {} ELSE {[place |-> Place[p], repository |-> repo]}
         /\ Take(w, e, TRUE, repo)
    /\ UNCHANGED faults

-----------------------------------------------------------------------------
\* saveDelivery, one transaction

Known(w) == disposition[input[w].key] # "none"

Saved(w, label) ==
    /\ disposition' = [disposition EXCEPT ![input[w].key] = label]
    /\ Goto(w, "remove")
    /\ UNCHANGED <<hookVars, fileVars, checkpoints, gapVars, runVars, localVars, faults>>

Replay(w) ==
    /\ pc[w] = "save" /\ Known(w)
    /\ Goto(w, "remove")
    /\ UNCHANGED <<hookVars, fileVars, ledgerVars, checkpoints, gapVars, runVars,
                   localVars, faults>>

\* The gap of a rejected delivery is stored in the same transaction as its row.
Reject(w) ==
    /\ pc[w] = "save" /\ ~Known(w) /\ input[w].content = Refused
    /\ Saved(w, "rejected")
    /\ UNCHANGED <<stored, received, repository>>

Insert(w) ==
    /\ pc[w] = "save" /\ ~Known(w)
    /\ LET p == input[w].content IN
       /\ p # Refused /\ p \notin stored
       /\ stored' = stored \union {p}
       /\ received' = [received EXCEPT ![p] = ReceivedAt[input[w].key.delivery]]
       /\ repository' = [repository EXCEPT ![p] = input[w].repository]
       /\ Saved(w, IF \E q \in stored : LogicalId[q] = LogicalId[p] THEN "conflict"
                                                                     ELSE "accepted")

Merge_KeepsFirst(w) ==
    /\ pc[w] = "save" /\ ~Known(w) /\ input[w].content \in stored
    /\ Saved(w, "duplicate")
    /\ UNCHANGED <<stored, received, repository>>

Merge_Replayed(w) ==
    /\ pc[w] = "save" /\ input[w].content \in stored
    /\ Saved(w, "duplicate")
    /\ UNCHANGED <<stored, received, repository>>

\* The earlier time is kept, and the first repository.
Merge(w) ==
    /\ pc[w] = "save" /\ ~Known(w)
    /\ LET p == input[w].content
           at == ReceivedAt[input[w].key.delivery] IN
       /\ p \in stored
       /\ received' = [received EXCEPT ![p] = IF at < @ THEN at ELSE @]
    /\ Saved(w, "duplicate")
    /\ UNCHANGED <<stored, repository>>

RemoveInput(w) ==
    /\ pc[w] = "remove"
    /\ entries' = entries \ {input[w].entry}
    /\ processed' = [processed EXCEPT ![w] = @ + 1]
    /\ input' = [input EXCEPT ![w] = NoInput]
    /\ Goto(w, "next")
    /\ UNCHANGED <<hookVars, disk, ledgerVars, checkpoints, gapVars, runVars,
                   listing, todo, cache, faults>>

\* Any error, and any kill: the run is left without finished_at.
StopPass(w) ==
    /\ pc[w] # "idle" /\ Fault
    /\ Leave(w)
    /\ UNCHANGED <<hookVars, fileVars, ledgerVars, checkpoints, gapVars, open>>

-----------------------------------------------------------------------------
\* Every process ends.  Changes of the directories since they were synced may
\* or may not have reached the disk.
PowerLoss ==
    /\ Fault
    /\ \E kept \in SUBSET (entries \union disk) :
         /\ entries \intersect disk \subseteq kept
         /\ entries' = kept /\ disk' = kept
    /\ step' = [d \in Deliveries |->
         IF step[d] \in {"temp", "renamed"} \/ (step[d] = "start" /\ target[d] = "failures")
         THEN "killed" ELSE step[d]]
    /\ pc' = [w \in Processors |-> "idle"] /\ lock' = NoProcessor
    /\ listing' = [w \in Processors |-> "failures"]
    /\ todo' = [w \in Processors |-> {}] /\ processed' = [w \in Processors |-> 0]
    /\ cache' = [w \in Processors |-> Blank] /\ input' = [w \in Processors |-> NoInput]
    /\ UNCHANGED <<target, ledgerVars, checkpoints, gapVars, open>>

Hook(d) == WriteTemp(d) \/ Rename(d) \/ SyncDirectory(d)

Pass(w) ==
    \/ StartPass(w) \/ ReportRestart(w) \/ MarkInterrupted(w) \/ InsertRun(w)
    \/ ReadDirectory(w) \/ NextDirectory(w) \/ FinishRun(w) \/ SkipTemp(w)
    \/ ReadRefused(w) \/ ReadKnownPlace(w) \/ ReadNewPlace(w)
    \/ Replay(w) \/ Reject(w) \/ Insert(w) \/ Merge(w) \/ RemoveInput(w)

Next ==
    \/ \E d \in Deliveries : Hook(d) \/ WriteFails(d) \/ KillHook(d)
    \/ \E w \in Processors : Pass(w) \/ StopPass(w)
    \/ PowerLoss

Spec == Init /\ [][Next]_vars

\* `secuarden ledger process` is run again and again, and a pass that runs goes on.
FairSpec == Spec /\ WF_vars(\E w \in Processors : Pass(w))

-----------------------------------------------------------------------------
\* Properties

\* The ledger knows what became of delivery d: its observation is stored, or its
\* rejection and with it the gap.
Accounted(d) ==
    \E k \in Key :
        /\ k.delivery = d /\ disposition[k] # "none"
        /\ disposition[k] # "rejected" => Payload[d] \in stored

Kept(d, directory) ==
    [directory |-> directory, delivery |-> d, temp |-> FALSE] \in entries \intersect disk

\* What a hook has acknowledged, or reported as a failure, is not lost by any
\* later failure, power loss included: its file stays until the ledger accounts
\* for it.
NothingVanishes ==
    \A d \in Deliveries :
        /\ step[d] = "acknowledged" => Kept(d, "inbox") \/ Accounted(d)
        /\ step[d] = "reported" => Kept(d, "failures") \/ Accounted(d)

\* The rows that are not rejected and belong to one event or one observation.
RowsOf(S, labels) ==
    {k \in Key : k.readable /\ disposition[k] \in labels /\ Payload[k.delivery] \in S}

OneMember(S) == \E k \in S : S = {k}
SameEvent(p) == {q \in Payloads : LogicalId[q] = LogicalId[p]}

\* The dispositions agree with the observations, although files are replayed after
\* a crash: each observation was inserted by exactly one delivery, and of those of
\* one event exactly one was accepted and the others conflict with it.
InsertedOnce ==
    \A p \in Payloads :
        IF p \in stored
        THEN /\ OneMember(RowsOf({p}, {"accepted", "conflict"}))
             /\ OneMember(RowsOf(SameEvent(p), {"accepted"}))
        ELSE RowsOf({p}, {"accepted", "conflict", "duplicate"}) = {}

\* A row of codex_deliveries may stand for an observation if its file could be read.
Reported == [k \in Key |-> IF k.readable THEN Payload[k.delivery] ELSE Refused]

Ledger == INSTANCE DeliveryLedger WITH
    Rows <- Key, Report <- Reported, Event <- LogicalId, rows <- disposition

\* Files, batches, processors, kills and replays are invisible in the dispositions:
\* each delivery is judged in one step by what was judged before it, and for ever.
ImplementsLedger == Ledger!Spec

\* An observation has the earliest receipt time among its deliveries applied so
\* far, in whatever order and in whatever batches they were processed.
ReceiptTimeIsFirst ==
    \A p \in stored :
        LET times == {ReceivedAt[k.delivery] :
                        k \in RowsOf({p}, {"accepted", "conflict", "duplicate"})} IN
        received[p] \in times /\ \A at \in times : received[p] <= at

\* A repository that an observation names was seen by Git, for its own session
\* and working directory, and the checkpoint that says so is stored.
RepositoryObserved ==
    \A p \in stored : repository[p] # NoRepository =>
        [place |-> Place[p], repository |-> repository[p]] \in checkpoints

\* While a processor works on files, it holds the lock and its run is the only one
\* without an end: every earlier interruption has been reported.
OnlyRunOpen ==
    \A w \in Processors :
        pc[w] \notin {"idle", "report", "interrupt", "insert"} => lock = w /\ open = {w}

\* A process_restart gap is never reported without an interruption.
RestartsWereInterruptions == restarts <= faults

\* What the runs say happened is what happened, although the lock, the rows of the
\* runs and the gaps are written by separate steps that a kill may come between.
RunsAreTrue == OnlyRunOpen /\ RestartsWereInterruptions

\* What was acknowledged is applied in the end.
EventuallyApplied ==
    \A d \in Deliveries : step[d] = "acknowledged" ~> Accounted(d)
=================================================================================
