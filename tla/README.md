# A specification of secuarden-cli

secuarden-cli records what AI coding agents do.  An agent (Claude Code, Codex)
starts one short-lived `secuarden hook …` process per lifecycle event; each
process appends evidence to a SQLite database, and other commands upload that
evidence, verify it, or bind it to a Git change.  This directory holds TLA+
modules translated from the Go source, TLC configurations that check them on
small instances, and TLAPS proofs.  Paths below are relative to the repository.

## Inventory

| component | state | operations | hard behaviour |
|---|---|---|---|
| **capture hook process** (`internal/capture`) | its own locals only | ensure session, take checkpoint, write event, record failure, end session | many processes at once; every statement a point of interleaving; agent timeouts kill it |
| **event store** (`internal/storage/database.go`) | `sessions`, `events`, `capture_failures` | `EnsureSession`, `WriteEvent`, `RecordCaptureFailure`, `EndSession`, `ReconcileSessionCompleteness` | sequence and hash-chain allocation, rollback, busy timeouts, a reconciliation that is not a transaction |
| **repository checkpoint** (`internal/repository/checkpoint.go`, `internal/capture/checkpoint.go`) | stored with each event | scan, compare with the predecessor, attribute | compares with an event read before the sequence is allocated; attributions are inherited |
| **session sync** (`cmd/sync.go`, `internal/upload`) | `session_sync_state` | list pending, read envelope, upload, record outcome | lost responses, concurrent uploaders, a failing head of the queue |
| **change-ledger inbox** (`internal/changeledger/process.go`, `internal/observationcapture`) | inbox and failure directories, delivery and observation tables | capture, process, merge, gap | crash between commit and unlink, restart gaps, order of files |
| **coverage** (`observation_coverage.go`, `receipt_snapshot.go`) | links | correlate, coverage, snapshot | recomputed from tables that others write |
| **change receipts** (`cmd/receipt_workflow.go`, `internal/changereceipt`) | receipt and outcome rows | create, sign, upload, pre-push | snapshot against a running processor, retries, unconditional outcome |
| **pre-push hook configuration** (`internal/changereceipt/hooks.go`) | hook file and backup | install, restore | crash between two renames |
| **live verification** (`cmd/verify_live.go`, `internal/live`) | pending and verified states | arm, evaluate, record | a check separated from its use by minutes |
| **scope and configuration** (`internal/config`, `internal/scope`) | `config.json` | load, save, evaluate | load-modify-save without a lock |
| **agent hook installation** (`internal/agent`, `cmd/init.go`, `cmd/hooks.go`, `cmd/uninstall.go`) | the agents' settings, hooks and `config.toml`, their backups | detect, enable, install, remove, restore, merge | files of the user's, written in place, without a lock |
| **adapters and event parsing** (`internal/events`, `internal/adapters`) | none | what a report means: action, outcome, files, reasons | the partial failure of a patch that cannot be parsed |
| **reports and views** (`activity.go`, `dashboard.go`, `cmd/report.go`, `bom.go`, `gate.go`, `verify.go`, `internal/webui`) | none of their own | overview, lists, session, report, export, gate, verify | several statements in no transaction; one figure computed twice |
| privacy, identity, risk, rendering | none | regular expressions, lookups, scores, text | sequential |

Interaction: hook processes share nothing but the database (and, for Codex
observations, the inbox directory).  Sync reads what hooks write while they
write it.  The inbox processor runs under a file lock against producers that do
not take it.  Receipt creation reads the ledger while the processor may run.

What makes each part correct: the event store keeps each session a contiguous,
chained, exactly counted log, and its completeness verdict follows the
evidence; a checkpoint associates a file with the agent only on evidence of one
enclosing operation; sync neither loses nor forgets events; the inbox applies
each delivery once and loses none; a receipt's evidence and its pending list
together account for every delivery; hook configuration never loses the user's
hook; live verification names the configuration that produced its evidence;
installing our handlers never costs the user one of theirs; a figure and the
list behind it agree, and a verdict that the trail is sound is about rows as
they were stored.

## Modules

**`Checkpoint`** — `addCheckpoint` as pure operators over data.  A *scan* is
what git and the digest loop of `CaptureCheckpoint` reported: a status, a root,
a HEAD, and for each listed file its read status, content digest, and Git
bookkeeping as one opaque value (`Metas`; `DirtyMetas` are those with a staged,
unstaged or untracked flag).  `BuildCheckpoint` is the checkpoint stored with
the event: its status after every `reason(…)`, the absence entries, and the
attribution of each file.  `Downgrade` is what `WriteEvent` does to a
checkpoint that was overtaken.  `before_sha256` and `pre_existing` are carried
along by the code without influencing any decision, and are left out.

**`CaptureStore`** — the state machine.  `pc` is the place of each hook
process between its database statements; `lock` is SQLite's write lock;
`events`, `sessions`, `ended`, `count`, `failures`, `verdict` are the tables
(`verdict[s]` is `completeness_reasons`; the code keeps `completeness_state`
`partial` exactly when it is not empty).  The other variables are the
process's locals: what `CheckpointContext` returned, the event being written,
what the reconciliation has read.

| action | code |
|---|---|
| `EnsureSession`, `EnsureFails` | `EnsureSession`; an error is fatal except on `session_end` (`handler.go:254`) |
| `SkipCheckpoint`, `ReadBaseline`, `ReadPrevious`, `HistoryFails`, `TakeCheckpoint` | `addCheckpoint`: two reads outside any transaction, then the scan |
| `BeginImmediate`, `BeginBusy`, `Allocate`, `CommitEvent`, `RollBack` | `WriteEvent` |
| `RecordCaptureFailure`, `RecordFailureFails` | the second transaction after a failed `WriteEvent` |
| `EndSession`, `ReconcileEvents`, `ReconcileFailures`, `ReconcileWrite`, `EndFails` | `EndSession` and `ReconcileSessionCompleteness`: two writes and two reads, in no transaction |
| `Kill` | the agent kills the hook, or it crashes; SQLite rolls back |

A single SQL statement, and `RecordCaptureFailure`'s transaction (its first
statement takes the write lock and nothing outside it is read), is one atomic
step that needs the write lock free.  `WriteEvent` is three steps, because
other processes may read, and time out, while it holds the lock.  Readers never
wait: the database is in WAL mode.  Waiting up to the 5 s busy timeout is the
choice between the step and its `…Busy` or `…Fails` twin.

**`EventLog`** — the abstract promise: one append-only log per session; a
capture is kept once or lost, for ever.  `CaptureStore` implements it: the log of
a session is its rows by sequence, a capture is kept when its row exists and
lost when its process has given up.

**`SessionSync`** — delivery to the SaaS.  `stored` is the number of events of
each session: they are 1, 2, 3, … and never change, so the number stands for all
of them.  `flaw` is the first event that made the session row partial, `synced` is
`last_synced_event_count`.  `CaptureStore` implements the captures of this module
(`FeedsSync`): a session's rows are counted by `stored`, the first partial one's
sequence is `flaw`, and the uploaders, which only read the store, are left out.  A worker is a
terminal in which `secuarden sync` runs (it may run any number of times) or a
`session_end` hook (it uploads once); `listed`, `todo`, `job`, `row`, `count` are
its locals.  The server is external: `received` are the envelopes it has
accepted, `late` the requests whose client has stopped waiting.

| action | code |
|---|---|
| `CaptureEvent` | what `CaptureStore` describes step by step |
| `SyncPending`, `SyncOne`, `Complete` | `runSync`: the pending list (one query) or `--session`, and the end of a pass |
| `StartHook` | `syncOnSessionEnd` |
| `ReadRow`, `ReadEvents` | `ReadSessionEnvelope`: two queries in no transaction |
| `NotIntegrated`, `Post` | `SyncSession` up to the request; no integration is an error |
| `Accept`, `ArriveLate` | the server, in time or after the client gave up |
| `UploadFails`, `Abort` | any error, timeout or kill; the command ends its pass, the hook ends |
| `RecordSyncSuccess` | the upsert of `last_synced_event_count` |

`NotIntegrated` and `UploadFails` include `RecordSyncFailure`: it writes a row
with count 0, which the list reads like no row, or two columns for diagnostics.

**`ObservationInbox`** — from a Codex hook to the observation ledger.  A delivery
is one call of `Capture`, its payload a constant (`Payload`, with the event it
reports, its session and directory, its receipt time), or `Refused` when
`Normalize` rejects it.  `step` and `target` are the place of each hook;
`entries` are the names in the inbox and the failure directory, `disk` those that
a loss of power would leave for certain.  `disposition` is `codex_deliveries`,
whose key is the delivery's id or, for a file that cannot be read, its name;
`stored`, `received`, `repository` are `codex_observations`; `checkpoints`,
`incomplete`, `restarts`, `open` are the checkpoints, the two kinds of gaps and
the unfinished runs; the other variables are the processors' locals.

| action | code |
|---|---|
| `WriteTemp`, `Rename`, `SyncDirectory` | `WriteDurable`, for the payload or for the failure record |
| `WriteFails`, `KillHook` | an error in it, and the fallback of `Capture`; a kill, which leaves the temporary file |
| `StartPass`, `ReportRestart`, `MarkInterrupted`, `InsertRun` | `flock`, and `beginObservationRun`'s four statements |
| `ReadDirectory`, `NextDirectory`, `FinishRun` | the loop over both directories, the limit, `finishObservationRun` |
| `SkipTemp` | a temporary file, with a gap if it is older than a minute |
| `ReadRefused`, `ReadKnownPlace`, `ReadNewPlace` | reading and normalising a file, and the checkpoint of its place, cached or new |
| `Replay`, `Reject`, `Insert`, `Merge` | `saveDelivery`'s transaction, one action per outcome |
| `RemoveInput` | `os.Remove` |
| `StopPass` | any error, and any kill of the processor |
| `PowerLoss` | every process ends; a change of a directory that is not synced yet is kept or not, each name for itself |

A file's data is synced before it is renamed, and SQLite's commits are taken to
be synced; so only directory entries can be lost or come back.

**`DeliveryLedger`** — the abstract promise of `codex_deliveries`, without files and
processors: a delivery is judged once, by the ones judged before it, and for ever.
`ObservationInbox` implements it (`ImplementsLedger`): `Reject` is a refusal, `Insert`
and `Merge` judge an observation, and every other step leaves the rows alone.

**`Coverage`** — what `Coverage` computes from a ledger (observations, checkpoints,
scopes, deliveries, stored gaps), as operators: which observations are eligible
for a change, the confidence of each link, the reasons, the counts.  The code
walks over the sorted observations once and carries `latest`, `seq`, `pre`,
`post` along; here each of these is a set of the observations received before.

**`Receipt`** — `createReceipt` step by step, for any number of calls, while the
ledger grows.  `ObservationInbox` is reduced to what matters here: a delivery is a
file, then a file and a row, then a row, and the ledger is a function of the set
of recorded deliveries (`Merged`), which `ImplementsLedger`
(with `InsertedOnce`) and `ReceiptTimeIsFirst` of that module justify.

| action | code |
|---|---|
| `Deliver`, `Record`, `Remove` | `Capture`, `saveDelivery` and `os.Remove`, as above |
| `TakeCheckpoint`, `CorrelateCommand` | `ledger checkpoint` and `ledger correlate` |
| `Build`, `Correlate` | the revision and its row; one upsert per session that was asked for |
| `ReadCoverage`, `ReadRows` | the transaction of `ReceiptSnapshot`; its snapshot is that of its first query |
| `InspectInbox` | the count of the files, outside the transaction; the configuration and either directory may be unreadable, which is a reason (`Unavailable`) and stops nothing |
| `PrepareSigningKey`, `SaveReceipt`, `CreateFails` | registration of a new key, `NewArtifact` with `SaveSignedReceipt`, any error or kill |

**`ReceiptUpload`** — what becomes of receipts.  A command is a push of some refs,
a `receipt create` (a push of one ref), or a terminal in which `receipt upload`
runs any number of times; the creation of a receipt is one step.  `upload` and
`acknowledged` are columns of its row, `outcome` the row that `status` shows,
`accepted` and `late` are the server's side.

| action | code |
|---|---|
| `Start`, `SkipRef`, `CreateReceipt`, `CreationFails`, `ReportGenerated` | the loop of `capturePush`; rows of outcomes are best effort (`lost`) |
| `BeginUploads`, `BeginUpload`, `Finish`, `Retry` | the uploads of a push, one after the other in 45 s, and the command |
| `Acknowledged`, `Refused`, `Unanswered`, `OutOfAttempts`, `OutOfTime` | `Upload`: how an attempt ends, and how all do |
| `Settle`, `SettleFails` | `ReceiptUploadOutcome`, which overwrites the row |
| `Kill`, `ArriveLate` | a kill; a request whose client stopped waiting reaches the server, or does not |

**`Setup`** — `secuarden init`.  `config` is the one configuration file, with mode
and key of each repository, or `Torn`; `hook` and `backup` are the files
`pre-push` and `pre-push.secuarden-original` of each repository; `cfg` and `raw` are
what an init has read.  Five history variables, which the code does not have,
say which promises can be made: the user's hooks, who was given a key, where
inits overlapped or were killed.

| action | code |
|---|---|
| `Load` | `config.Load`, `ConfigureIntegration`, the choice of the mode |
| `ReadHook`, `CheckBackup`, `MoveAside`, `Install`, `InstallFails` | `ConfigureHook` for automatic receipts |
| `StatBackup`, `RestoreHook`, `RemoveHook` | `ConfigureHook` for explicit receipts |
| `GiveUp` | a backup that is in the way, a file that has gone |
| `Truncate`, `WriteConfig` | `config.Save`, which writes in place |
| `Kill` | a kill, or an error of any step that is not rolled back |
| `UserInstalls` | the user writes a hook |

**`LiveVerification`** — `secuarden verify-live`.  `settings`, `executable`,
`runtime`, `policy` are the user's machine; `captured` is `captured_at` of each
event and `rows` the events table, an event's position its rowid; `pending` and
`verified` are the two rows of the metadata table per agent and repository.  The
rest are a verifier's locals.  `under`, `former` and `reinstated` are history: the
configuration in force when an event was captured, and whether a value that
was replaced has come back.

| action | code |
|---|---|
| `Begin`, `Validate`, `ReadFiles`, `ReadCommands` | `liveConfiguration`: the scope, then the files twice, then the executables; `Validate` and `ReadFiles` also for the second reading |
| `LiveWatermark`, `Arm` | without `--session`: `MAX(rowid)`, then `Started` and the pending row |
| `ReadPending`, `SetDeadline` | with `--session`: the comparison with what was armed |
| `CheckWindow`, `QueryOld`, `QueryFailures`, `Evaluate` | one round of the loop: the 15 minutes, the three queries of `LiveEvidence`, `live.Evaluate` |
| `Confirm`, `WriteVerified` | the second fingerprint, and the row, which is written later |
| `Stop`, `Wait`, `Wake`, `Cancel` | the deadline, the timer of 500 ms, Ctrl-C |
| `Capture`, `Store`, `Reject`, `Lose` | a hook: the scope and `captured_at`; the commit, later; a failure that is recorded; one that is not |
| `EditSettings`, `ReplaceExecutable`, `UpgradeRuntime`, `ChangeScope`, `Lapse` | the user and the clock |

`Label` is `lastLiveLabel`, what `status` says.

**`AgentHooks`** — the commands that edit the agents' own files.  `file` and
`backup` are Claude Code's settings and Codex's `hooks.json`, `toml` is
`config.toml` as the sequence of its lines.  A matcher group is the sequence of
its handlers, since ownership is decided for each handler and the group goes
when none is left.  `unrelated`, `rest`, `expected`, `excused` and `refused` are
history: what should be kept, what should be installed, and which files nothing
is promised for.  Only the user and `MergeHooks`, which adds the observer, change
`unrelated`: a restore has to put back what was there.

| action | code |
|---|---|
| `StartInit`, `Select`, `Decide` | `runInit`: detection, `--agent`, the flag that enables Codex's hooks, the refusals |
| `ReadConfig`, `TruncateConfig`, `FillConfig` | `EnableCodexHooks` with `setCodexFeature` |
| `StartBoth`, `Look` | `hooks refresh` and `uninstall`: Claude Code first |
| `ReadSettings`, `Backup`, `Truncate`, `Fill` | `InstallHooks`, `InstallCodexHooks`, `RemoveHooks`, `RemoveCodexHooks`; the backup's name is the second |
| `Purge`, `StartRestore` | `uninstall --purge` and `--restore-backup`, which takes the last name |
| `StartMerge`, `Merge` | `ledger capture hooks`, which replaces the file instead of writing it |
| `Kill` | a kill between any two steps, or an error; a backup that is being written may be torn, also one that was there |
| `UserAdds`, `UserBreaks`, `UserRepairs`, `UserDisables`, `Tick` | the user's editor, Codex's record of a disabled hook, the clock |

**`Evidence`** — functions only.  First what the capture hook makes of a report:
action, result, permission, outcome, the files of a patch, the reasons for
`partial` (`Columns`).  Then the chain: `Digest` is the tuple of the columns that a
hash format covers, `RowFindings` what `verifyIntegrity` says of a row.  Then the
figures, which the code computes twice: in Go over the events of a page
(`ChangesOf`, `Errors`, `FindingKinds`) and in SQL (`ConfirmedChange`, `FailureRow`,
`RecentFiles`, `Warning`).  Last `Provenance` and `risk.Assess`.

**`ActivityViews`** — the readers, on top of `Evidence`.  `log` and `sessions` are the
tables, `view` is the command that runs or the page that is open.  `written` is
history: the rows as they were stored.

| action | code |
|---|---|
| `Ensure`, `Identify`, `Capture` | a hook, in three steps here: `CaptureStore` has the rest |
| `NewDay`, `Damage` | midnight; a row changed or lost by anything but this program |
| `StartOverview`, `ReadRecent` | `GetStatusSummary`: the events of the day, then the sessions |
| `Drill`, `Investigate` | the list behind a figure, which the page asks for; a session in full: `/api/sessions/{id}` and `secuarden session` (the page itself opens one by `/api/events?session=`) |
| `StartReport`, `ReadTotals`, `ReadGroup` | `report`: the groups, the totals, one query per repository |
| `StartExport`, `StartGate`, `StartVerify` | the beginnings of `bom`, `gate` and `verify` |
| `VerifyRows`, `VerifySessions`, `ListRecords` | `verifyIntegrity`'s two queries, and the list of the gate |

**`MCCapture`**, **`MCSync`**, **`MCInbox`**, **`MCReceipt`**,
**`MCReceiptUpload`**, **`MCSetup`**, **`MCLive`**, **`MCHooks`**, **`MCViews`** — the
instances.
**`CaptureStoreProofs`**, **`SessionSyncProofs`**,
**`ObservationInboxProofs`**, **`ReceiptProofs`** (of `Receipt` and
`ReceiptUpload`), **`SetupProofs`**, **`LiveVerificationProofs`**,
**`ActivityViewsProofs`**, **`AgentHooksProofs`** — the theorems.

Operators named `Name_Variant` are mutated forms of `Name`, each a plausible
bug; a property is only kept if some mutated form violates it.

## Runs

| run | instance | question |
|---|---|---|
| `capture_log` | session 1: start, a pre/post pair, end; session 2: one prompt event; post may fail, pre and end may be killed; one clean scan | the log, the counts, the verdict, the lock, the abstract log, the captures that `SessionSync` counts |
| `capture_attribution` | start, a pre/post pair and an unrelated pre hook that may fall anywhere; post may fail; seven scans: unmodified, edited, committed, deleted, no longer listed, changed while read, no repository | attribution |
| `capture_end_race` | one session, the post hook may fail while session_end runs | a violation, see below |
| `sync_delivery` | three sessions, one of which grows while it is uploaded, may store partial events and has a session_end hook; the middle one has no integration, and may be older than one that waits; a pass lists two; one command, one failure | the count, what success means, what an envelope contains, and that a session with an integration is delivered unless an older one without keeps it waiting |
| `inbox_ledger` | three deliveries, of which two are queued and one is being written: the same input twice, the later one queued in either order, and one that contradicts it; two processors, a limit of 2; one failure of any kind | what is acknowledged stays and is applied in the end, the abstract ledger, which a replay cannot change, receipt times, repositories, runs and gaps |
| `receipt_evidence` | one session and one receipt; four deliveries, three of them queued: an input twice, without a time of its own, and two that contradict each other, with a number missing between; a start checkpoint taken before, two end checkpoints; two windows | what a receipt contains and what it may not leave unreported; at every step of the ledger, what new evidence may do to earlier attributions |
| `receipt_upload` | a push of two branches with a tag between them, and a terminal for retries; two attempts; three failures | the outcome of each ref, the state of each receipt |
| `setup_files` | two repositories, the first with a hook of the user, who may write another; an init for automatic receipts with a key, one for explicit receipts without, one of the other repository without flags, each as often as it likes; two failures | the hook, the mode and the key |
| `live_evidence` | one session with a start, a request and a result, whose hook may fail; a command that arms and one that evaluates; two changes to settings, executable, runtime or scope | what a recorded verification rests on, and that a stored round trip is found |
| `hook_files` | both agents; five commands, two or three of them at a time: an init, a refresh by an older binary, an uninstall with its purge, a restore, the observer's; one kill, one edit by the user; the files absent, or shared with handlers of others | the user's handlers, ours, the lines of `config.toml` |
| `init_enable` | one init for Codex alone whose hooks are disabled | a violation, see below |
| `activity_views` | a Claude Code session and a Codex session, an earlier version's row in three formats or none; two events out of five reports; one midnight, one damage; pages of two rows | figures against lists, a report against its parts, verdicts against the rows |

The agent's own order in the capture runs is an input (`Order`): it waits for session_start, and
for a pre hook before it runs the tool; nothing orders different tool calls,
or session_end with a post hook that still runs.  Why these bounds are enough:
a conflict over a sequence, a chain link or the verdict needs two processes of
one session inside one window, and a third to observe; the second session
separates "latest event" from "latest event of this session".  An attribution
needs a pre/post pair, one event before it as the baseline and one that
interferes or inherits.  One file suffices because files do not influence each
other; two digests and two commits suffice because the code only compares them
for equality.  The five hooks bound every counter, so no other bound is needed.
In `MCSync`, `MaxEvents` bounds the events of a session and `MaxFaults` the
failures.  A conflict over the count needs two uploads of one session and an
event between their reads; a list needs a session it leaves out (`Limit` is 2)
and one that stops it; one failure may hit any step of any upload, and its
request may arrive at any later time.  Sessions are numbered in the order
of the query, `started_at, id`.

In `MCInbox` a merge needs two deliveries of one input and a conflict a third;
the names of the files are random, so the processor takes them in any order, and
a limit of 2 splits them over passes.  Two deliveries are queued when the model
starts, as hooks leave them; the third hook's own steps interleave with
everything.  A replay needs one failure, which is `MaxFaults`; a repeated restart
gap, or a loss of power after a failed hook, would need two: the theorems cover
every number for the safety properties.

In `MCReceipt` the creation of one receipt meets a processor with files before,
during and after its snapshot.  `OnlyItsOwnEventWeakens` compares the ledger before and after each
step of the processor and of the checkpoint command, on all sessions in scope;
`NoSilentGap` looks at every receipt that is saved, in any order of the deliveries.
In `MCReceiptUpload` a push with a failing, a skipped and a good ref
needs three refs; an upload that overtakes another needs one retry, two
attempts separate the first from the last one, and `MaxFaults` of 3 leaves one
failure after both attempts went unanswered.  In `MCSetup` the first two inits
change the same repository in opposite directions and the third rewrites the
file for a repository that it does not concern; two failures allow a kill and a
failing repair.

In `MCLive` a round trip needs the three events of one call, and `MaxStamp`
leaves one poll before and one after the last of them; a window of 5 ends before
or after the third event.  Two edits change the configuration between arming and
capture, between two files of one reading, or between the evidence and the
second reading, and may be undone, which the two properties about fingerprints
exclude (`reinstated`).  In `MCHooks` one group with a handler of the user's and one
of ours, and one with a handler of another tool, are the two ways to share a
file; three commands let one command read what another has truncated and a
third write over both; two seconds tell backups of one second from others.  In
`MCViews` two new rows and one of an earlier version make a chain of three with a
format that changes in it; five reports are an edit, a command that failed, a
patch that touches a sensitive path, one that cannot be parsed, and a denied
request; a timestamp may be one unit late, so that the order of time is not
that of capture.

Deadlock is checked in the capture, sync and inbox runs: a state in which no
process can move and not all have exited is an error.  In the receipt, setup,
live, hook and view runs the system may stop: every command has returned, and the
bounds are used up.

Fairness: only `WF(InTransaction)`.  A process inside `WriteEvent`'s transaction
waits for nobody, so unless it is killed it runs on; nothing obliges the agent
to start a hook, nor a hook outside a transaction to make progress.  In
`SessionSync`: the user runs a plain `secuarden sync` again and again
(`SF(SyncPending)`, strong because `sync --session` and captures may come between),
and a process that runs is answered or fails (`WF(Step)`); failures are bounded.
A hook has no fairness: nothing runs it again.  In `ObservationInbox`:
`secuarden ledger process` is run again and again and a pass that runs goes on
(`WF`, over all processors), while failures are bounded.  In `ReceiptUpload`: an
upload that runs goes on, since every request is answered or given up after five
seconds (`WF(Upload)`), and the user retries each receipt that is not uploaded
(`SF`, since retries of others come between); a push and the creation of a receipt
have no fairness.  In `LiveVerification`: a verifier that runs goes on and its timer
fires (`WF(Step)` for each); no hook has to store its event, and nobody has to
press Ctrl-C.  `AgentHooks` and `ActivityViews` have safety properties only.

### What the violations show

`FailureMakesPartial`: `ReconcileSessionCompleteness` reads the events and the
failure count and then sets the verdict unconditionally (`database.go:294`).  A
`RecordCaptureFailure` that commits in between is overwritten, and the session
is `complete` with a non-zero failure count; the contract
(`docs/contracts/stage1-evidence-contract.md`) says capture failures make it
partial.  The positive form, which holds, is `VerdictCurrent`: the verdict is
right until a reconciliation, and right after one that read everything.

`RefusedOnlyWithoutAgent`: `runInit` decides which agents are installed
(`init.go:138-139`) before `--enable-codex-hooks` enables Codex's hooks.  With
`--agent codex` and hooks that were disabled it edits `config.toml`, finds the
hooks enabled, and still answers that no supported agent was detected
(`init.go:158`).  A second init works.  The command is the one that the guidance
(`init.go:289`) and `docs/setup.md:36` tell the user to run.

### Known behaviour

These executions are possible, were found with the same models, and contradict
no property above; each says where a property ends.

A session_end hook that dies after `ended_at` is set and before invocations are
paired (`database.go:201`) leaves a session that is ended and `complete`, with a
pre event that has no post event.  `VerdictCurrent` speaks of reconciliations
that have run.

`RecordSyncSuccess` takes whatever count comes last.  A hook that read one event
and a command that read two can finish in either order, and the slower upload
of the older envelope moves the count back: a session that was delivered
completely is pending again.  Nothing is lost, which is `SyncedIsDelivered`.

The first error ends a pass of `secuarden sync`, and the list starts with the
oldest session: an older session whose repository has no integration keeps
every younger one from being uploaded, however often the command is run.
`IntegratedGetDelivered` promises delivery except in this case (`Blocked`), which
`sync_delivery` contains: the youngest session has an integration, the one before
it has none.  A session whose uploads fail for ever for another reason starves the
younger ones in the same way; the run bounds failures, and so has none.

An init for automatic receipts moves the user's pre-push hook aside and installs
its own some calls later.  If it is killed in between, or cannot create its
temporary file (`hooks.go:85-88` returns without the rollback of line 105), there
is no hook at all, and Git pushes what the user's hook would have rejected.
Nothing is destroyed (`HookKept`), and another init for automatic receipts
repairs it (`SetupLeavesHook`).  An init for explicit receipts does not: it finds
no managed hook and returns at once.

An envelope may contain a partial
event under a row that still said complete (the row is read first), and a
verdict that changes after the upload is not sent again, since pending is
decided by the number of events.  `PartialIsExplained` is the direction that
holds.  In `SessionSync` only partial events make a row partial: failures of
capture and reconciliation leave nothing among the events to compare with.

In the inbox, likewise: when the directory sync fails after the rename, payload
and failure record carry the same id, and the one that is processed second is
dropped as replayed, so the payload may go; the hook has reported a failure,
which is kept (`NothingVanishes`).  A file that cannot be read for whatever
reason becomes a rejected delivery with a gap, and is removed.  A duplicate
lowers the receipt time, but the other fields stay those of the delivery that
was processed first, including the gaps that were derived from its own receipt
time.  A crash between the restart gap and the mark repeats the gap.

In receipts: a delivery that is processed between the snapshot and the
inspection of the inbox is in neither, which is why `NothingHidden` speaks of what
the ledger has by then.  An inbox that cannot be listed leaves the count of pending
inputs at 0 and adds the reason `inbox_unavailable`, and the receipt is signed
(`observation_coverage.go:342`): whoever reads "nothing pending" must read the
reasons too, and `NothingHidden` asks for that.  A jump in sequence numbers stays reported when the
missing number arrives late, next to a disorder.  A retry that fails overwrites
`uploaded` and its acknowledgement with `pending` or `failed`, although the server
has the receipt; the next retry mends it (`EventuallyUploaded`).
`change_observation_links` is written and never read.

In setup, two inits that overlap: of one repository, both find no backup, and
the second moves the first one's receipt hook over the user's; of different
repositories, the one that saves last takes the other's key away.  An init that
is killed inside `os.WriteFile` leaves a file that cannot be parsed: every
command fails, init included, and capture hooks exit before they can record a
failure (`handler.go:115`).  `HookKept`, `ModeIsHook` and `IntegrationKept` say
exactly where these cases end.

In live verification, the watermark is read before `Started` is set: an event of
the session that is stored in between is neither old nor fresh.  The second
fingerprint is taken before the row is written, so a change in between is
noticed only by the label.  A setting that is changed and changed back between
two readings leaves no trace.

In the agents' files, a kill inside `os.WriteFile` leaves an empty file; the next
install takes it for a file without hooks, and the user's handlers are in the
backup only, or nowhere after an uninstall, whose backup is not made, and after
a second backup in the same second.  `uninstall --restore-backup` promises the
most recent backup of `settings.json` (`uninstall.go:25`), but takes the last name
of all agents' backups (`uninstall.go:70-75`): without one of `settings.json` it
writes Codex's `hooks.json` over it.  It does not back up what it overwrites, so
handlers that are newer than the backup are lost, and so are all where the last
backup is torn or was made of a file that a kill had emptied.  Such a restore is
excused in `UnrelatedKept`; one of a backup that has the handlers must put them
back.  Two commands that overlap lose what one of them wrote.  A `config.toml` that ends in
`[features]` without a newline gets the key on the same line and cannot be parsed
any more (`codex.go:438`); one that has two such tables, which is no TOML, gets the
key in one of them.  A purge takes the backups away, also of a file that a kill has
left empty.

In the views, a request that was denied has the outcome `rejected`, but findings
and lists of rejected actions read its result, which it has none of.  A patch
that cannot be parsed is listed among the changes without a path, and counted in
no figure of paths.  A path that is sensitive and names a test or a document
scores 55: `high`, which the gate blocks by default, but not with
`--fail-on critical`.  The window of the gate compares
timestamps as text (`database.go:722`), and the agent's own time may be late.  A
report groups a session by its last identity.  A last row of a session that is
lost leaves a sound chain; `VerdictHolds` is about rows that are there.

## Proofs

`CaptureStoreProofs` proves, for every finite set of hooks and every choice of
the other constants (sessions, files, digests, scans, order, which hooks may
fail or die), that every behaviour of `Spec` satisfies `TypeOK` and
`LogSound`, that is `SequencesContiguous`, `ChainLinked`, `CountExact` and
`CompleteIsAdjacent`.
The assumptions are `CheckpointAssumption`, `CaptureAssumption` and
`ReasonsAssumption`: the types of the constants, the distinctness of the "none"
values, and that finitely many hooks run.

None of the last four is inductive alone.  `StoreInv` adds what makes the
transaction work: the lock is held exactly by the process inside it
(`LockHeld`), so what that process allocated is still the next position when it
commits (`SlotCurrent`); a hook that has not committed has no row
(`RowPerHook`); the maximum and minimum that the SQL queries return exist
(`HasEnds`); and what a hook has read is still stored (`HistoryStored`).  A step
outside the transaction changes neither the log nor the lock, so one frame lemma
per conjunct disposes of most actions (`OutsideFrame`); the substance is in
`AllocateInv` and the `Commit…` lemmas.  The first lemmas show that
`BuildCheckpoint` and `Downgrade` yield well-formed checkpoints and that a
downgraded one is not complete and associates nothing with the agent.

The same module proves three more theorems from `StoreInv`.  `VerdictIsCurrent` adds
that what a hook has read for its reconciliation is no more than what is stored
(`ReadsBehind`), so that every later event or failure makes the reading outdated
and the promise is not due; and that only session_end hooks come to reconcile
(`EndersClose`), so that before the first of them the row is made by `CommitEvent`
and `RecordCaptureFailure` alone.  `ImplementsLog` is the refinement of `EventLog`:
the sequences of a session are exactly 1 to the number of its events (`Dense`), so
a commit appends to the mapped log (`Grows`, `Keeps`), and every other step gives
up one capture at most (`GivesUp`) or is a stutter.  `StoreFeedsSync` is the second
refinement, to the captures of `SessionSync`: by the same `Dense` a commit raises the
count by one, within the number of hooks (`RoomLeft`), and the least sequence of a
partial event (`FirstPartialIs`) is set once, to the new count (`FirstPartialGrows`).
So the theorems about delivery below, which count events, are about the rows that
the theorems above are about.

The last part of the module proves `AttributionSound` and `AttributionTraceable`
in the same generality.  `AssociationCause` says what `addCheckpoint` may conclude from
one scan: an associated file either changed between a matching pair, or was
associated in that very state by the predecessor.  `DraftExplained` carries this
from the read of the history to the commit: rows are only added and a row is
determined by its id, so the explanation stays valid; and `Allocate` either
finds the predecessor just below the new position or withdraws every
association (`DowngradeEffect`).  `AttributionInv` adds the two properties of
the log, which only `CommitEvent` can disturb: the new row either starts a trace
or extends that of its predecessor (`CommitOrigin`), and lies above all others
(`OriginStable`).

`SessionSyncProofs` proves `SyncedIsDelivered`, `CompleteMeansDelivered` and
`PartialIsExplained` for any sets of sessions, commands and hooks (finite or
not), any limit and any number of failures, from `SyncAssumption`.  `SyncInv`
adds what makes them inductive: an envelope under construction has its row's
verdict covered by the events read after it (`DraftRead`), every envelope at the
server or still under way was once read from the store (`EnvelopesRead`), and
what a command listed and no longer has to do was delivered (`ListDelivered`).
`OtherWorker` is the frame: a step of one worker leaves what is known of the
others.

`ObservationInboxProofs` proves every safety property of `inbox_ledger` for any
deliveries, payloads, repositories and processors (finite or not), any limit and
any number of failures, from `InboxAssumption` and the typing of `NoInput`.
`InboxInv` adds: the lock is held by whoever is in a pass (`LockHeld`), the open
runs at each stage of a pass (`RunsOpen`), one failure in reserve for an
interruption that is not reported yet (`RestartsCounted`), a row that names an
observation has it (`RowsSound`), what the cache and the input of a processor
say is backed by a checkpoint and a file (`CacheSound`, `InputsRead`), and a
renamed file stays before it is acknowledged (`RenamedKept`).  Hooks touch only
the files and processors leave them alone but for `RemoveInput`, so `HookKeeps`
and `PassFrame` dispose of most pairs; the substance is in `InsertStep` and
`MergeStep`, where the rows of an observation grow by one (`RowAdded`), and in
`FileStep`, where a removed file has a row.  `InsertedOnce` is proved as a part of it
and checked by no run: each observation was inserted by one delivery, each event has
one accepted observation.  By it and `RowsSound`, what is stored is what the judged
deliveries reported (`StoredIsRecorded`), so the transaction, which looks into
`codex_observations`, decides as the abstract ledger, which looks at the rows:
`InboxImplementsLedger`.

The second part of `ReceiptProofs` proves `RefsAnswered` and `UploadedIsAccepted` for any
commands (finite or not), any refs of each push, any number of attempts and of
failures, from `UploadAssumption`.  Neither is inductive.  `UploadInv` adds that a
ref which a push has yet to reach has neither a row nor an outcome (`Fresh`), so
that `skipped` and `creation_failed` are written while there is no receipt, and
nothing creates one afterwards; that every ref behind it has an outcome
(`Answered`); and that what a command works on has a row, and is accepted if the
command is about to say so (`InHand`).  Rows are only overwritten, never deleted,
so a step of one command leaves this true of the others (`OtherCommand`), however
many upload the same receipt; `SettleInv` is where it matters that the state and
the acknowledgement are overwritten together.

`SetupProofs` proves every property of `setup_files` for any repositories, inits,
hooks of the user and number of failures, from `SetupAssumption`.  `SetupInv` has
two halves.  `HookInv` says of a repository where nothing has overlapped that one
init works in it at most (`Sole`) and what its place in the code implies for the
two files (`Place`): that the hook it is about to move is the one it read, that
the backup it is about to overwrite is absent, that what it installs over is no
hook of the user's.  From this follows that the hook is kept, that it runs between
inits of which none was killed, and that an init for automatic receipts repairs
what a kill had left (`WriteConfigSound`).  `FileInv` says, while no two inits have
overlapped, that the copy which an init carries agrees with the file except in
its own entry (`CopySound`), so that writing it takes nothing away, even though
the file is unreadable in between.  `OtherRepository` and `FileStep` are the
frames.

`ReceiptProofs` proves every property of `receipt_evidence` for any observations,
checkpoints, scopes and receipts, and any finite set of deliveries, from
`ReceiptAssumption`: what is observed of a delivery is a record of the fields
that `Coverage` reads, and deliveries of one input differ only in their times.
`ReceiptInv` adds two conjuncts for each call.  `Justified`: from the first query
to the signature, the rows gathered justify the links of the coverage, and its
reasons report every jump and disorder among them; leaving out the rows that are
not in scope changes neither (`SameEvidence`, `EvidenceOfScopes`).  `Accounted`: what
was known when the snapshot was taken is a file or a row still, until a count of
no files in an inbox that could be listed leaves only rows.  `NoGapIsSilent` is then arithmetic (`MissingNumber`): the
first observation to arrive above the missing number either jumps over it or
precedes a lower one, and one of the two is reported.
`EvidenceOnlyStrengthens` needs no invariant but the types: `NeverWeaker` shows,
one rung of confidence after the other, that a ledger which has grown by other
events brackets what it bracketed.

`LiveVerificationProofs` proves every safety property of `live_evidence` for any
agents, repositories, sessions, settings, executables, hooks and verifiers (finite
or not) and any number of edits, from `LiveAssumption`.  The verifier reads its
configuration in four pieces, waits for minutes, and reads it again; the argument
is about values that were replaced (`former`).  A value read is the one in force or
a former one (`Seen`), for ever after, because what is replaced becomes former
(`Onward`); and unless a replaced value comes back (`reinstated`), the one in force
is never a former one (`NoneFormer`).  So what the second reading finds in force,
and the first had read, was in force in between, when each of the three events was
captured (`ConfirmHolds`).  `LiveInv` says this of the pending and verified rows and
of each verifier at each place of its code (`FirstReading`, `Evaluation`,
`Confirmation`), beside what `Evaluate` found: rows stay where they are and new ones
lie above the watermark (`WitnessedStays`, `FreshStays`).  `StepOnward` is shown once
for all actions, and `Untouched` is the frame of the verifiers that do not move.

`ActivityViewsProofs` proves every property of `activity_views` for any sessions,
paths, reports, repositories, window, limit and length of a day, and any number of
captures, from `EvidenceAssumption` (the tokens of a path take at most 15 points
from its risk), `ViewsAssumption`, `ReportsAssumption` (only a tool that has run
has a response, and an object is one block) and `OldTablesAssumption` (what an
earlier version stored are reports too, under one of its hashes).  `StoreInv` says
that every row as stored is `Genuine`: its columns have what the queries rely on
(`Faithful`, shown of every report in `ColumnsFaithful`) and its digest covers all of
them.  A hook only adds rows while nothing is damaged, and adds none in the time of
the reader's clock (`Written`), and the reader writes nothing (`Quiet`); so each
property needs what the reader has read to be among the rows of the table, and all
of them as long as the clock stands.  `ReportIsComplete` is then about groups that
share no session, of which a row's is still to be read or was read (`TotalsCovered`);
`ListCoversFigure` about the newest rows, which are all if they are fewer than the
limit (`NewestCovers`), and about Go and SQL selecting the same rows
(`CountedIsSelected`); `FiguresAgree` about counts that grow with their rows
(`FiguresGrow`).  `GateNotices` holds for a threshold of high or lower: a gate that
fails on critical risk alone lets a sensitive path with reassuring tokens pass.  A
row without findings is the row that was stored (`CleanRow`), since a digest that
`verifyIntegrity` accepts determines its row (`SameDigest`); so the rows behind a
verdict were stored (`VerifiedIsStored`, for any damage).  The records of an export
are read before the chains are walked, so that `VerdictIsSound` allows one damage:
a second may remove the damaged row whose record has been read (`BomInv`).

`AgentHooksProofs` proves every property of `hook_files` for any events, binaries,
handlers of others and commands (finite or not), any contents of the files, and any
number of edits, kills and seconds, from `HooksAssumption`.  Its first half is about
the operators.  `Filter` is a recursive function, and what holds of it for every
sequence is shown by induction on the length (`SeqInduct`, from a least
counterexample): it distributes over concatenation, filters commute, and a filter
that takes nothing changes nothing.  From this follow, for any groups of handlers,
that installing and removing leave `TheirPart` alone, that merging adds the observer
to it (`TheirsMerged`), and what they leave of ours (`OwnAs`); `ReinstallIsInstall` and `UninstallUndoesInstall` are the laws that the
commands rely on when they are run again.  `SetFeatureEnables` takes `setCodexFeature`
apart by the place of the key: in its table, before the next header, at the end, or
in a table of its own.  In the second half, `Inv` says of each file that is not
excused that one command at most has it in hand (`OneHolder`); that this command's
copy is what the file holds until it is truncated (`CopyCurrent`); that the handlers
of others are where no kill loses them (`TheirsSomewhere`); and that our
handlers are as the last command left them (`OwnKnown`).  The third part turns on `Held`: a content has
the handlers, or it has none of anybody else's and a backup of an earlier second has
them all, which no backup can replace any more.  That is kept when hooks are
installed into an empty file and the result is backed up in turn (`Stored`).
`StartRestore` is where `WorthRestoring` is needed: without it the copy is any backup,
of any agent.  Two excuses need more than the run has: a backup torn over one of the
same second, and a merge into a damaged file, take two kills or a third command; the
theorem covers them.  `Settled` ties what a command
holds to its place in the code, `NoneAhead` keeps backups out of the future, and
`FeatureKnown` says that nobody enables a feature that the CLI does not know.
`OneHolder` is what overlap breaks, which is why such a file is excused when the second
command takes it in hand; `AgentSame` and `ConfigSame` are the frames of the commands
that do not write.

Only model-checked: `EventuallyApplied`, `IntegratedGetDelivered`, `EventuallyUploaded`,
`StoredRoundTripFound` and `LockReleased`, since liveness under fairness is beyond
the prover.

## Abstractions

An event is identified with the hook that writes it, because ids are fresh UUIDs
and a hook writes one event.  Hashes are injective: `previous_event_hash` is the
id of the event whose hash it is.  Identity columns, `session_hash` and the
content of events are not modelled.  Which files an operation targets, its
outcome and its invocation id are constants of the hook (`Attr`), the reasons
known before the checkpoint likewise (`OwnReasons`).  The upload at session_end is
modelled apart from capture, in `SessionSync`, where a capture is one step.
There, the checks of working directory, repository root, HTTPS and credentials
are the constant `Integrated`.  In `ObservationInbox`, directories exist and can be
listed (an error is `StopPass`), and Git's answer for a place is any of
`Repositories` or none, anew in each pass.

In `Coverage`, a revision is a commit with its tree, `inside` is what `insideRoot`
answers for a checkpoint, and a call is an invocation id with a tool.  In `Receipt`,
the gaps that processing records are left out (`gaps |-> {}`), the repository and
the gaps of a duplicate are those of every delivery of its id, and `files` are those
of the inbox: a failure record holds no observation, and only adds to the count.
When one of the two directories, or the configuration, cannot be read, each in any
combination, `InspectInbox` says so as the code does.  The reasons about disabled
capture, trust and temporary files are left out, and so are the requests that
register a key.  In `ReceiptUpload`, the delays between
attempts are left out: `OutOfTime` may follow any attempt that failed.  In `Setup`,
base refs, the scope and the URL are left out, as is a repository with
`core.hooksPath`, which automatic receipts refuse and explicit ones ignore.

## Not modelled

JSON, TOML and patch syntax, SQL migration, the parsing of the Codex CLI's
feature list, canonical JSON, signing and verification of signatures, redaction
and the table of sensitive patterns are pure functions on text: a model would
repeat the code.  Rendering, the commands that only print, the HTTP server's
headers and its check of the host are input and output.  The configuration of
observation capture (`Configure`, `ReportTrust`) is a file that one user writes:
`ReportTrust` writes back what it has read, and would undo a `Configure` in between.
`ledger build` asks Git and stores what it answers.  Concurrent `init`s are in
`Setup` and `AgentHooks` with the loss they can cause, apart from each other: no
file is in both.

What may come next: `Normalize` against a reference
definition; a composition of `SessionSync` with `Setup`, where an integration is configured between two attempts.
