--------------------------- MODULE LiveVerification ---------------------------
(***************************************************************************)
(* secuarden verify-live (cmd/verify_live.go, internal/live/live.go,       *)
(* internal/agent/live.go, internal/storage/live.go): without --session it *)
(* arms a window, with --session it polls the stored events of that        *)
(* session for a fresh tool round-trip and records the verification.       *)
(*                                                                         *)
(* Verifiers run beside hook processes that store events, beside a user    *)
(* who edits the agents' settings, replaces the configured executables and *)
(* changes the capture scope, and beside each other.  Every database       *)
(* statement and every reading of a file is a step of its own.  A verifier *)
(* that is killed, or whose statement fails, is one that takes no further  *)
(* step: it has nothing to undo.                                           *)
(*                                                                         *)
(* Data: a rowid is the position of an event in rows (MAX(rowid) is its    *)
(* length: no event is ever deleted); an event is the hook process that    *)
(* stored it; a digest is injective, so a fingerprint is what was hashed.  *)
(* The clock has the resolution of captured_at (RFC3339Nano): no two       *)
(* readings are equal.                                                     *)
(***************************************************************************)
EXTENDS Naturals, Sequences, FiniteSets, TLC

CONSTANTS Agents, Repositories, Sessions, Clients, Directories,
          RootOf,       \* [Directories -> Repositories \union {NoRepository}], ResolvePath
          NoRepository,
          Executables, Builds,
          NoBuild,      \* an executable that is absent or cannot be executed
          Settings,     \* the contents an agent's settings files may have
          Policies,     \* the capture scopes a user may configure
          Runtimes, Versions,
          Initially,    \* the settings, runtimes and scope there may be at first
          Verifiers,
          Asked,        \* [Verifiers -> SUBSET (Sessions \union {None})], --session; None arms
          Waits,        \* the values of --wait, at most 5 minutes
          VersionOf,    \* [Verifiers -> Versions], the build each verifier runs
          Captures,     \* hook processes, one event each
          EventOf,      \* [Captures -> Metadata]
          Order,        \* <<c, d>>: the agent starts d only after c's process is gone
          Fallible,     \* hook processes that may fail or be killed
          None,
          Window,       \* 15 minutes
          MaxStamp,     \* bound: no event, arming or poll starts at a later time
          MaxEdits      \* bound on the changes to settings, executables, runtimes and scope

LiveEvents == {"SessionStart", "PreToolUse", "PostToolUse"}

\* What matters of an agent's settings files: disableAllHooks (or, for Codex, the
\* state InspectCodex derives from config.toml), the executables of our handlers,
\* and everything else in the files.
Content == [disabled : BOOLEAN, commands : [LiveEvents -> SUBSET Executables], rest : STRING]

ScopeModes == {"all", "repository_only", "approved_repositories"}
Policy == [mode : ScopeModes, repository : Repositories, approved : SUBSET Repositories]

Metadata ==
    [agent : Agents, session : Sessions, directory : Directories,
     phase : {"session_start", "pre", "post", "intent", "session_end"},
     invocation : STRING, tool : STRING]

Request ==
    [agent : Agents, directory : Directories, client : Clients,
     session : Sessions \union {None}, wait : Waits]

ASSUME LiveAssumption ==
    /\ RootOf \in [Directories -> Repositories \union {NoRepository}]
    /\ NoRepository \notin Repositories /\ NoBuild \notin Builds /\ None \notin Sessions
    /\ Settings \subseteq Content /\ Policies \subseteq Policy
    /\ Asked \in [Verifiers -> SUBSET (Sessions \union {None})] /\ Waits \subseteq Nat
    /\ VersionOf \in [Verifiers -> Versions]
    /\ EventOf \in [Captures -> Metadata]
    /\ Order \subseteq Captures \X Captures /\ Fallible \subseteq Captures
    /\ Initially \subseteq [Agents -> Settings] \X [Agents -> Runtimes] \X Policies
    /\ Window \in Nat /\ MaxStamp \in Nat /\ MaxEdits \in Nat

VARIABLES clock,
          settings, executable, runtime, policy,
          edits,      \* how many changes were made to them
          former,     \* the values that were replaced
          reinstated, \* whether a change brought a former value back
          captured,   \* captured_at of each event; 0 before its hook ran
          under,      \* the configuration in force at captured_at
          rows,       \* the events table
          lost,       \* hook processes that are gone without having stored their event
          failures,   \* rows of capture_failures per session
          pending, verified,   \* the metadata table, by live.Key
          \* the variables of each verifier
          pc, request,
          reading,    \* what liveConfiguration has read so far
          first,      \* what it returned the first time: fp and runtime
          watermark,
          state, deadline, old, failed, stage

configVars == <<settings, executable, runtime, policy, edits, former, reinstated>>
captureVars == <<captured, under, rows, lost, failures>>
metadataVars == <<pending, verified>>
pollVars == <<old, failed, stage>>
localVars == <<request, reading, first, watermark, state, deadline, pollVars>>
vars == <<clock, configVars, captureVars, metadataVars, pc, localVars>>

Keys == Agents \X Repositories

\* What HookFingerprint hashes: the files, and each resolved executable.
Fingerprint == Settings \X UNION {[P -> Builds] : P \in SUBSET Executables}

\* live.State; evidence holds the rowids of the three events.
State ==
    [started : Nat, watermark : Nat, agent : Agents, repository : Repositories,
     client : Clients, fingerprint : Fingerprint, runtime : Runtimes, version : Versions,
     session : Sessions \union {None}, verifiedAt : Nat, evidence : Seq(Nat)]
NoState == [started |-> 0]

Configuration == [fingerprint : Fingerprint, runtime : Runtimes]
NoConfiguration == [runtime |-> None]

Reading == {"validate", "files", "commands"}
Rereading == {"revalidate", "refiles", "recommands"}
Polling == {"window", "old", "failures", "records", "evaluated", "waiting"}
Exited == {"excluded", "unconfigured", "armed", "not_armed", "stale", "other_client",
           "expired", "changed", "verified", "incomplete", "cancelled", "failed"}
Stages == {"none", "session_not_fresh", "capture_persistence_failure",
           "fresh_session_start_missing", "tool_round_trip", "request_received_result_missing",
           "events_received_round_trip_pending", "no_matching_event"}

TypeOK ==
    /\ clock \in Nat /\ edits \in Nat /\ reinstated \in BOOLEAN
    /\ settings \in [Agents -> Settings] /\ policy \in Policies
    /\ executable \in [Executables -> Builds \union {NoBuild}]
    /\ runtime \in [Agents -> Runtimes]
    /\ captured \in [Captures -> Nat]
    /\ rows \in Seq(Captures)
    /\ lost \subseteq Captures /\ failures \in [Sessions -> Nat]
    /\ pending \in [Keys -> State \union {NoState}]
    /\ verified \in [Keys -> State \union {NoState}]
    /\ pc \in [Verifiers -> {"idle", "open", "arming", "poll", "confirmed"}
                              \union Reading \union Rereading \union Polling \union Exited]
    /\ request \in [Verifiers -> Request \union {NoState}]
    /\ first \in [Verifiers -> Configuration \union {NoConfiguration}]
    /\ state \in [Verifiers -> State \union {NoState}]
    /\ watermark \in [Verifiers -> Nat] /\ deadline \in [Verifiers -> Nat]
    /\ old \in [Verifiers -> BOOLEAN] /\ failed \in [Verifiers -> Nat]
    /\ stage \in [Verifiers -> Stages]

Each(D, x) == [d \in D |-> x]

Init ==
    /\ clock = 1 /\ edits = 0 /\ former = {} /\ reinstated = FALSE
    /\ \E w \in Initially : settings = w[1] /\ runtime = w[2] /\ policy = w[3]
    /\ executable \in [Executables -> Builds]
    /\ captured = Each(Captures, 0) /\ under = Each(Captures, NoConfiguration)
    /\ rows = <<>> /\ lost = {} /\ failures = Each(Sessions, 0)
    /\ pending = Each(Keys, NoState) /\ verified = Each(Keys, NoState)
    /\ pc = Each(Verifiers, "idle") /\ request = Each(Verifiers, NoState)
    /\ reading = Each(Verifiers, NoConfiguration) /\ first = Each(Verifiers, NoConfiguration)
    /\ watermark = Each(Verifiers, 0) /\ state = Each(Verifiers, NoState)
    /\ deadline = Each(Verifiers, 0) /\ old = Each(Verifiers, FALSE)
    /\ failed = Each(Verifiers, 0) /\ stage = Each(Verifiers, "none")

-----------------------------------------------------------------------------
\* scope.Evaluate.  Scoped modes fail closed outside a repository.
ScopeAllows(p, directory) ==
    \/ p.mode = "all"
    \/ /\ RootOf[directory] # NoRepository
       /\ \/ p.mode = "repository_only" /\ p.repository = RootOf[directory]
          \/ p.mode = "approved_repositories" /\ RootOf[directory] \in p.approved

\* liveHookDependencies: every event the verifier needs has a handler of ours,
\* and the executable of each such handler can be run.
Dependencies(c) == UNION {c.commands[e] : e \in LiveEvents}
Configured(c) ==
    /\ ~c.disabled
    /\ \A e \in LiveEvents : c.commands[e] # {}
    /\ \A p \in Dependencies(c) : executable[p] # NoBuild
Digests(c) == [p \in Dependencies(c) |-> executable[p]]

\* The whole configuration of an agent, as one reading of it would find it.
InForce(a) ==
    [fingerprint |-> <<settings[a], Digests(settings[a])>>, runtime |-> runtime[a]]

KeyOf(v) == <<request[v].agent, RootOf[request[v].directory]>>
AgentOf(v) == request[v].agent
Goto(v, label) == pc' = [pc EXCEPT ![v] = label]
\* time.Now(): later than any reading before it.
Stamp == clock < MaxStamp /\ clock' = clock + 1

-----------------------------------------------------------------------------
\* runLive, up to the opening of the database

\* The command line is checked, the repository resolved and the scope evaluated.
Begin(v, a, d, c, s, w) ==
    /\ pc[v] = "idle"
    /\ RootOf[d] # NoRepository
    /\ request' = [request EXCEPT ![v] =
         [agent |-> a, directory |-> d, client |-> c, session |-> s, wait |-> w]]
    /\ Goto(v, IF ScopeAllows(policy, d) THEN "validate" ELSE "excluded")
    /\ UNCHANGED <<clock, configVars, captureVars, metadataVars>>
    /\ UNCHANGED <<reading, first, watermark, state, deadline, pollVars>>

\* liveConfiguration reads the files to validate them and, for Codex, the state
\* and version of the runtime; HookFingerprint then reads the files once more,
\* and last the executables the files name by then.
Validate(v) ==
    /\ pc[v] \in {"validate", "revalidate"}
    /\ IF Configured(settings[AgentOf(v)])
         THEN /\ reading' = [reading EXCEPT ![v] = [runtime |-> runtime[AgentOf(v)]]]
              /\ Goto(v, IF pc[v] = "validate" THEN "files" ELSE "refiles")
         ELSE /\ Goto(v, IF pc[v] = "validate" THEN "unconfigured" ELSE "failed")
              /\ UNCHANGED reading
    /\ UNCHANGED <<clock, configVars, captureVars, metadataVars>>
    /\ UNCHANGED <<request, first, watermark, state, deadline, pollVars>>

ReadFiles(v) ==
    /\ pc[v] \in {"files", "refiles"}
    /\ reading' = [reading EXCEPT ![v] =
         [runtime |-> reading[v].runtime, content |-> settings[AgentOf(v)]]]
    /\ Goto(v, IF pc[v] = "files" THEN "commands" ELSE "recommands")
    /\ UNCHANGED <<clock, configVars, captureVars, metadataVars>>
    /\ UNCHANGED <<request, first, watermark, state, deadline, pollVars>>

\* The fingerprint is complete.
Found(v) ==
    [fingerprint |-> <<reading[v].content, Digests(settings[AgentOf(v)])>>,
     runtime |-> reading[v].runtime]

ReadCommands(v) ==
    /\ pc[v] = "commands"
    /\ IF Configured(settings[AgentOf(v)])
         THEN /\ first' = [first EXCEPT ![v] = Found(v)]
              /\ Goto(v, "open")
         ELSE Goto(v, "unconfigured") /\ UNCHANGED first
    /\ UNCHANGED <<clock, configVars, captureVars, metadataVars>>
    /\ UNCHANGED <<request, reading, watermark, state, deadline, pollVars>>

-----------------------------------------------------------------------------
\* Without --session: arm

LiveWatermark(v) ==
    /\ pc[v] = "open" /\ request[v].session = None
    /\ watermark' = [watermark EXCEPT ![v] = Len(rows)]
    /\ Goto(v, "arming")
    /\ UNCHANGED <<clock, configVars, captureVars, metadataVars>>
    /\ UNCHANGED <<request, reading, first, state, deadline, pollVars>>

Armed(v) ==
    [started |-> clock', watermark |-> watermark[v], agent |-> AgentOf(v),
     repository |-> RootOf[request[v].directory], client |-> request[v].client,
     fingerprint |-> first[v].fingerprint, runtime |-> first[v].runtime,
     version |-> VersionOf[v], session |-> None, verifiedAt |-> 0, evidence |-> <<>>]

\* Started is the time after the watermark was read.
Arm(v) ==
    /\ pc[v] = "arming"
    /\ Stamp
    /\ pending' = [pending EXCEPT ![KeyOf(v)] = Armed(v)]
    /\ Goto(v, "armed")
    /\ UNCHANGED <<configVars, captureVars, verified, localVars>>

-----------------------------------------------------------------------------
\* With --session: evaluate

Compare(v, s) ==
    IF s = NoState THEN "not_armed"
    ELSE IF \/ s.fingerprint # first[v].fingerprint \/ s.runtime # first[v].runtime
            \/ s.version # VersionOf[v] THEN "stale"
    ELSE IF s.client # request[v].client THEN "other_client" ELSE "poll"

ReadPending(v) ==
    /\ pc[v] = "open" /\ request[v].session # None
    /\ Goto(v, Compare(v, pending[KeyOf(v)]))
    /\ state' = [state EXCEPT ![v] =
         IF Compare(v, pending[KeyOf(v)]) = "poll"
         THEN [pending[KeyOf(v)] EXCEPT !.session = request[v].session] ELSE NoState]
    /\ UNCHANGED <<clock, configVars, captureVars, metadataVars>>
    /\ UNCHANGED <<request, reading, first, watermark, deadline, pollVars>>

SetDeadline(v) ==
    /\ pc[v] = "poll"
    /\ Stamp
    /\ deadline' = [deadline EXCEPT ![v] = clock' + request[v].wait]
    /\ Goto(v, "window")
    /\ UNCHANGED <<configVars, captureVars, metadataVars>>
    /\ UNCHANGED <<request, reading, first, watermark, state, pollVars>>

\* The loop: the window, then LiveEvidence's three queries in no transaction.
CheckWindow(v) ==
    /\ pc[v] = "window"
    /\ Goto(v, IF clock > state[v].started + Window THEN "expired" ELSE "old")
    /\ UNCHANGED <<clock, configVars, captureVars, metadataVars, localVars>>

RowsOf(session) == {i \in DOMAIN rows : EventOf[rows[i]].session = session}

QueryOld(v) ==
    /\ pc[v] = "old"
    /\ old' = [old EXCEPT ![v] = \E i \in RowsOf(state[v].session) : i <= state[v].watermark]
    /\ Goto(v, "failures")
    /\ UNCHANGED <<clock, configVars, captureVars, metadataVars>>
    /\ UNCHANGED <<request, reading, first, watermark, state, deadline, failed, stage>>

QueryFailures(v) ==
    /\ pc[v] = "failures"
    /\ failed' = [failed EXCEPT ![v] = failures[state[v].session]]
    /\ Goto(v, "records")
    /\ UNCHANGED <<clock, configVars, captureVars, metadataVars>>
    /\ UNCHANGED <<request, reading, first, watermark, state, deadline, old, stage>>

\* Evaluate's filter over the records of the third query.
Observed_AnyTime(s) ==
    {i \in RowsOf(s.session) :
        LET e == EventOf[rows[i]] IN
        /\ i > s.watermark /\ e.agent = s.agent
        /\ RootOf[e.directory] = s.repository}
Observed(s) ==
    {i \in RowsOf(s.session) :
        LET e == EventOf[rows[i]] IN
        /\ i > s.watermark /\ e.agent = s.agent
        /\ captured[rows[i]] >= s.started
        /\ RootOf[e.directory] = s.repository}

Of(phase, s) == {i \in Observed(s) : EventOf[rows[i]].phase = phase}
Keyed(phase, s) ==
    {i \in Of(phase, s) : EventOf[rows[i]].invocation # "" /\ EventOf[rows[i]].tool # ""}
SameCall(i, j) ==
    /\ EventOf[rows[i]].invocation = EventOf[rows[j]].invocation
    /\ EventOf[rows[i]].tool = EventOf[rows[j]].tool

\* The last start, and for a call the last request and the last result.
IsLastOf(i, S) == i \in S /\ \A j \in S : j <= i
RoundTrips(s) ==
    {t \in Observed(s) \X Observed(s) \X Observed(s) :
        /\ IsLastOf(t[1], Of("session_start", s))
        /\ SameCall(t[2], t[3])
        /\ IsLastOf(t[2], {i \in Keyed("pre", s) : SameCall(i, t[2])})
        /\ IsLastOf(t[3], {i \in Keyed("post", s) : SameCall(i, t[3])})}

EvaluatedStage_RequestFirst(v, s) ==
    IF old[v] THEN "session_not_fresh"
    ELSE IF failed[v] > 0 THEN "capture_persistence_failure"
    ELSE IF Keyed("pre", s) # {} THEN "request_received_result_missing"
    ELSE "no_matching_event"
EvaluatedStage(v, s) ==
    IF old[v] THEN "session_not_fresh"
    ELSE IF failed[v] > 0 THEN "capture_persistence_failure"
    ELSE IF Observed(s) = {} THEN "no_matching_event"
    ELSE IF Of("session_start", s) = {} THEN "fresh_session_start_missing"
    ELSE IF RoundTrips(s) # {} THEN "tool_round_trip"
    ELSE IF Keyed("pre", s) # {} THEN "request_received_result_missing"
    ELSE "events_received_round_trip_pending"

\* The records are read and evaluated.  Of several round trips any is taken
\* (the code ranges over a map).
Evaluate(v) ==
    /\ pc[v] = "records"
    /\ stage' = [stage EXCEPT ![v] = EvaluatedStage(v, state[v])]
    /\ IF stage'[v] = "tool_round_trip"
         THEN \E t \in RoundTrips(state[v]) :
                 /\ state' = [state EXCEPT ![v] = [state[v] EXCEPT !.evidence = t]]
                 /\ Goto(v, "revalidate")
         ELSE Goto(v, "evaluated") /\ UNCHANGED state
    /\ UNCHANGED <<clock, configVars, captureVars, metadataVars>>
    /\ UNCHANGED <<request, reading, first, watermark, deadline, old, failed>>

\* The configuration is read again after the evidence, and compared.
Confirm_Unread(v) ==
    /\ pc[v] = "recommands"
    /\ clock' = clock + 1
    /\ state' = [state EXCEPT ![v] = [state[v] EXCEPT !.verifiedAt = clock']]
    /\ Goto(v, "confirmed")
    /\ UNCHANGED <<configVars, captureVars, metadataVars>>
    /\ UNCHANGED <<request, reading, first, watermark, deadline, pollVars>>
Confirm(v) ==
    /\ pc[v] = "recommands"
    /\ IF ~Configured(settings[AgentOf(v)])
         THEN Goto(v, "failed") /\ UNCHANGED <<clock, state>>
       ELSE IF Found(v) # first[v]
         THEN Goto(v, "changed") /\ UNCHANGED <<clock, state>>
       ELSE /\ clock' = clock + 1
            /\ state' = [state EXCEPT ![v] = [state[v] EXCEPT !.verifiedAt = clock']]
            /\ Goto(v, "confirmed")
    /\ UNCHANGED <<configVars, captureVars, metadataVars>>
    /\ UNCHANGED <<request, reading, first, watermark, deadline, pollVars>>

WriteVerified(v) ==
    /\ pc[v] = "confirmed"
    /\ verified' = [verified EXCEPT ![KeyOf(v)] = state[v]]
    /\ Goto(v, "verified")
    /\ UNCHANGED <<clock, configVars, captureVars, pending, localVars>>

\* No round trip yet: stop for good reason or at the deadline, else wait.
Terminal == {"session_not_fresh", "capture_persistence_failure"}
Stop(v) ==
    /\ pc[v] = "evaluated"
    /\ clock >= deadline[v] \/ stage[v] \in Terminal
    /\ Goto(v, "incomplete")
    /\ UNCHANGED <<clock, configVars, captureVars, metadataVars, localVars>>

Wait(v) ==
    /\ pc[v] = "evaluated"
    /\ clock < deadline[v] /\ stage[v] \notin Terminal
    /\ Goto(v, "waiting")
    /\ UNCHANGED <<clock, configVars, captureVars, metadataVars, localVars>>

\* The timer fires after 500 ms or at the deadline, whichever comes first.
Wake(v) ==
    /\ pc[v] = "waiting"
    /\ clock' = clock + 1
    /\ Goto(v, "window")
    /\ UNCHANGED <<configVars, captureVars, metadataVars, localVars>>

Cancel(v) ==
    /\ pc[v] = "waiting"
    /\ Goto(v, "cancelled")
    /\ UNCHANGED <<clock, configVars, captureVars, metadataVars, localVars>>

-----------------------------------------------------------------------------
\* The hook processes (internal/capture/handler.go)

InRows(c) == \E i \in DOMAIN rows : rows[i] = c
InFlight(c) == captured[c] # 0 /\ c \notin lost /\ ~InRows(c)

\* The scope is evaluated on the configuration just loaded, then the event is
\* stamped; what the scope excludes leaves no event.
Capture(c) ==
    /\ captured[c] = 0
    /\ \A d \in Captures : <<d, c>> \in Order => InRows(d) \/ d \in lost
    /\ ScopeAllows(policy, EventOf[c].directory)
    /\ Stamp
    /\ captured' = [captured EXCEPT ![c] = clock']
    /\ under' = [under EXCEPT ![c] = InForce(EventOf[c].agent)]
    /\ UNCHANGED <<configVars, rows, lost, failures, metadataVars, pc, localVars>>

\* WriteEvent commits, the checkpoint's scan and the busy timeout later.
Store(c) ==
    /\ InFlight(c)
    /\ rows' = Append(rows, c)
    /\ UNCHANGED <<clock, configVars, captured, under, lost, failures>>
    /\ UNCHANGED <<metadataVars, pc, localVars>>

\* WriteEvent fails and RecordCaptureFailure succeeds.
Reject(c) ==
    /\ c \in Fallible /\ InFlight(c)
    /\ lost' = lost \union {c}
    /\ failures' = [failures EXCEPT ![EventOf[c].session] = @ + 1]
    /\ UNCHANGED <<clock, configVars, captured, under, rows, metadataVars, pc, localVars>>

\* The process is killed, or fails where no failure is recorded.
Lose(c) ==
    /\ c \in Fallible /\ InFlight(c)
    /\ lost' = lost \union {c}
    /\ UNCHANGED <<clock, configVars, captured, under, rows, failures>>
    /\ UNCHANGED <<metadataVars, pc, localVars>>

-----------------------------------------------------------------------------
\* The user

Replace(x, was, now) ==
    /\ edits < MaxEdits /\ was # now
    /\ edits' = edits + 1
    /\ former' = former \union {<<x, was>>}
    /\ reinstated' = (reinstated \/ <<x, now>> \in former)

EditSettings(a, c) ==
    /\ Replace(<<"settings", a>>, settings[a], c)
    /\ settings' = [settings EXCEPT ![a] = c]
    /\ UNCHANGED <<clock, executable, runtime, policy, captureVars, metadataVars, pc, localVars>>

\* A rebuild, an upgrade, a removal, a lost permission.
ReplaceExecutable(p, b) ==
    /\ Replace(<<"executable", p>>, executable[p], b)
    /\ executable' = [executable EXCEPT ![p] = b]
    /\ UNCHANGED <<clock, settings, runtime, policy, captureVars, metadataVars, pc, localVars>>

UpgradeRuntime(a, n) ==
    /\ Replace(<<"runtime", a>>, runtime[a], n)
    /\ runtime' = [runtime EXCEPT ![a] = n]
    /\ UNCHANGED <<clock, settings, executable, policy, captureVars, metadataVars, pc, localVars>>

ChangeScope(p) ==
    /\ policy # p /\ edits < MaxEdits
    /\ edits' = edits + 1 /\ policy' = p
    /\ UNCHANGED <<clock, settings, executable, runtime, former, reinstated>>
    /\ UNCHANGED <<captureVars, metadataVars, pc, localVars>>

\* Nobody runs anything for a while.
Lapse ==
    /\ clock < MaxStamp
    /\ clock' = clock + Window
    /\ UNCHANGED <<configVars, captureVars, metadataVars, pc, localVars>>

-----------------------------------------------------------------------------
Step(v) ==
    \/ Validate(v) \/ ReadFiles(v) \/ ReadCommands(v)
    \/ LiveWatermark(v) \/ Arm(v)
    \/ ReadPending(v) \/ SetDeadline(v) \/ CheckWindow(v)
    \/ QueryOld(v) \/ QueryFailures(v) \/ Evaluate(v)
    \/ Confirm(v) \/ WriteVerified(v)
    \/ Stop(v) \/ Wait(v) \/ Wake(v)

Next ==
    \/ \E v \in Verifiers :
        \/ \E a \in Agents, d \in Directories, c \in Clients, s \in Asked[v], w \in Waits :
             Begin(v, a, d, c, s, w)
        \/ Step(v)
        \/ Cancel(v)
    \/ \E c \in Captures : Capture(c) \/ Store(c) \/ Reject(c) \/ Lose(c)
    \/ \E a \in Agents : \E c \in Settings : EditSettings(a, c)
    \/ \E p \in Executables : \E b \in Builds \union {NoBuild} : ReplaceExecutable(p, b)
    \/ \E a \in Agents : \E n \in Runtimes : UpgradeRuntime(a, n)
    \/ \E p \in Policies : ChangeScope(p)
    \/ Lapse

Spec == Init /\ [][Next]_vars

\* The scheduler runs the command and its timer fires; no event has to be stored,
\* no file has to change and nobody has to interrupt the command.
FairSpec == Spec /\ \A v \in Verifiers : WF_vars(Step(v))

-----------------------------------------------------------------------------
\* lastLiveLabel: what status says of an agent and a repository.
Label_Unchecked(a, repo, version) ==
    IF verified[<<a, repo>>] = NoState THEN "pending"
    ELSE IF verified[<<a, repo>>].version # version THEN "stale" ELSE "last_verified"
Label(a, repo, version) ==
    LET s == verified[<<a, repo>>] IN
    IF s = NoState THEN "pending"
    ELSE IF \/ ~Configured(settings[a])
            \/ InForce(a) # [fingerprint |-> s.fingerprint, runtime |-> s.runtime]
            \/ s.version # version
         THEN "stale"
    ELSE "last_verified"

-----------------------------------------------------------------------------
\* Properties

\* A recorded verification rests on what it names: a session_start, a request
\* and a result that are stored, of that session, agent and repository, the two
\* of one call, all captured between the arming and the verification; and
\* nothing of the session had been stored when the window was armed.
Sound(k, s) ==
    /\ k = <<s.agent, s.repository>>
    /\ s.started < s.verifiedAt
    /\ Len(s.evidence) = 3
    /\ \A n \in 1..3 :
        LET i == s.evidence[n]
            e == EventOf[rows[i]]
        IN  /\ i \in DOMAIN rows /\ i > s.watermark
            /\ e.session = s.session /\ e.agent = s.agent
            /\ RootOf[e.directory] = s.repository
            /\ s.started <= captured[rows[i]] /\ captured[rows[i]] < s.verifiedAt
    /\ EventOf[rows[s.evidence[1]]].phase = "session_start"
    /\ EventOf[rows[s.evidence[2]]].phase = "pre"
    /\ EventOf[rows[s.evidence[3]]].phase = "post"
    /\ SameCall(s.evidence[2], s.evidence[3])
    /\ \A i \in RowsOf(s.session) : i > s.watermark
VerifiedIsEvidenced == \A k \in Keys : verified[k] # NoState => Sound(k, verified[k])

\* The fingerprint is the configuration the evidence was captured under, however
\* the files and executables were edited while they were being read, as long as
\* no edit brought a former value back.
EvidenceUnderFingerprint ==
    ~reinstated =>
        \A k \in Keys : verified[k] # NoState =>
            \A n \in 1..3 :
                under[rows[verified[k].evidence[n]]] =
                    [fingerprint |-> verified[k].fingerprint, runtime |-> verified[k].runtime]

\* Status calls a verification current only in the configuration whose events
\* it observed.
CurrentLabelIsEarned ==
    ~reinstated =>
        \A k \in Keys : \A n \in Versions : Label(k[1], k[2], n) = "last_verified" =>
            \A i \in 1..3 : under[rows[verified[k].evidence[i]]] = InForce(k[1])

\* A round trip that is stored while the command waits is found: the command
\* does not end as incomplete, unless a failure of the session is recorded.
Settled == {"verified", "changed", "expired", "failed", "cancelled"}
StoredRoundTripFound ==
    \A v \in Verifiers : \A s \in Sessions :
        (pc[v] = "waiting" /\ state[v].session = s /\ RoundTrips(state[v]) # {})
            ~> (pc[v] \in Settled \/ failures[s] > 0)
=============================================================================
