----------------------------- MODULE ActivityViews -----------------------------
(***************************************************************************)
(* The commands that read the event store while hooks write to it: the     *)
(* dashboard of secuarden serve and status (webui/server.go, assets/app.js,*)
(* GetStatusSummary), secuarden session, report, bom, gate and verify.     *)
(*                                                                         *)
(* A reader issues several statements and holds no transaction over them;  *)
(* each is a step of its own.  One reader at a time is enough: readers     *)
(* write nothing.  A capture is one step here (CaptureStore has its        *)
(* transactions).  Time is a counter that every capture advances, so that  *)
(* no two events have the same captured time; DayLength units are a day.   *)
(* Damage stands for a row that is changed or lost by anything but this    *)
(* program; the columns of a session row are not damaged, and the dashboard*)
(* and the report, of which nothing is claimed then, are read before it.   *)
(***************************************************************************)
EXTENDS Evidence

CONSTANTS Reports,    \* what the agents' hooks may report
          AgentOf,    \* [Sessions -> Agents]
          Repos,      \* canonical repository identities
          LocalRepo,  \* [Sessions -> Repos], resolved from the working directory
          OldTables,  \* the tables an earlier version may have left
          Lags,       \* how far a timestamp that Claude Code sends is behind
          Limit,      \* rows a page of /api/events lists: 500
          Moving,     \* sessions whose repository's remote may change
          Window,     \* --since
          Threshold,  \* rank of --fail-on
          All,        \* --all, --all-repos
          DayLength,
          MaxRows, MaxDay, MaxDamage \* bounds

ASSUME ViewsAssumption ==
    /\ Reports \subseteq Report /\ AgentOf \in [Sessions -> Agents]
    /\ LocalRepo \in [Sessions -> Repos] /\ All \notin Repos /\ Moving \subseteq Sessions
    /\ Lags \subseteq Nat /\ Window \in Nat /\ Threshold \in 1..4
    /\ Limit \in Nat \ {0} /\ DayLength \in Nat \ {0}
    /\ MaxRows \in Nat /\ MaxDay \in Nat /\ MaxDamage \in Nat

\* Only a tool that has run has a response, and an object is one block.
ASSUME ReportsAssumption ==
    \A r \in Reports :
      /\ r.phase # "post" => r.shape = "none"
      /\ r.shape = "object" => r.blocks # <<>>

\* An earlier version stored reports too, without checkpoints, and hashed all the
\* columns that it had.
Earlier(row, rows) ==
    /\ row = [columns |-> row.columns, previous |-> row.previous, hash |-> row.hash,
              sequence |-> row.sequence]
    /\ row.sequence \in 1 .. Cardinality(rows)
    /\ \E r \in Reports, s \in Sessions, t \in 0 .. Cardinality(rows), collector \in BOOLEAN :
         row.columns = [Columns(r, s, t) EXCEPT !.checkpoint = FALSE, !.collector = collector]
    /\ \E format \in {"v2", "v3", "v4"} : row.hash = Digest(format, row.previous, row)
    /\ PrefixOf(row) \in HashFormats => ~Unprotected(row)

ASSUME OldTablesAssumption ==
    \A rows \in OldTables : IsFiniteSet(rows) /\ \A row \in rows : Earlier(row, rows)

VARIABLES log,      \* the events table
          sessions, \* the sessions table
          clock,
          written,  \* ghost: every row as it was stored
          damages,  \* ghost: rows changed or lost by anything else
          view      \* the reader

vars == <<log, sessions, clock, written, damages, view>>

Unknown == [known |-> FALSE, repo |-> All, hashed |-> FALSE]
Idle == [command |-> "none", step |-> "idle", scope |-> All, from |-> 0, until |-> 0,
         clock |-> 0, groups |-> {}, rows |-> {}, recent |-> <<>>,
         drill |-> "none", of |-> All, listed |-> {}, parts |-> {},
         records |-> {}, findings |-> {}, verdict |-> "none"]

Known == {s \in Sessions : sessions[s].known}
DayStart(t) == (t \div DayLength) * DayLength
In(rows, from, until) == {row \in rows : from <= row.columns.time /\ row.columns.time < until}

-----------------------------------------------------------------------------
(* Hooks.                                                                  *)

\* EnsureSession
Ensure(s) ==
    /\ ~sessions[s].known
    /\ sessions' = [sessions EXCEPT ![s] = [known |-> TRUE, repo |-> LocalRepo[s], hashed |-> TRUE]]
    /\ UNCHANGED <<log, clock, written, damages, view>>

\* UpdateSessionIdentity: the remote may have changed since the last hook
Identify(s, repo) ==
    /\ sessions[s].known /\ (repo = LocalRepo[s] \/ s \in Moving)
    /\ sessions' = [sessions EXCEPT ![s].repo = repo, ![s].hashed = TRUE]
    /\ UNCHANGED <<log, clock, written, damages, view>>

Capture(s, report, lag) ==
    /\ sessions[s].known /\ report.agent = AgentOf[s]
    /\ report.agent = "codex" => lag = 0
    /\ lag <= clock /\ Cardinality(written) < MaxRows
    /\ LET row == NewRow(log, Columns(report, s, clock - lag)) IN
       /\ log' = log \union {row}
       /\ written' = written \union {row}
    /\ clock' = clock + 1
    /\ UNCHANGED <<sessions, damages, view>>

NewDay ==
    /\ clock \div DayLength < MaxDay
    /\ clock' = DayStart(clock) + DayLength
    /\ UNCHANGED <<log, sessions, written, damages, view>>

Altered(c) ==
    ({[c EXCEPT !.file = p] : p \in Paths} \union {[c EXCEPT !.outcome = o] : o \in {"success", "error"}}
     \union {[c EXCEPT !.files = <<p>>] : p \in SensitivePaths}
     \union {[c EXCEPT !.checkpoint = ~@], [c EXCEPT !.collector = ~@]}) \ {c}

Damage(row) ==
    /\ damages < MaxDamage /\ view.command \in {"none", "bom", "gate", "verify"}
    /\ \/ log' = log \ {row}
       \/ \E c \in Altered(row.columns) : log' = (log \ {row}) \union {[row EXCEPT !.columns = c]}
    /\ damages' = damages + 1
    /\ UNCHANGED <<sessions, clock, written, view>>

-----------------------------------------------------------------------------
(* The dashboard: a page of figures, and the rows behind one of them.      *)

Become(v) == view' = v /\ UNCHANGED <<log, sessions, clock, written, damages>>
Begin(command) == [Idle EXCEPT !.command = command, !.clock = clock]

\* GetStatusSummary: the events of the day ...
StartOverview ==
    /\ view = Idle
    /\ LET from == DayStart(clock)
           until == from + DayLength
       IN Become([Begin("overview") EXCEPT !.step = "recent", !.from = from, !.until = until,
                                           !.rows = In(log, from, until)])

\* ... and then the recent sessions
Recent(rows) ==
    [events |-> Cardinality(rows), files |-> RecentFiles(rows),
     warnings |-> Cardinality(Those(rows, Warning))]
ReadRecent ==
    /\ view.step = "recent"
    /\ Become([view EXCEPT !.step = "page", !.recent = [s \in Known |-> Recent(OfSession(log, s))]])

Drills == {"all", "changes", "commands", "errors", "file"}
\* QueryEvents' WHERE
Selects(drill, p, c) ==
    CASE drill = "all"      -> TRUE
      [] drill = "changes"  -> ConfirmedChange(c)
      [] drill = "commands" -> Command(c)
      [] drill = "errors"   -> FailureRow(c)
      [] drill = "file"     -> ConfirmedChange(c) /\ (c.file = p \/ p \in ToSet(c.files))
\* QueryEvents' ORDER BY and LIMIT
Later(r, q) ==
    \/ r.columns.time > q.columns.time
    \/ r.columns.time = q.columns.time /\ r.columns.session > q.columns.session
    \/ r.columns.time = q.columns.time /\ r.columns.session = q.columns.session /\ r.sequence > q.sequence
Newest(rows) == {row \in rows : Cardinality({q \in rows : Later(q, row)}) < Limit}

\* GET /api/events with the bounds of the page; drill "file" is about path p
Drill(drill, p) ==
    /\ view.step = "page"
    /\ Become([view EXCEPT !.step = "drilled", !.drill = drill, !.of = p, !.listed =
         Newest({row \in In(log, view.from, view.until) : Selects(drill, p, row.columns)})])

\* GetSessionInvestigation: GET /api/sessions/{id} and `secuarden session`
Investigate(s) ==
    /\ view.step = "page" /\ s \in DOMAIN view.recent
    /\ Become([view EXCEPT !.step = "drilled", !.drill = "session", !.of = s, !.listed = OfSession(log, s)])

-----------------------------------------------------------------------------
(* secuarden report.                                                       *)

\* GroupCaptured of ListSessionRepositories, and Match
Groups(scope) ==
    {[repo |-> r, sessions |-> {s \in Known : sessions[s].repo = r}] :
       r \in {sessions[s].repo : s \in Known} \intersect (IF scope = All THEN Repos ELSE {scope})}
SessionsOf(groups) == UNION {g.sessions : g \in groups}
RowsOf(some) == {row \in log : row.columns.session \in some}

StartReport(scope) ==
    /\ view = Idle
    /\ Become([Begin("report") EXCEPT !.step = "totals", !.scope = scope, !.groups = Groups(scope),
                                      !.from = clock - Window, !.until = clock])

\* a report on one repository is its totals
ReadTotals ==
    /\ view.step = "totals"
    /\ Become([view EXCEPT !.step = IF view.scope = All /\ view.groups # {} THEN "groups" ELSE "done",
                           !.rows = In(RowsOf(SessionsOf(view.groups)), view.from, view.until)])

\* the groups are read in a fixed order; one without events is left out
AddGroup(g, rows) ==
    Become([view EXCEPT !.step = IF view.groups = {g} THEN "done" ELSE "groups", !.groups = @ \ {g},
                        !.parts = @ \union IF rows = {} THEN {} ELSE {[repo |-> g.repo, rows |-> rows]}])
NextGroup == CHOOSE g \in view.groups : TRUE
\* the sessions that belong to the repository by now
ReadGroup_Regrouped ==
    /\ view.step = "groups"
    /\ AddGroup(NextGroup, In(RowsOf(SessionsOf(Groups(NextGroup.repo))), view.from, view.until))
ReadGroup ==
    /\ view.step = "groups"
    /\ AddGroup(NextGroup, In(RowsOf(NextGroup.sessions), view.from, view.until))

-----------------------------------------------------------------------------
(* secuarden bom, gate and verify.                                         *)

WindowRecords == Provenance({row \in log : row.columns.time >= clock - Window})

StartExport ==
    /\ view = Idle
    /\ Become([Begin("bom") EXCEPT !.step = "rows", !.records = WindowRecords])

StartGate == view = Idle /\ Become([Begin("gate") EXCEPT !.step = "rows"])

StartVerify(scope) ==
    /\ view = Idle
    /\ Become([Begin("verify") EXCEPT !.step = "rows", !.scope = scope, !.groups = Groups(scope)])

\* verifyIntegrity walks every row, or those of the sessions that were matched ...
Checked == IF view.scope = All THEN Sessions ELSE SessionsOf(view.groups)
VerifyRows ==
    /\ view.step = "rows"
    /\ Become([view EXCEPT !.step = "sessions", !.rows = RowsOf(Checked), !.findings = Findings(RowsOf(Checked))])

Status(rows, known, findings) ==
    IF rows = {} /\ known = {} THEN "no_records"
    ELSE IF findings = {} THEN "verified" ELSE "failed"

\* ... and then the sessions
VerifySessions ==
    /\ view.step = "sessions"
    /\ LET unhashed == {s \in Known \intersect Checked : ~sessions[s].hashed}
           findings == view.findings \union {f \in {"legacy_session"} : unhashed # {}}
           ends(verdict) == Become([view EXCEPT !.step = "done", !.findings = findings, !.verdict = verdict])
       IN \/ view.command = "bom" /\ ends(IF findings = {} THEN "exported" ELSE "refused")
          \/ /\ view.command = "verify"
             /\ ends(Status(view.rows, Known \intersect Checked, findings))
          \/ view.command = "gate" /\ findings # {} /\ ends("blocked")
          \/ view.command = "gate" /\ findings = {} /\ Become([view EXCEPT !.step = "list"])

\* the gate looks at the changes of the window after it has verified the chains
ListRecords ==
    /\ view.step = "list"
    /\ Become([view EXCEPT !.step = "done", !.from = clock - Window, !.records = WindowRecords,
                 !.verdict = IF \E record \in WindowRecords : Rank(record) >= Threshold
                             THEN "blocked" ELSE "passed"])

\* The page stays open behind a list.
Leave ==
    \/ view.step = "drilled" /\ Become([view EXCEPT !.step = "page", !.drill = "none", !.of = All, !.listed = {}])
    \/ view.step \in {"page", "done"} /\ Become(Idle)

-----------------------------------------------------------------------------
Init ==
    /\ log \in OldTables
    /\ \E hashed \in BOOLEAN :
         sessions = [s \in Sessions |-> IF \E row \in log : row.columns.session = s
                                        THEN [known |-> TRUE, repo |-> LocalRepo[s], hashed |-> hashed]
                                        ELSE Unknown]
    /\ clock = Cardinality(log)
    /\ written = log
    /\ damages = 0
    /\ view = Idle

Hooks ==
    \/ \E s \in Sessions :
         \/ Ensure(s)
         \/ \E repo \in Repos : Identify(s, repo)
         \/ \E report \in Reports, lag \in Lags : Capture(s, report, lag)
    \/ NewDay
    \/ \E row \in log : Damage(row)

\* A result that is looked at changes no more, and no step of a hook reads it: the
\* hooks' next step is taken after it is left.
Next ==
    \/ view.step \notin {"drilled", "done"} /\ Hooks
    \/ damages = 0 /\ (StartOverview \/ \E scope \in Repos \union {All} : StartReport(scope))
    \/ ReadRecent
    \/ \E drill \in Drills \ {"file"} : Drill(drill, All)
    \/ \E p \in Paths : Drill("file", p)
    \/ \E s \in Sessions : Investigate(s)
    \/ \E scope \in Repos \union {All} : StartVerify(scope)
    \/ ReadTotals \/ ReadGroup
    \/ StartExport \/ StartGate
    \/ VerifyRows \/ VerifySessions \/ ListRecords
    \/ Leave

Spec == Init /\ [][Next]_vars

-----------------------------------------------------------------------------
Undamaged == damages = 0
Unwritten == clock = view.clock

\* The rows behind a figure that the page shows.
Counted(drill, p, rows) ==
    CASE drill = "all"      -> rows
      [] drill = "commands" -> Those(rows, Command)
      [] drill = "errors"   -> Errors(rows)
      [] drill = "file"     -> ChangesOf(rows, p)
      [] drill = "changes"  -> {row \in rows : AppliedPaths(row.columns) # {}}

\* A figure of the dashboard and the list behind it are two requests, computed
\* by Go code and by SQL, maybe on two sides of midnight: every event that was
\* counted is listed, up to the limit, and if nothing was captured in between no
\* other is, but for a change whose paths are not known.
DrillCovers ==
    view.step = "drilled" /\ view.drill # "session" /\ Undamaged =>
      LET counted == Counted(view.drill, view.of, view.rows) IN
      /\ Cardinality(view.listed) < Limit => counted \subseteq view.listed
      /\ Unwritten => view.listed \ counted \subseteq
                        {row \in view.listed : view.drill = "changes" /\ AppliedPaths(row.columns) = {}}

\* A session is summarised by SQL on the page and by Go code where it is asked for by
\* id (GET /api/sessions/{id} and `secuarden session`): it has no fewer events, changed
\* paths and warnings than the page said, and exactly those if nothing was captured in
\* between.
SessionFiguresAgree ==
    view.step = "drilled" /\ view.drill = "session" /\ Undamaged =>
      LET recent == view.recent[view.of]
          opened == [events |-> Cardinality(view.listed), files |-> Cardinality(ChangedPaths(view.listed)),
                     warnings |-> Cardinality({row \in view.listed : FindingKinds(row.columns) # {}})]
      IN /\ \A figure \in DOMAIN opened : recent[figure] <= opened[figure]
         /\ Unwritten => recent = opened

\* A report over all repositories is read in one query for its totals and one
\* per repository, while sessions are captured and change repository: every event
\* in the totals is in one repository's part, and no event is in two.
GroupsCoverTotals ==
    view.command = "report" /\ view.step = "done" /\ view.scope = All /\ Undamaged =>
      /\ \A row \in view.rows : \E part \in view.parts : row \in part.rows
      /\ \A part, other \in view.parts : part.repo # other.repo => part.rows \intersect other.rows = {}
      /\ Unwritten => UNION {part.rows : part \in view.parts} = view.rows

\* A change whose paths could not be read, or to a sensitive path, holds up the
\* gate: when it passes, no such change that it verified is in its window.
Grave(c) ==
    /\ ConfirmedChange(c)
    /\ \/ c.tool = "apply_patch" /\ c.file = NoPath
       \/ AppliedPaths(c) \intersect SensitivePaths # {}
UnreadIsNoticed ==
    view.verdict = "passed" /\ Undamaged =>
      \A row \in view.rows \intersect log : row.columns.time >= view.from => ~Grave(row.columns)

\* A verdict that the trail is sound is about rows as the store wrote them, and
\* an exported bill of materials has only records of such rows, although the
\* records were read before the chains were walked.
VerdictHolds ==
    view.verdict \in {"exported", "passed", "verified"} =>
      /\ view.rows \subseteq written
      /\ view.command = "bom" => {record.row : record \in view.records} \subseteq written
=============================================================================
