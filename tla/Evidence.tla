------------------------------- MODULE Evidence -------------------------------
(***************************************************************************)
(* What the capture hook makes of an agent's report (internal/events,      *)
(* internal/capture/handler.go), how a stored event is hashed and verified *)
(* (internal/storage/database.go), and how a set of events is counted      *)
(* (internal/storage/activity.go, dashboard.go, internal/risk/risk.go).    *)
(*                                                                         *)
(* Everything here is a function of its arguments; ActivityViews keeps the *)
(* state.  A report is a hook's input: its tool's response is a shape with *)
(* the outcome signals found in each block; the text of a patch is a       *)
(* sequence of sections.  A digest is the tuple of what it is computed     *)
(* from.  The rows of a table are a set: within a session no two have the  *)
(* same sequence.  An operator Name_Variant is a mutated form of Name,     *)
(* which nothing here uses.                                                *)
(***************************************************************************)
EXTENDS Integers, Sequences, FiniteSets, SequencesExt, FiniteSetsExt

CONSTANTS Sessions,       \* session ids, as numbers in their order
          Paths,          \* paths a tool input may name
          SensitivePaths, \* those IsSensitivePath matches
          Points,         \* [Paths -> Int]: what the tokens of a path add to its risk
          NoPath          \* the empty string

ASSUME EvidenceAssumption ==
    /\ Sessions \subseteq Nat
    /\ SensitivePaths \subseteq Paths
    /\ Points \in [Paths -> Int] /\ \A p \in Paths : Points[p] >= -15
    /\ NoPath \notin Paths

Agents   == {"claude-code", "codex"}
Phases   == {"session_start", "pre", "post", "intent", "checkpoint", "session_end"}
Tools    == {"Read", "Edit", "Bash", "mcp", "apply_patch", "none"}
\* error: an error value; exit: a nonzero exit code; flag: success, ok, isError
\* or status says failure; good: exit code 0, or one of those says success
Signals  == {"error", "exit", "flag", "good"}
Section  == [kind: {"add", "update", "delete", "other"}, path: Paths, to: Paths \union {NoPath},
             body: BOOLEAN, changes: BOOLEAN]
Report   == [agent: Agents, phase: Phases, tool: Tools, id: BOOLEAN,
             shape: {"none", "text", "object", "array"}, blocks: Seq(SUBSET Signals),
             decision: {"none", "allow", "deny", "other"}, path: Paths \union {NoPath},
             patch: Seq(Section)]

-----------------------------------------------------------------------------
(* The agent's words become the event's.                                   *)

IsPatch(r) == r.agent = "codex" /\ r.tool = "apply_patch"

ToolAction(r) ==
    CASE r.tool = "Read"                -> "file_read"
      [] r.tool = "Edit" \/ IsPatch(r)  -> "file_write"
      [] r.tool = "Bash"                -> "command_exec"
      [] r.tool = "mcp"                 -> "mcp_tool_use"
      [] OTHER                          -> "unknown"
ActionOf(r) ==
    CASE r.phase \in {"session_start", "session_end"} -> r.phase
      [] r.phase = "intent"             -> "developer_intent"
      [] r.phase = "checkpoint"         -> "notification"
      [] OTHER                          -> ToolAction(r)

\* Claude Code: an error value or a nonzero exit code; any other object, and
\* every array of content blocks, is a success; a scalar is not kept at all
ClaudeResult(r) ==
    CASE r.shape \in {"none", "text"} -> ""
      [] r.shape = "object" /\ Head(r.blocks) \cap {"error", "exit"} # {} -> "error"
      [] OTHER -> "success"

Bad(block) == block \cap {"error", "exit", "flag"} # {}

\* Codex: only explicit signals; one bad block decides an array, and it is a
\* success only if every block says so
CodexResult(r) ==
    LET blocks == ToSet(r.blocks) IN
    IF r.shape \in {"none", "text"} THEN "unknown"
    ELSE IF \E b \in blocks : Bad(b) THEN "error"
    ELSE IF blocks # {} /\ \A b \in blocks : "good" \in b THEN "success" ELSE "unknown"

ResultOf(r) ==
    IF r.phase # "post" THEN ""
    ELSE IF r.agent = "codex" THEN CodexResult(r) ELSE ClaudeResult(r)

\* the exit code is taken from an object only
NonzeroExit(r) == r.shape = "object" /\ "exit" \in Head(r.blocks)

\* a decision that is not understood is a denial
Permission(r) ==
    CASE r.decision = "none"  -> ""
      [] r.decision = "allow" -> "allowed"
      [] OTHER                -> "denied"

\* outcome, permission and execution of a phase and its result
ForPhase(phase, result) ==
    CASE phase = "pre"                            -> <<"pending", "unknown", "not_started">>
      [] phase = "post" /\ result = "error"       -> <<"error", "unknown", "failed">>
      [] phase = "post" /\ result = "unknown"     -> <<"unknown", "unknown", "unknown">>
      [] phase = "post" /\ result \in {"", "success"} -> <<"success", "unknown", "completed">>
      [] OTHER                                    -> <<"success", "not_applicable", "completed">>

\* a decision the agent reports replaces the permission; a denied action is
\* rejected and has not started, whatever its result
Outcome(r) ==
    LET of == ForPhase(r.phase, ResultOf(r)) IN
    CASE Permission(r) = "denied" -> <<"rejected", "denied", "not_started">>
      [] Permission(r) = ""       -> of
      [] OTHER                    -> <<of[1], Permission(r), of[3]>>

\* ParseApplyPatch: every section is complete; a section that moves its file
\* stands for two paths
Complete(section) ==
    CASE section.kind = "add"    -> section.body
      [] section.kind = "update" -> section.changes \/ section.to # NoPath
      [] section.kind = "delete" -> ~section.body
      [] OTHER                   -> FALSE
PathsOf(section) == IF section.to = NoPath THEN <<section.path>> ELSE <<section.path, section.to>>

PatchLimited(r) ==
    IsPatch(r) /\ (r.patch = <<>> \/ \E i \in DOMAIN r.patch : ~Complete(r.patch[i]))

FilesOf(r) ==
    IF IsPatch(r) /\ ~PatchLimited(r)
    THEN FlattenSeq([i \in DOMAIN r.patch |-> PathsOf(r.patch[i])]) ELSE <<>>
FileOf(r) ==
    IF ~IsPatch(r) THEN r.path ELSE IF FilesOf(r) = <<>> THEN NoPath ELSE Head(FilesOf(r))
IsSensitive(r) ==
    PatchLimited(r) \/ ({FileOf(r)} \union ToSet(FilesOf(r))) \cap SensitivePaths # {}

Reasons(r) ==
    {reason \in {"patch_parse_failed", "adapter_field_unavailable", "missing_invocation_id"} :
        \/ reason = "patch_parse_failed" /\ PatchLimited(r)
        \/ /\ reason = "adapter_field_unavailable"
           /\ r.agent = "codex" /\ r.phase = "post" /\ ResultOf(r) = "unknown"
        \/ reason = "missing_invocation_id" /\ r.phase \in {"pre", "post"} /\ ~r.id}

\* the columns of the event that report r makes in session s at time t
Columns(r, s, t) ==
    LET of == Outcome(r) IN
    [session |-> s, time |-> t, agent |-> r.agent, phase |-> r.phase, tool |-> r.tool, action |-> ActionOf(r),
     result |-> ResultOf(r), outcome |-> of[1], permission |-> of[2], execution |-> of[3],
     partial |-> Reasons(r) # {}, sensitive |-> IsSensitive(r), exit |-> NonzeroExit(r),
     file |-> FileOf(r), files |-> FilesOf(r),
     checkpoint |-> r.phase # "intent", collector |-> FALSE]

-----------------------------------------------------------------------------
(* Stored rows, their digests, and their verification.                     *)

NoHash   == <<>>
HashFormats == {"v3", "v4", "v5"}

\* the digest of a row under the format its prefix names: v3 covers the
\* scalar columns, v4 the affected files too, v5 also the checkpoint; a v4
\* digest of a row with collector details covers those, but not the files
Digest(prefix, previous, row) ==
    LET c == row.columns
        collector == prefix = "v4" /\ c.collector
    IN <<IF prefix = "v5" /\ ~c.checkpoint THEN "v4" ELSE prefix, previous, row.sequence,
         [c EXCEPT !.files = IF prefix = "v3" \/ collector THEN <<>> ELSE @,
                   !.checkpoint = prefix = "v5" /\ @, !.collector = collector]>>

OfSession(rows, s) == {r \in rows : r.columns.session = s}
Before(rows, row) == {r \in OfSession(rows, row.columns.session) : r.sequence < row.sequence}
\* the stored hash of the last of rows
LastHash(rows) ==
    IF rows = {} THEN NoHash
    ELSE (CHOOSE r \in rows : \A q \in rows : q.sequence <= r.sequence).hash

\* the row WriteEvent adds to a table
NewRow(rows, c) ==
    LET own == OfSession(rows, c.session)
        row == [columns |-> c, previous |-> LastHash(own), hash |-> NoHash,
                sequence |-> 1 + Max({0} \union {r.sequence : r \in own})]
    IN [row EXCEPT !.hash = Digest("v5", row.previous, row)]

PrefixOf(row) == IF row.hash = NoHash THEN "" ELSE row.hash[1]

\* what a digest of this format does not cover, though the row has it
Unprotected(row) ==
    LET c == row.columns
        collector == PrefixOf(row) = "v4" /\ c.collector
    IN \/ c.collector /\ ~collector
       \/ c.files # <<>> /\ (collector \/ PrefixOf(row) = "v3")
       \/ c.checkpoint /\ PrefixOf(row) # "v5"

\* what verifyIntegrity finds at a row of the rows it walks
RowFindings_OwnLink(rows, row) ==
    IF PrefixOf(row) \notin HashFormats THEN {"legacy_event"}
    ELSE IF row.hash = Digest(PrefixOf(row), row.previous, row) THEN {} ELSE {"event_hash_mismatch"}
RowFindings(rows, row) ==
    LET expected == LastHash(Before(rows, row)) IN
    IF PrefixOf(row) \notin HashFormats THEN {"legacy_event"} ELSE
    {finding \in {"broken_chain", "event_hash_mismatch", "unprotected_metadata"} :
        \/ finding = "broken_chain" /\ row.previous # expected
        \/ finding = "event_hash_mismatch" /\ row.hash # Digest(PrefixOf(row), expected, row)
        \/ finding = "unprotected_metadata" /\ Unprotected(row)}

Findings(rows) == UNION {RowFindings(rows, row) : row \in rows}

-----------------------------------------------------------------------------
(* Counting.  Each figure exists twice in the code: as SQL over the events *)
(* table, and in Go over the rows that a query has returned.               *)

Writes == {"file_write", "file_delete"}
Failed == {"error", "failed", "failure"}

\* confirmedFileChangeSQL
ConfirmedChange(c) ==
    c.action \in Writes /\ c.phase = "post" /\ c.outcome = "success" /\ c.execution = "completed"

\* appliedFilePaths
AppliedPaths(c) ==
    IF \/ c.phase # "post" \/ c.action \notin Writes
       \/ c.outcome # "success" \/ c.execution # "completed" THEN {}
    ELSE IF c.files # <<>> THEN ToSet(c.files) ELSE {c.file} \ {NoPath}

\* dashboardFailureSQL
FailureRow_ByOutcome(c) == c.outcome \in {"error", "blocked", "rejected"}
FailureRow(c) ==
    c.result \in Failed \union {"blocked", "rejected"} \/ c.outcome = "error" \/ c.execution = "failed" \/ c.exit

CommandOutcome(c) ==
    IF c.exit \/ c.outcome = "error" \/ c.execution = "failed" \/ c.result \in Failed THEN "error"
    ELSE IF c.outcome = "success" /\ c.execution = "completed" THEN "success" ELSE "unknown"

SensitiveAccess(c) == c.sensitive /\ c.phase # "pre"
Command(c) == c.action = "command_exec" /\ c.phase # "pre"

\* findingsForEvent
FindingKinds(c) ==
    LET failure ==
          CASE c.result = "blocked"  -> {"blocked_action"}
            [] c.result = "rejected" -> {"rejected_action"}
            [] c.result \in Failed \/ (c.exit /\ c.result \notin {"blocked", "rejected"}) ->
                  {IF c.action = "command_exec" THEN "failed_command" ELSE "failed_action"}
            [] OTHER -> {}
    IN failure \union {kind \in {"sensitive_access"} : SensitiveAccess(c)}

Those(rows, Test(_)) == {row \in rows : Test(row.columns)}
ChangedPaths(rows) == UNION {AppliedPaths(row.columns) : row \in rows}

\* the page's figures: GetStatusSummary's counts and buildDashboardStats
Errors(rows) ==
    {row \in rows : \/ row.columns.result \in {"blocked", "rejected"}
                    \/ CommandOutcome(row.columns) = "error"}
ChangesOf(rows, p) == {row \in rows : p \in AppliedPaths(row.columns)}

\* the subqueries of the recent sessions: distinct paths, and warnings
RecentFiles_PerEvent(rows) == MapThenSumSet(LAMBDA row : Cardinality(AppliedPaths(row.columns)), rows)
RecentFiles(rows) ==
    Cardinality((UNION {IF row.columns.files = <<>> THEN {row.columns.file} ELSE ToSet(row.columns.files) :
                          row \in Those(rows, ConfirmedChange)}) \ {NoPath})
Warning(c) ==
    \/ SensitiveAccess(c)
    \/ c.result \in Failed \union {"blocked", "rejected"}
    \/ c.action = "command_exec" /\ c.exit

-----------------------------------------------------------------------------
(* Provenance and risk.                                                    *)

\* ListWriteProvenance: a record for each path of each confirmed write, and
\* one without a path where the event has none
Provenance_WithPath(rows) ==
    UNION {{[row |-> row, path |-> p, sensitive |-> p \in SensitivePaths] : p \in AppliedPaths(row.columns)} :
             row \in rows}
Provenance(rows) ==
    UNION {LET c == row.columns IN
           IF c.files = <<>> THEN {[row |-> row, path |-> c.file, sensitive |-> c.sensitive]}
           ELSE {[row |-> row, path |-> p, sensitive |-> p \in SensitivePaths] : p \in ToSet(c.files)} :
             row \in {r \in Those(rows, ConfirmedChange) : r.columns.action = "file_write"}}

\* Assess, and the gate's ranks
Score(record) ==
    LET points == (IF record.sensitive THEN 70 ELSE 0)
                  + (IF record.path = NoPath THEN 0 ELSE Points[record.path])
    IN Max({0, Min({100, points})})
Rank(record) ==
    Cardinality({bound \in {0, 20, 45, 70} : Score(record) >= bound})
=============================================================================
