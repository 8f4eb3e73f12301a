------------------------------ MODULE Checkpoint ------------------------------
(***************************************************************************)
(* Repository checkpoints: what a capture hook records of the worktree and *)
(* how it decides which file states it may associate with the agent        *)
(* (internal/repository/checkpoint.go, internal/capture/checkpoint.go).    *)
(*                                                                         *)
(* A scan is data: the files it enumerated, each with a content digest and *)
(* its Git bookkeeping (index entry, staged, unstaged and untracked flags, *)
(* together one opaque value in Metas).  Nothing here keeps state; the     *)
(* module that interleaves hooks is CaptureStore.  An operator             *)
(* Name_Variant is a mutated form of Name, which nothing here uses.        *)
(***************************************************************************)
EXTENDS Naturals

CONSTANTS Files,      \* repository-relative paths
          Digests,    \* SHA-256 values of regular file contents
          Metas,      \* index entry, staged, unstaged and untracked, as one value
          DirtyMetas, \* the members of Metas with a staged, unstaged or untracked flag
          Roots,      \* worktree roots a hook may run in
          Heads,      \* commits HEAD may resolve to
          Tools, Invocations, \* tool names and tool_use_ids
          Nothing     \* the empty string: no digest, no metadata, no root, no id

ASSUME CheckpointAssumption ==
    /\ DirtyMetas \subseteq Metas
    /\ Nothing \notin Digests \union Metas \union Roots \union Heads
    /\ Nothing \notin Tools \union Invocations

Phases == {"session_start", "pre", "post", "intent", "checkpoint", "session_end"}
CheckpointedPhases == Phases \ {"intent"}

Attributions == {"agent_associated", "human_or_unattributed", "pre_existing", "unchanged"}

\* Every status but the Readable ones also makes the scan partial.
Statuses == {"present", "deleted", "unreadable", "unstable",
             "omitted_limit", "omitted_unsafe_path", "omitted_nonregular"}
Readable == {"present", "deleted"}

Observation ==
    [status : Statuses,
     digest : Digests \union {Nothing}, meta : Metas]

FileState ==
    [status : Statuses \union {"absent_from_capture_set"},
     digest : Digests \union {Nothing}, meta : Metas \union {Nothing},
     attribution : Attributions]

\* Maps from the files a scan enumerated to S.
Listing(S) == UNION {[F -> S] : F \in SUBSET Files}

\* One run of git and of the digest loop.  "failed" is a scan that found no
\* worktree; enumerated is FALSE when git status or git ls-files failed.
Scan ==
    [status : {"complete", "partial", "failed"}, enumerated : BOOLEAN,
     root : Roots \union {Nothing}, head : Heads \union {Nothing},
     files : Listing(Observation)]

\* "absent" is the null checkpoint of an event that takes none.
CheckpointRecord ==
    [status : {"complete", "partial", "failed", "absent"}, previous : Nat,
     root : Roots \union {Nothing}, head : Heads \union {Nothing},
     files : Listing(FileState)]

NoCheckpoint ==
    [status |-> "absent", previous |-> 0, root |-> Nothing, head |-> Nothing,
     files |-> [f \in {} |-> Nothing]]

\* What an event says of itself, and the view of an earlier event that
\* CheckpointContext returns: the same fields with its stored checkpoint.
Attributes ==
    [phase : Phases, invocation : Invocations \union {Nothing},
     tool : Tools \union {Nothing}, success : BOOLEAN, writes : BOOLEAN,
     targets : SUBSET Files]

Unchanged_IgnoringDigest(x, y) == x.status = y.status /\ x.meta = y.meta
Unchanged(x, y) == x.digest = y.digest /\ x.status = y.status /\ x.meta = y.meta

-----------------------------------------------------------------------------
(***************************************************************************)
(* addCheckpoint.  a: the attributes of the event; prior: "none" or the    *)
(* latest stored event as read; baseline likewise the first session_start; *)
(* historyFailed: CheckpointContext returned an error.                     *)
(***************************************************************************)
NoHistory == [stored |-> FALSE, sequence |-> 0, phase |-> "checkpoint",
              invocation |-> Nothing, tool |-> Nothing, checkpoint |-> NoCheckpoint]

HasCheckpoint(view) == view.stored /\ view.checkpoint.status # "absent"

FirstOfSession(a, prior, historyFailed) ==
    a.phase = "session_start" /\ ~prior.stored /\ ~historyFailed

MatchingPre(a, prior) ==
    /\ a.phase = "post" /\ prior.phase = "pre"
    /\ a.invocation # Nothing
    /\ prior.invocation = a.invocation /\ prior.tool = a.tool

\* Some reason beyond the scan itself makes this checkpoint partial.
Uncertain(a, scan, baseline, prior, historyFailed) ==
    \/ historyFailed
    \/ ~FirstOfSession(a, prior, historyFailed) /\ ~HasCheckpoint(baseline)
    \/ HasCheckpoint(baseline) /\ \/ baseline.checkpoint.status # "complete"
                                  \/ baseline.checkpoint.root # scan.root
    \/ a.phase = "post" /\ ~(HasCheckpoint(prior) /\ MatchingPre(a, prior))

CheckpointStatus(a, scan, baseline, prior, historyFailed) ==
    IF scan.status = "complete" /\ Uncertain(a, scan, baseline, prior, historyFailed)
      THEN "partial" ELSE scan.status

\* The files of the predecessor this scan can be compared with.
Before(scan, prior) ==
    IF HasCheckpoint(prior) /\ prior.checkpoint.root = scan.root
      THEN prior.checkpoint.files ELSE NoCheckpoint.files

\* What the scan saw, and an absence entry for each path it no longer lists.
Seen(scan, old) ==
    LET gone == IF scan.enumerated /\ scan.status # "failed"
                  THEN DOMAIN old \ DOMAIN scan.files ELSE {}
    IN [f \in DOMAIN scan.files \union gone |->
          IF f \in DOMAIN scan.files THEN scan.files[f]
          ELSE [status |-> "absent_from_capture_set", digest |-> Nothing, meta |-> Nothing]]

\* A post event whose predecessor is its own pre event, both complete, of a
\* successful write to or deletion of a file, with HEAD unmoved in between.
Paired(a, status, scan, prior) ==
    /\ status = "complete" /\ HasCheckpoint(prior)
    /\ prior.checkpoint.status = "complete"
    /\ prior.checkpoint.root = scan.root /\ prior.checkpoint.head = scan.head
    /\ MatchingPre(a, prior) /\ a.success /\ a.writes

Changed(f, new, old) ==
    /\ new.status \in Readable
    /\ f \notin DOMAIN old \/ /\ old[f].status \in Readable
                              /\ new.digest # old[f].digest \/ new.status # old[f].status

Attribution(a, f, new, old, first, paired) ==
    IF first THEN IF new.meta \in DirtyMetas THEN "pre_existing" ELSE "unchanged"
    ELSE IF f \in DOMAIN old /\ Unchanged(new, old[f]) THEN old[f].attribution
    ELSE IF paired /\ f \in a.targets /\ Changed(f, new, old) THEN "agent_associated"
    ELSE "human_or_unattributed"

BuildCheckpoint(a, scan, baseline, prior, historyFailed) ==
    LET status == CheckpointStatus(a, scan, baseline, prior, historyFailed)
        old    == Before(scan, prior)
        seen   == Seen(scan, old)
        first  == FirstOfSession(a, prior, historyFailed)
        paired == Paired(a, status, scan, prior)
    IN [status |-> status, previous |-> prior.sequence,
        root |-> scan.root, head |-> scan.head,
        files |-> [f \in DOMAIN seen |->
          [status |-> seen[f].status, digest |-> seen[f].digest, meta |-> seen[f].meta,
           attribution |-> Attribution(a, f, seen[f], old, first, paired)]]]

Downgrade_StatusOnly(c) == [c EXCEPT !.status = "partial"]

\* WriteEvent, when another event took the place of the predecessor.
Downgrade(c) ==
    [c EXCEPT !.status = "partial",
              !.files = [f \in DOMAIN c.files |->
                IF c.files[f].attribution = "agent_associated"
                  THEN [c.files[f] EXCEPT !.attribution = "human_or_unattributed"]
                  ELSE c.files[f]]]

\* One attributed change: the pre event p and the post event c enclose it.
AttributedChange(a, f, p, c) ==
    /\ Paired(a, c.status, c, p)
    /\ f \in a.targets /\ Changed(f, c.files[f], p.checkpoint.files)
=============================================================================
