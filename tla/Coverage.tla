-------------------------------- MODULE Coverage --------------------------------
(***************************************************************************)
(* What the ledger says of a change from its observations, checkpoints and *)
(* scopes (internal/changeledger/observation_coverage.go), as operators on *)
(* data.                                                                   *)
(*                                                                         *)
(* An observation is a record                                              *)
(*   id, logical      its key, and the event that it claims to report      *)
(*   session, cwd, repository, event, call, process                        *)
(*   received, occurred, source   its times; source: occurred is from the  *)
(*                    agent, otherwise it is received                      *)
(*   sequence         a number from the agent, or NoSequence               *)
(*   gaps             what Normalize reported                              *)
(* Instants are natural numbers.  A ledger is a record of a set of         *)
(* observations, the checkpoints, a window for each session that is in     *)
(* scope, the rows of codex_deliveries and the stored gaps.                *)
(***************************************************************************)
EXTENDS Integers, FiniteSetsExt

CONSTANTS Change,       \* [repository, base, head], a revision being a commit and its tree
          NoWindow, NoCall, NoProcess, NoSession, NoRepository

NoSequence == -1

ASSUME CoverageAssumption == DOMAIN Change = {"repository", "base", "head"}

Scoped(L) == {s \in DOMAIN L.scopes : L.scopes[s] # NoWindow}
Ours(L, s) == {o \in L.observations : o.session = s}

\* sort.Slice: by receipt, then by id.
Earlier(o, p) == o.received < p.received \/ (o.received = p.received /\ o.id < p.id)

Conflicting(L, o) == \E p \in Ours(L, o.session) : p # o /\ p.logical = o.logical
Within(o, window) == window.since <= o.occurred /\ o.occurred <= window.until

Eligible(L, o) ==
    /\ o.repository = Change.repository
    /\ Within(o, L.scopes[o.session])
    /\ ~Conflicting(L, o)

Matching(L, s) == {o \in Ours(L, s) : Eligible(L, o)}

-----------------------------------------------------------------------------
\* Links

\* insideRoot is the field inside: the directories below the checkpoint's root.
Bracket(L, o) ==
    {c \in L.checkpoints : /\ c.session = o.session
                           /\ c.repository = Change.repository /\ o.cwd \in c.inside}

BaseSeen(L, o) ==
    \E c \in Bracket(L, o) :
        c.kind = "start" /\ c.revision = Change.base /\ c.at <= o.occurred

\* The last end checkpoint of the session decides.
HeadSeen_Last(L, o) ==
    \E c \in Bracket(L, o) :
        /\ c.kind = "end" /\ c.revision = Change.head /\ o.occurred <= c.at
        /\ \A b \in Bracket(L, o) : b.kind = "end" => b.at <= c.at

HeadSeen(L, o) ==
    \E c \in Bracket(L, o) :
        c.kind = "end" /\ c.revision = Change.head /\ o.occurred <= c.at

Confidence(L, o) ==
    IF ~Eligible(L, o) THEN "unmatched"
    ELSE IF ~(BaseSeen(L, o) /\ HeadSeen(L, o)) THEN "low"
    ELSE IF o.source /\ "clock_skew" \notin o.gaps THEN "high"
    ELSE "medium"

Links(L) ==
    {[observation |-> o.id, confidence |-> Confidence(L, o)] :
        o \in {p \in L.observations : p.session \in Scoped(L)}}

-----------------------------------------------------------------------------
\* Reasons, as pairs of a code and a session

Before(L, o) == {p \in Matching(L, o.session) : Earlier(p, o)}
Numbered(S) == {p \in S : p.sequence # NoSequence}
Highest(S) == Max({p.sequence : p \in S})

\* One number may be missing.
Jumps_OverOne(L, o) ==
    LET earlier == Numbered(Before(L, o)) IN
    /\ o.sequence # NoSequence /\ earlier # {}
    /\ o.sequence > Highest(earlier) + 2

\* The numbers received before o do not reach the one below o's.
Jumps(L, o) ==
    LET earlier == Numbered(Before(L, o)) IN
    /\ o.sequence # NoSequence /\ earlier # {}
    /\ o.sequence > Highest(earlier) + 1

Calls(S, event) == {o.call : o \in {p \in S : p.event = event /\ p.call # NoCall}}

\* o was received after something that the agent says came later.
OutOfOrder(L, o) ==
    \/ o.source /\ \E p \in Before(L, o) : p.source /\ o.occurred < p.occurred
    \/ o.sequence # NoSequence /\ \E p \in Numbered(Before(L, o)) : o.sequence < p.sequence
    \/ /\ o.event = "PostToolUse" /\ o.call # NoCall
       /\ o.call \notin Calls(Before(L, o), "PreToolUse")

SessionCodes(L, s) ==
    LET all == Ours(L, s)
        matching == Matching(L, s)
        pre == Calls(matching, "PreToolUse")
        post == Calls(matching, "PostToolUse")
        repeated == {d \in L.deliveries : d.disposition = "duplicate"
                                            /\ \E o \in all : d.observation = o.id}
        applies == [
            conflicting_delivery  |-> \E o \in all : Conflicting(L, o),
            checkpoint_evidence_missing |->
                \E o \in matching : ~(BaseSeen(L, o) /\ HeadSeen(L, o)),
            out_of_order          |-> \E o \in matching : OutOfOrder(L, o),
            sequence_gap          |-> \E o \in matching : Jumps(L, o),
            unmatched_observations |-> matching # all,
            duplicate_delivery    |-> repeated # {},
            missed_start          |-> \A o \in matching : o.event # "SessionStart",
            missed_end            |-> \A o \in matching : o.event # "SessionEnd",
            process_restart       |->
                Cardinality({o.process : o \in matching} \ {NoProcess}) > 1,
            missing_tool_result   |-> pre \ post # {},
            missing_tool_start    |-> post \ pre # {}] IN
    {code \in DOMAIN applies : applies[code]} \union UNION {o.gaps : o \in all}

\* Observations of a session that no scope names, but perhaps of this repository.
Strangers(L) ==
    {o \in L.observations : /\ o.session \notin Scoped(L)
                            /\ o.repository \in {Change.repository, NoRepository}}

Reasons(L) ==
    LET matched == \E s \in Scoped(L) : Matching(L, s) # {} IN
    UNION {{[code |-> c, session |-> s] : c \in SessionCodes(L, s)} : s \in Scoped(L)}
    \union {[code |-> "unmatched_observations", session |-> o.session] : o \in Strangers(L)}
    \union {g \in L.gaps : g.session \in Scoped(L) \union {NoSession}}
    \union {[code |-> c, session |-> NoSession] :
              c \in {"coverage_not_proven"}
                    \union (IF matched THEN {} ELSE {"no_matching_observations"})
                    \union (IF Scoped(L) = {} THEN {"change_scope_missing"} ELSE {})}

-----------------------------------------------------------------------------
\* Coverage

\* deliveryCounts, over the observations of the sessions in scope.
Counted(L, disposition) ==
    Cardinality({d \in L.deliveries :
        /\ d.disposition = disposition
        /\ \E o \in L.observations : o.id = d.observation /\ o.session \in Scoped(L)})

Matched(L) == UNION {Matching(L, s) : s \in Scoped(L)}

CoverageOf(L) == [
    state      |-> IF Matched(L) = {} THEN "unobserved" ELSE "partial",
    scopes     |-> L.scopes,
    links      |-> Links(L),
    matched    |-> Cardinality(Matched(L)),
    unmatched  |-> Cardinality(Strangers(L)) + Cardinality(Links(L)) - Cardinality(Matched(L)),
    duplicates |-> Counted(L, "duplicate"),
    conflicts  |-> Counted(L, "conflict"),
    reasons    |-> Reasons(L)]
==================================================================================
