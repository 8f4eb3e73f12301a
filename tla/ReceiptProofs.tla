------------------------------ MODULE ReceiptProofs ------------------------------
(***************************************************************************)
(* What a receipt says of the ledger, for any deliveries, checkpoints,     *)
(* scopes and calls; and what status says of refs and receipts, for any    *)
(* pushes, retries, attempts and failures.                                 *)
(***************************************************************************)
EXTENDS Receipt, ReceiptUpload, FiniteSetTheorems, WellFoundedInduction, TLAPS

-----------------------------------------------------------------------------
\* What the links of a change depend on

\* Two ledgers have the same links if they have the same scopes, and the same
\* observations and checkpoints of the sessions in scope.
LEMMA SameLinks ==
    ASSUME NEW L, NEW M, L.scopes = M.scopes,
           \A o : o.session \in Scoped(L) => (o \in L.observations <=> o \in M.observations),
           \A c : c.session \in Scoped(L) => (c \in L.checkpoints <=> c \in M.checkpoints)
    PROVE  Links(L) = Links(M)
  <1>1. Scoped(L) = Scoped(M)
    BY DEF Scoped
  <1>2. ASSUME NEW o, o.session \in Scoped(L)
        PROVE  Confidence(L, o) = Confidence(M, o)
    <2>1. Ours(L, o.session) = Ours(M, o.session)
      BY <1>2 DEF Ours
    <2>2. Eligible(L, o) <=> Eligible(M, o)
      BY <2>1 DEF Eligible, Conflicting
    <2>3. Bracket(L, o) = Bracket(M, o)
      BY <1>2 DEF Bracket
    <2>4. (BaseSeen(L, o) <=> BaseSeen(M, o)) /\ (HeadSeen(L, o) <=> HeadSeen(M, o))
      BY <2>3 DEF BaseSeen, HeadSeen
    <2>5. QED
      BY <2>2, <2>4 DEF Confidence
  <1>3. {p \in L.observations : p.session \in Scoped(L)}
            = {p \in M.observations : p.session \in Scoped(M)}
    BY <1>1
  <1>4. QED
    BY <1>2, <1>3 DEF Links

\* A jump, or a disorder, of a session in scope is among the reasons.
ReportsGaps(L, reasons) ==
    \A s \in Scoped(L) :
        (\E o \in Matching(L, s) : Jumps(L, o) \/ OutOfOrder(L, o)) =>
            \E code \in {"sequence_gap", "out_of_order"} :
                [code |-> code, session |-> s] \in reasons

\* What these rows say of the change is what the coverage says.
Justifies(L, coverage) == coverage.links = Links(L) /\ ReportsGaps(L, coverage.reasons)

LEMMA SameGaps ==
    ASSUME NEW L, NEW M, NEW reasons, L.scopes = M.scopes,
           \A o : o.session \in Scoped(L) => (o \in L.observations <=> o \in M.observations),
           ReportsGaps(L, reasons)
    PROVE  ReportsGaps(M, reasons)
  <1>1. Scoped(L) = Scoped(M)
    BY DEF Scoped
  <1>2. ASSUME NEW s \in Scoped(L)
        PROVE  Matching(L, s) = Matching(M, s)
    <2>1. Ours(L, s) = Ours(M, s) /\ \A o \in Ours(L, s) : o.session = s
      BY DEF Ours
    <2>2. \A o \in Ours(L, s) : Eligible(L, o) <=> Eligible(M, o)
      BY <2>1 DEF Eligible, Conflicting
    <2>3. QED
      BY <2>1, <2>2 DEF Matching
  <1>3. ASSUME NEW s \in Scoped(L), NEW o \in Matching(L, s)
        PROVE  (Jumps(L, o) <=> Jumps(M, o)) /\ (OutOfOrder(L, o) <=> OutOfOrder(M, o))
    <2>1. o.session = s
      BY DEF Matching, Ours
    <2>2. Before(L, o) = Before(M, o)
      BY <1>2, <2>1 DEF Before
    <2>3. QED
      BY <2>2 DEF Jumps, OutOfOrder
  <1>4. QED
    BY <1>1, <1>2, <1>3 DEF ReportsGaps

LEMMA SameEvidence ==
    ASSUME NEW L, NEW M, NEW coverage, L.scopes = M.scopes,
           \A o : o.session \in Scoped(L) => (o \in L.observations <=> o \in M.observations),
           \A c : c.session \in Scoped(L) => (c \in L.checkpoints <=> c \in M.checkpoints),
           Justifies(L, coverage)
    PROVE  Justifies(M, coverage)
  BY SameLinks, SameGaps DEF Justifies

\* The queries of a receipt leave out what is not in scope, which changes neither.
LEMMA EvidenceOfScopes ==
    ASSUME NEW O, NEW C, NEW coverage, Justifies(RowsOf(O, C, coverage.scopes), coverage)
    PROVE  Justifies(RowsOf(OfScopes(O, coverage), OfScopes(C, coverage), coverage.scopes),
                     coverage)
  <1> DEFINE L == RowsOf(O, C, coverage.scopes)
             M == RowsOf(OfScopes(O, coverage), OfScopes(C, coverage), coverage.scopes)
  <1>1. /\ L.scopes = coverage.scopes /\ L.observations = O /\ L.checkpoints = C
        /\ M.scopes = coverage.scopes /\ M.observations = OfScopes(O, coverage)
        /\ M.checkpoints = OfScopes(C, coverage)
    BY DEF RowsOf
  <1>2. \A x : x.session \in Scoped(L) => coverage.scopes[x.session] # NoWindow
    BY <1>1 DEF Scoped
  <1>3. Justifies(L, coverage)
    OBVIOUS
  <1> HIDE DEF L, M
  <1>4. Justifies(M, coverage)
    BY <1>1, <1>2, <1>3, SameEvidence DEF OfScopes
  <1>5. QED
    BY <1>4 DEF M

\* Coverage says what its ledger justifies, of which only the rows matter.
LEMMA EvidenceOfLedger ==
    ASSUME NEW D, NEW C, NEW S
    PROVE  Justifies(RowsOf(Merged(D), C, S), CoverageOf(LedgerOf(D, C, S)))
  <1> DEFINE L == LedgerOf(D, C, S)
             M == RowsOf(Merged(D), C, S)
  <1>1. L.scopes = M.scopes /\ L.observations = M.observations /\ L.checkpoints = M.checkpoints
    BY DEF LedgerOf, RowsOf
  <1> HIDE DEF L, M
  <1>2. ASSUME NEW s \in Scoped(L), NEW o \in Matching(L, s), Jumps(L, o) \/ OutOfOrder(L, o)
        PROVE  \E code \in {"sequence_gap", "out_of_order"} : code \in SessionCodes(L, s)
    <2>1. CASE Jumps(L, o)
      <3>1. "sequence_gap" \in SessionCodes(L, s)
        BY <2>1 DEF SessionCodes
      <3>2. QED
        BY <3>1
    <2>2. CASE OutOfOrder(L, o)
      <3>1. "out_of_order" \in SessionCodes(L, s)
        BY <2>2 DEF SessionCodes
      <3>2. QED
        BY <3>1
    <2>3. QED
      BY <1>2, <2>1, <2>2
  <1>3. \A s \in Scoped(L) : \A code \in SessionCodes(L, s) :
          [code |-> code, session |-> s] \in Reasons(L)
    <2> DEFINE of(t) == {[code |-> c, session |-> t] : c \in SessionCodes(L, t)}
               sessions == UNION {of(t) : t \in Scoped(L)}
    <2>1. sessions \subseteq Reasons(L)
      BY Zenon DEF Reasons
    <2>2. ASSUME NEW s \in Scoped(L), NEW code \in SessionCodes(L, s)
          PROVE  [code |-> code, session |-> s] \in sessions
      <3>1. [code |-> code, session |-> s] \in of(s)
        BY <2>2
      <3> HIDE DEF of
      <3>2. QED
        BY <2>2, <3>1
    <2>3. QED
      BY <2>1, <2>2
  <1>4. ReportsGaps(L, Reasons(L))
    BY <1>2, <1>3 DEF ReportsGaps
  <1>5. Justifies(L, CoverageOf(L))
    BY <1>4 DEF Justifies, CoverageOf
  <1>6. Justifies(M, CoverageOf(L))
    BY <1>1, <1>5, SameEvidence
  <1>7. QED
    BY <1>6 DEF L, M

-----------------------------------------------------------------------------
\* What a growing ledger does to an earlier observation

\* Deliveries of one input report one event, with one number.
LEMMA OneInput ==
    ASSUME NEW d \in Deliveries, NEW e \in Deliveries, Observed[d].id = Observed[e].id
    PROVE  Observed[d].logical = Observed[e].logical /\ Observed[d].sequence = Observed[e].sequence
  <1>1. \A field \in DOMAIN Observed[d] \ {"received", "occurred"} :
          Observed[d][field] = Observed[e][field]
    BY ReceiptAssumption
  <1>2. {"logical", "sequence"} \subseteq DOMAIN Observed[d] \ {"received", "occurred"}
    BY ReceiptAssumption DEF Fields
  <1>3. QED
    BY <1>1, <1>2

\* Among the observations of one event, only deliveries of that event change anything.
LEMMA SameEvent ==
    ASSUME NEW D \in SUBSET Deliveries, NEW E \in SUBSET Deliveries, D \subseteq E,
           NEW event, event \notin {Observed[d].logical : d \in E \ D},
           NEW p, p.logical = event
    PROVE  p \in Merged(D) <=> p \in Merged(E)
  <1>1. \A e \in E : Observed[e].logical = event => e \in D
    OBVIOUS
  <1>2. ASSUME p \in Merged(D)
        PROVE  p \in Merged(E)
    <2>1. PICK d \in D : p = Observed[d]
      BY <1>2 DEF Merged, First, Reports
    <2>2. ASSUME NEW q \in Inputs(Reports(E), p)
          PROVE  p.received <= q.received
      <3>1. PICK e \in E : q = Observed[e] /\ Observed[e].id = Observed[d].id
        BY <2>1 DEF Inputs, Reports
      <3>2. e \in D
        BY <1>1, <2>1, <3>1, OneInput
      <3>3. q \in Inputs(Reports(D), p)
        BY <2>1, <3>1, <3>2 DEF Inputs, Reports
      <3>4. QED
        BY <1>2, <3>3 DEF Merged, First
    <2>3. p \in Reports(E)
      BY <2>1 DEF Reports
    <2>4. QED
      BY <2>2, <2>3 DEF Merged, First
  <1>3. ASSUME p \in Merged(E)
        PROVE  p \in Merged(D)
    <2>1. PICK e \in E : p = Observed[e]
      BY <1>3 DEF Merged, First, Reports
    <2>2. p \in Reports(D)
      BY <1>1, <2>1 DEF Reports
    <2>3. Inputs(Reports(D), p) \subseteq Inputs(Reports(E), p)
      BY DEF Inputs, Reports
    <2>4. QED
      BY <1>3, <2>2, <2>3 DEF Merged, First
  <1>4. QED
    BY <1>2, <1>3

LEMMA Ranks ==
    /\ Rank("unmatched") = 0 /\ Rank("low") = 1 /\ Rank("medium") = 2 /\ Rank("high") = 3
  BY DEF Rank

LEMMA NeverWeaker ==
    ASSUME NEW D \in SUBSET Deliveries, NEW E \in SUBSET Deliveries, D \subseteq E,
           NEW C, NEW B, C \subseteq B, NEW S,
           NEW o, o.logical \notin {Observed[d].logical : d \in E \ D}
    PROVE  Rank(Confidence(RowsOf(Merged(D), C, S), o))
             <= Rank(Confidence(RowsOf(Merged(E), B, S), o))
  <1> DEFINE L == RowsOf(Merged(D), C, S)
             M == RowsOf(Merged(E), B, S)
  <1>1. /\ L.observations = Merged(D) /\ L.checkpoints = C /\ L.scopes = S
        /\ M.observations = Merged(E) /\ M.checkpoints = B /\ M.scopes = S
    BY DEF RowsOf
  <1> HIDE DEF L, M
  <1>2. \A p : p.logical = o.logical => (p \in L.observations <=> p \in M.observations)
    BY <1>1, SameEvent
  <1>3. Conflicting(L, o) <=> Conflicting(M, o)
    BY <1>2 DEF Conflicting, Ours
  <1>4. Eligible(L, o) <=> Eligible(M, o)
    BY <1>1, <1>3 DEF Eligible
  <1>5. Bracket(L, o) \subseteq Bracket(M, o)
    BY <1>1 DEF Bracket
  <1>6. (BaseSeen(L, o) => BaseSeen(M, o)) /\ (HeadSeen(L, o) => HeadSeen(M, o))
    BY <1>5 DEF BaseSeen, HeadSeen
  <1>7. Rank(Confidence(L, o)) <= Rank(Confidence(M, o))
    <2>1. CASE ~Eligible(L, o)
      BY <1>4, <2>1, Ranks DEF Confidence
    <2>2. CASE Eligible(L, o) /\ ~(BaseSeen(L, o) /\ HeadSeen(L, o))
      BY <1>4, <2>2, Ranks DEF Confidence
    <2>3. CASE Eligible(L, o) /\ BaseSeen(L, o) /\ HeadSeen(L, o)
      BY <1>4, <1>6, <2>3, Ranks DEF Confidence
    <2>4. QED
      BY <2>1, <2>2, <2>3
  <1>8. QED
    BY <1>7 DEF L, M

-----------------------------------------------------------------------------
\* What a missing number shows

LEMMA Least ==
    ASSUME NEW T \in SUBSET Nat, T # {}
    PROVE  \E x \in T : \A y \in T : x <= y
  <1>1. PICK x \in T : \A y \in T : <<y, x>> \notin OpToRel(<, Nat)
    BY NatLessThanWellFounded, WFMin
  <1>2. \A y \in T : ~(y < x)
    BY <1>1 DEF OpToRel
  <1>3. QED
    BY <1>2

LEMMA Greatest ==
    ASSUME NEW T \in SUBSET Nat, T # {}, NEW k \in Nat, \A x \in T : x < k
    PROVE  Max(T) \in T
  <1> DEFINE below == {k - x : x \in T}
  <1>1. below \subseteq Nat /\ below # {}
    <2>1. \A x \in T : x \in Nat /\ x < k
      OBVIOUS
    <2>2. \A x \in T : k - x \in Nat
      BY <2>1
    <2>3. QED
      BY <2>2
  <1>2. PICK y \in below : \A z \in below : y <= z
    BY <1>1, Least
  <1>3. PICK x \in T : y = k - x
    OBVIOUS
  <1>4. ASSUME NEW z \in T
        PROVE  x >= z
    <2>1. k - x <= k - z
      BY <1>2, <1>3
    <2>2. QED
      BY <2>1
  <1>5. QED
    BY <1>4 DEF Max

\* The first observation above the missing number either follows one below it, which
\* is a jump, or precedes one, which is then out of order.
LEMMA MissingNumber ==
    ASSUME NEW L, L.observations \subseteq {Observed[d] : d \in Deliveries}, NEW s,
           NEW a \in Numbered(Matching(L, s)), NEW z \in Numbered(Matching(L, s)),
           NEW k \in a.sequence .. z.sequence,
           \A o \in Numbered(Matching(L, s)) : o.sequence # k
    PROVE  \E o \in Matching(L, s) : Jumps(L, o) \/ OutOfOrder(L, o)
  <1> DEFINE N == Numbered(Matching(L, s))
             B == {o \in N : o.sequence > k}
  <1>1. \A o \in N : /\ o \in Matching(L, s) /\ o.session = s /\ o.sequence # NoSequence
                     /\ o.id \in Nat /\ o.received \in Nat /\ o.sequence \in Nat
    BY ReceiptAssumption DEF Numbered, Matching, Ours
  <1>2. \A o \in N, p \in N : o.id = p.id => o.sequence = p.sequence
    <2>1. \A o \in N : \E d \in Deliveries : o = Observed[d]
      BY DEF Numbered, Matching, Ours
    <2>2. QED
      BY <2>1, OneInput
  <1>3. k \in Nat /\ a.sequence < k /\ z \in B
    <2>1. a \in N /\ z \in N
      OBVIOUS
    <2>2. a.sequence \in Nat /\ z.sequence \in Nat /\ a.sequence # k /\ z.sequence # k
      BY <1>1, <2>1
    <2>3. QED
      BY <2>1, <2>2
  <1>4. PICK b \in B : \A o \in B : ~Earlier(o, b)
    <2>1. PICK t \in {o.received : o \in B} : \A y \in {o.received : o \in B} : t <= y
      <3>1. {o.received : o \in B} \in SUBSET Nat /\ {o.received : o \in B} # {}
        BY <1>1, <1>3
      <3>2. QED
        BY <3>1, Least
    <2> DEFINE firsts == {o \in B : o.received = t}
    <2>2. PICK i \in {o.id : o \in firsts} : \A y \in {o.id : o \in firsts} : i <= y
      <3>1. {o.id : o \in firsts} \in SUBSET Nat /\ {o.id : o \in firsts} # {}
        BY <1>1, <2>1
      <3>2. QED
        BY <3>1, Least
    <2>3. PICK b \in firsts : b.id = i
      OBVIOUS
    <2>4. ASSUME NEW o \in B
          PROVE  ~Earlier(o, b)
      <3>1. /\ o.received \in Nat /\ b.received \in Nat /\ o.id \in Nat /\ b.id \in Nat
            /\ b.received = t /\ t <= o.received
            /\ o.received = t => i <= o.id
        BY <1>1, <2>1, <2>2, <2>3
      <3>2. QED
        BY <2>3, <3>1 DEF Earlier
    <2>5. QED
      BY <2>3, <2>4
  <1>5. b \in N /\ b.session = s /\ b \in Matching(L, s) /\ b.sequence > k
    BY <1>1, <1>4
  <1>6. \A p \in Numbered(Before(L, b)) : p \in N /\ Earlier(p, b) /\ p.sequence < k
    <2>1. \A p \in Numbered(Before(L, b)) : p \in N /\ Earlier(p, b)
      BY <1>5 DEF Numbered, Before
    <2>2. \A p \in N : p \notin B /\ p.sequence # k => p.sequence < k
      BY <1>1, <1>3
    <2>3. QED
      BY <1>4, <2>1, <2>2
  <1>7. CASE Numbered(Before(L, b)) # {}
    <2> DEFINE T == {p.sequence : p \in Numbered(Before(L, b))}
    <2>1. T \in SUBSET Nat /\ T # {} /\ \A x \in T : x < k
      BY <1>1, <1>6, <1>7
    <2>2. Max(T) \in T
      BY <1>3, <2>1, Greatest
    <2>3. b.sequence \in Nat /\ Max(T) \in Nat /\ Max(T) < k
      BY <1>1, <1>5, <2>1, <2>2
    <2>4. b.sequence > Max(T) + 1
      BY <1>3, <1>5, <2>3
    <2>5. Jumps(L, b)
      BY <1>1, <1>5, <1>7, <2>4 DEF Jumps, Highest
    <2>6. QED
      BY <1>5, <2>5
  <1>8. CASE Numbered(Before(L, b)) = {}
    <2>1. a \in N /\ a.session = s /\ a \in Matching(L, s)
      BY <1>1
    <2>2. ~Earlier(a, b)
      BY <1>5, <1>8, <2>1 DEF Numbered, Before
    <2>3. /\ a.received \in Nat /\ b.received \in Nat /\ a.id \in Nat /\ b.id \in Nat
          /\ a.sequence \in Nat /\ b.sequence \in Nat
      BY <1>1, <1>5, <2>1
    <2>4. a.sequence < b.sequence /\ a.id # b.id
      BY <1>2, <1>3, <1>5, <2>1, <2>3
    <2>5. Earlier(b, a)
      BY <2>2, <2>3, <2>4 DEF Earlier
    <2>6. b \in Numbered(Before(L, a))
      BY <1>1, <1>5, <2>1, <2>5 DEF Numbered, Before
    <2>7. OutOfOrder(L, a)
      BY <1>1, <2>1, <2>4, <2>6 DEF OutOfOrder
    <2>8. QED
      BY <2>1, <2>7
  <1>9. QED
    BY <1>7, <1>8

-----------------------------------------------------------------------------
\* The invariant

Gathering == {"rows", "inspect"}
Signing   == {"register", "sign", "saved"}

HasFields(r) ==
    /\ DOMAIN evidence[r] = {"observations", "checkpoints", "coverage", "pending", "known"}
    /\ pc[r] \in Gathering \union Signing =>
         {"scopes", "links", "reasons"} \subseteq DOMAIN evidence[r].coverage

\* What has been gathered so far justifies what the coverage says.
Justified(r) ==
    pc[r] \in Gathering \union Signing =>
        Justifies(RowsOf(evidence[r].observations, evidence[r].checkpoints,
                         evidence[r].coverage.scopes),
                  evidence[r].coverage)

\* What was known at the snapshot is still a file or a row; and if all files could be
\* seen at the inspection and none was left, it was a row.
Accounted(r) ==
    /\ pc[r] \in Gathering => evidence[r].known \subseteq files \union recorded
    /\ /\ pc[r] \in Signing /\ evidence[r].pending = 0
       /\ Unavailable \notin evidence[r].coverage.reasons
       => evidence[r].known \subseteq recorded

CallSound(r) == HasFields(r) /\ Justified(r) /\ Accounted(r)

ReceiptInv == TypeOK /\ \A r \in Receipts : CallSound(r)

\* What the processor, the agent and other commands do to the ledger.
LEMMA LedgerStep ==
    ASSUME ReceiptInv, TypeOK', UNCHANGED callVars, recorded \subseteq recorded',
           files \union recorded \subseteq files' \union recorded'
    PROVE  ReceiptInv'
  BY DEF ReceiptInv, CallSound, HasFields, Justified, Accounted, callVars

\* What a call does, it does to its own evidence.
LEMMA CallStep ==
    ASSUME ReceiptInv, NEW r \in Receipts, UNCHANGED ledgerVars, TypeOK',
           \A q \in Receipts \ {r} : evidence'[q] = evidence[q] /\ pc'[q] = pc[q],
           HasFields(r)', Justified(r)', Accounted(r)'
    PROVE  ReceiptInv'
  <1>1. ASSUME NEW q \in Receipts \ {r}
        PROVE  CallSound(q)'
    BY DEF ReceiptInv, CallSound, HasFields, Justified, Accounted, ledgerVars
  <1>2. QED
    BY <1>1 DEF ReceiptInv, CallSound

\* The rows of a ledger are observations of its deliveries.
LEMMA MergedObserved ==
    ASSUME NEW D \in SUBSET Deliveries
    PROVE  Merged(D) \subseteq {Observed[d] : d \in Deliveries}
  BY DEF Merged, First, Reports

LEMMA PendingType ==
    ASSUME NEW F \in SUBSET Deliveries
    PROVE  /\ Cardinality(F) \in 0 .. Cardinality(Deliveries)
           /\ Cardinality(F) = 0 => F = {}
           /\ 0 \in 0 .. Cardinality(Deliveries)
  <1>1. IsFiniteSet(Deliveries)
    BY ReceiptAssumption
  <1>2. IsFiniteSet(F) /\ Cardinality(F) <= Cardinality(Deliveries)
    BY <1>1, FS_Subset
  <1>3. Cardinality(F) \in Nat /\ Cardinality(Deliveries) \in Nat
    BY <1>1, <1>2, FS_CardinalityType
  <1>4. Cardinality(F) = 0 => F = {}
    BY <1>2, FS_EmptySet
  <1>5. QED
    BY <1>2, <1>3, <1>4

LEMMA InitReceipt == Init => ReceiptInv
  <1> SUFFICES ASSUME Init PROVE ReceiptInv
    OBVIOUS
  <1>1. 0 \in 0 .. Cardinality(Deliveries)
    BY PendingType
  <1>2. TypeOK
    BY <1>1, ReceiptAssumption DEF Init, TypeOK, Empty, Scopes
  <1>3. ASSUME NEW r \in Receipts
        PROVE  CallSound(r)
    BY DEF Init, CallSound, HasFields, Justified, Accounted, Empty, Gathering, Signing
  <1>4. QED
    BY <1>2, <1>3 DEF ReceiptInv

-----------------------------------------------------------------------------
\* The ledger

LEMMA LedgerInv ==
    ASSUME ReceiptInv, NEW d \in Deliveries, Deliver(d) \/ Record(d) \/ Remove(d)
    PROVE  ReceiptInv'
  <1>1. TypeOK'
    BY DEF ReceiptInv, TypeOK, Deliver, Record, Remove, LedgerOnly, callVars
  <1>2. /\ UNCHANGED callVars /\ recorded \subseteq recorded'
        /\ files \union recorded \subseteq files' \union recorded'
    BY DEF Deliver, Record, Remove, LedgerOnly
  <1>3. QED
    BY <1>1, <1>2, LedgerStep

LEMMA TakeCheckpointInv ==
    ASSUME ReceiptInv, NEW b \in Boundaries, TakeCheckpoint(b)
    PROVE  ReceiptInv'
  <1>1. TypeOK'
    BY DEF ReceiptInv, TypeOK, TakeCheckpoint, LedgerOnly, callVars
  <1>2. QED
    BY <1>1, LedgerStep DEF TakeCheckpoint, LedgerOnly

LEMMA CorrelateCommandInv ==
    ASSUME ReceiptInv, NEW s \in Sessions, NEW w \in Windows, CorrelateCommand(s, w)
    PROVE  ReceiptInv'
  <1>1. TypeOK'
    BY DEF ReceiptInv, TypeOK, Scopes, CorrelateCommand, ledgerVars, callVars
  <1>2. QED
    BY <1>1, LedgerStep DEF CorrelateCommand, ledgerVars

-----------------------------------------------------------------------------
\* A call of createReceipt

LEMMA BuildInv ==
    ASSUME ReceiptInv, NEW r \in Receipts, Build(r) \/ Correlate(r)
    PROVE  ReceiptInv'
  <1>1. TypeOK'
    <2>1. \A s \in Sessions : Request[r][s] \in Windows \union {NoWindow}
      BY ReceiptAssumption DEF Scopes
    <2>2. QED
      BY <2>1 DEF ReceiptInv, TypeOK, Scopes, Build, Correlate, Goto, ledgerVars
  <1>2. /\ UNCHANGED <<ledgerVars, evidence>> /\ \A q \in Receipts \ {r} : pc'[q] = pc[q]
        /\ pc'[r] = "correlate"
    BY DEF ReceiptInv, TypeOK, Build, Correlate, Goto
  <1>3. HasFields(r)' /\ Justified(r)' /\ Accounted(r)'
    BY <1>2 DEF ReceiptInv, CallSound, HasFields, Justified, Accounted, Gathering, Signing
  <1>4. QED
    BY <1>1, <1>2, <1>3, CallStep

LEMMA ReadCoverageInv ==
    ASSUME ReceiptInv, NEW r \in Receipts, ReadCoverage(r)
    PROVE  ReceiptInv'
  <1> DEFINE e == [observations |-> Merged(recorded), checkpoints |-> checkpoints,
                   coverage |-> CoverageOf(Ledger), pending |-> 0,
                   known |-> files \union recorded]
  <1>1. /\ UNCHANGED ledgerVars /\ DOMAIN evidence = Receipts /\ DOMAIN evidence' = Receipts
        /\ \A q \in Receipts \ {r} : evidence'[q] = evidence[q] /\ pc'[q] = pc[q]
        /\ pc'[r] = "rows" /\ evidence'[r] = e
    BY DEF ReceiptInv, TypeOK, ReadCoverage, Goto
  <1>2. TypeOK'
    <2>1. /\ e.observations \subseteq {Observed[d] : d \in Deliveries}
          /\ e.checkpoints \subseteq Boundaries
          /\ e.pending \in 0 .. Cardinality(Deliveries) /\ e.known \subseteq Deliveries
      BY MergedObserved, PendingType DEF ReceiptInv, TypeOK
    <2> HIDE DEF e
    <2>2. QED
      BY <1>1, <2>1 DEF ReceiptInv, TypeOK, ReadCoverage, Goto, ledgerVars
  <1>3. HasFields(r)' /\ Accounted(r)'
    <2>1. {"scopes", "links", "reasons"} \subseteq DOMAIN CoverageOf(Ledger)
      BY DEF CoverageOf
    <2>2. HasFields(r)'
      BY <1>1, <2>1 DEF HasFields
    <2>3. Accounted(r)'
      BY <1>1 DEF Accounted, Gathering, Signing, ledgerVars
    <2>4. QED
      BY <2>2, <2>3
  <1>4. Justified(r)'
    <2>1. CoverageOf(Ledger).scopes = scopes
      BY DEF CoverageOf, Ledger, LedgerOf
    <2>2. Justifies(RowsOf(Merged(recorded), checkpoints, scopes), CoverageOf(Ledger))
      BY EvidenceOfLedger DEF Ledger
    <2>3. QED
      BY <1>1, <2>1, <2>2 DEF Justified
  <1>5. QED
    BY <1>1, <1>2, <1>3, <1>4, CallStep

LEMMA ReadRowsInv ==
    ASSUME ReceiptInv, NEW r \in Receipts, ReadRows(r)
    PROVE  ReceiptInv'
  <1>1. /\ UNCHANGED ledgerVars /\ DOMAIN evidence = Receipts /\ DOMAIN evidence' = Receipts
        /\ \A q \in Receipts \ {r} : evidence'[q] = evidence[q] /\ pc'[q] = pc[q]
        /\ pc[r] = "rows" /\ pc'[r] = "inspect"
    BY DEF ReceiptInv, TypeOK, ReadRows, Goto
  <1>2. /\ HasFields(r)' /\ evidence'[r].coverage = evidence[r].coverage
        /\ evidence'[r].observations = OfScopes(evidence[r].observations, evidence[r].coverage)
        /\ evidence'[r].checkpoints = OfScopes(evidence[r].checkpoints, evidence[r].coverage)
        /\ evidence'[r].pending = evidence[r].pending /\ evidence'[r].known = evidence[r].known
    <2>1. /\ DOMAIN evidence[r] = {"observations", "checkpoints", "coverage", "pending", "known"}
          /\ {"scopes", "links", "reasons"} \subseteq DOMAIN evidence[r].coverage
      BY <1>1 DEF ReceiptInv, CallSound, HasFields, Gathering
    <2>2. evidence'[r] = [evidence[r] EXCEPT
             !.observations = OfScopes(@, evidence[r].coverage),
             !.checkpoints = OfScopes(@, evidence[r].coverage)]
      BY <1>1, <2>1 DEF ReadRows
    <2>3. QED
      BY <2>1, <2>2 DEF HasFields
  <1>3. TypeOK'
    BY <1>1, <1>2 DEF ReceiptInv, TypeOK, OfScopes, ReadRows, Goto, ledgerVars
  <1>4. Justified(r)'
    <2>1. PICK O, C, k : /\ O = evidence[r].observations /\ C = evidence[r].checkpoints
                         /\ k = evidence[r].coverage
      OBVIOUS
    <2>2. Justifies(RowsOf(O, C, k.scopes), k)
      BY <1>1, <2>1 DEF ReceiptInv, CallSound, Justified, Gathering
    <2>3. Justifies(RowsOf(OfScopes(O, k), OfScopes(C, k), k.scopes), k)
      BY <2>2, EvidenceOfScopes
    <2>4. QED
      BY <1>2, <2>1, <2>3 DEF Justified
  <1>5. Accounted(r)'
    BY <1>1, <1>2 DEF ReceiptInv, CallSound, Accounted, Gathering, Signing, ledgerVars
  <1>6. QED
    BY <1>1, <1>2, <1>3, <1>4, <1>5, CallStep

\* Further reasons take nothing back.
LEMMA FurtherReasons ==
    ASSUME NEW L, NEW k, NEW j, Justifies(L, k), j.links = k.links, k.reasons \subseteq j.reasons
    PROVE  Justifies(L, j)
  <1>1. ReportsGaps(L, j.reasons)
    BY DEF Justifies, ReportsGaps
  <1>2. QED
    BY <1>1 DEF Justifies

\* Where the count of files becomes the promise that everything known is recorded.
LEMMA InspectInboxInv ==
    ASSUME ReceiptInv, NEW r \in Receipts, InspectInbox(r)
    PROVE  ReceiptInv'
  <1>1. /\ UNCHANGED ledgerVars /\ DOMAIN evidence = Receipts /\ DOMAIN evidence' = Receipts
        /\ \A q \in Receipts \ {r} : evidence'[q] = evidence[q] /\ pc'[q] = pc[q]
        /\ pc[r] = "inspect" /\ pc'[r] = "register" /\ files \subseteq Deliveries
    BY DEF ReceiptInv, TypeOK, InspectInbox, Goto
  <1>2. PICK unread \in SUBSET Unreadable :
          evidence' = [evidence EXCEPT ![r].pending = Cardinality(Seen(unread)),
            ![r].coverage.reasons = @ \union (IF unread = {} THEN {} ELSE {Unavailable})
                                      \union (IF Seen(unread) = {} THEN {} ELSE {Awaiting})]
    BY DEF InspectInbox
  <1>3. /\ DOMAIN evidence[r] = {"observations", "checkpoints", "coverage", "pending", "known"}
        /\ {"scopes", "links", "reasons"} \subseteq DOMAIN evidence[r].coverage
    BY <1>1 DEF ReceiptInv, CallSound, HasFields, Gathering
  <1> DEFINE found == (IF unread = {} THEN {} ELSE {Unavailable})
                      \union (IF Seen(unread) = {} THEN {} ELSE {Awaiting})
             k == [evidence[r].coverage EXCEPT !.reasons = @ \union found]
  <1>4. /\ k.links = evidence[r].coverage.links /\ k.scopes = evidence[r].coverage.scopes
        /\ k.reasons = evidence[r].coverage.reasons \union found
        /\ DOMAIN k = DOMAIN evidence[r].coverage
    BY <1>3
  <1>5. evidence'[r] = [evidence[r] EXCEPT !.pending = Cardinality(Seen(unread)), !.coverage = k]
    BY <1>1, <1>2, <1>3
  <1>6. unread # {} => Unavailable \in k.reasons
    BY <1>4
  <1> HIDE DEF found, k
  <1>7. /\ DOMAIN evidence'[r] = DOMAIN evidence[r] /\ evidence'[r].coverage = k
        /\ evidence'[r].observations = evidence[r].observations
        /\ evidence'[r].checkpoints = evidence[r].checkpoints
        /\ evidence'[r].pending = Cardinality(Seen(unread)) /\ evidence'[r].known = evidence[r].known
    BY <1>3, <1>5
  <1>8. HasFields(r)'
    BY <1>3, <1>4, <1>7 DEF HasFields
  <1>9. /\ Cardinality(Seen(unread)) \in 0 .. Cardinality(Deliveries)
        /\ Cardinality(Seen(unread)) = 0 => Seen(unread) = {}
    BY <1>1, PendingType DEF Seen
  <1>10. TypeOK'
    BY <1>1, <1>7, <1>9 DEF ReceiptInv, TypeOK, InspectInbox, Goto, ledgerVars
  <1>11. Justified(r)'
    <2> DEFINE L == RowsOf(evidence[r].observations, evidence[r].checkpoints,
                           evidence[r].coverage.scopes)
    <2>1. Justifies(L, evidence[r].coverage)
      BY <1>1 DEF ReceiptInv, CallSound, Justified, Gathering
    <2>2. evidence[r].coverage.reasons \subseteq k.reasons
      BY <1>4
    <2> HIDE DEF L
    <2>3. Justifies(L, k)
      BY <1>4, <2>1, <2>2, FurtherReasons
    <2>4. QED
      BY <1>4, <1>7, <2>3 DEF Justified, L
  <1>12. Accounted(r)'
    <2>1. SUFFICES ASSUME Cardinality(Seen(unread)) = 0, Unavailable \notin k.reasons
                   PROVE  evidence[r].known \subseteq recorded
      BY <1>1, <1>7 DEF Accounted, Gathering, Signing, ledgerVars
    <2>2. files = {}
      BY <1>6, <1>9, <2>1 DEF Seen
    <2>3. QED
      BY <1>1, <2>2 DEF ReceiptInv, CallSound, Accounted, Gathering
  <1>13. QED
    BY <1>1, <1>8, <1>10, <1>11, <1>12, CallStep

LEMMA SignInv ==
    ASSUME ReceiptInv, NEW r \in Receipts, PrepareSigningKey(r) \/ SaveReceipt(r)
    PROVE  ReceiptInv'
  <1>1. /\ UNCHANGED <<ledgerVars, evidence>> /\ \A q \in Receipts \ {r} : pc'[q] = pc[q]
        /\ pc[r] \in Signing /\ pc'[r] \in Signing
    BY DEF ReceiptInv, TypeOK, PrepareSigningKey, SaveReceipt, Goto, Signing
  <1>2. TypeOK'
    BY DEF ReceiptInv, TypeOK, PrepareSigningKey, SaveReceipt, Goto, ledgerVars
  <1>3. HasFields(r)' /\ Justified(r)' /\ Accounted(r)'
    BY <1>1 DEF ReceiptInv, CallSound, HasFields, Justified, Accounted, Gathering, Signing,
                ledgerVars
  <1>4. QED
    BY <1>1, <1>2, <1>3, CallStep

LEMMA CreateFailsInv ==
    ASSUME ReceiptInv, NEW r \in Receipts, CreateFails(r)
    PROVE  ReceiptInv'
  <1>1. /\ UNCHANGED ledgerVars /\ DOMAIN evidence = Receipts /\ DOMAIN evidence' = Receipts
        /\ \A q \in Receipts \ {r} : evidence'[q] = evidence[q] /\ pc'[q] = pc[q]
        /\ pc'[r] = "failed" /\ evidence'[r] = Empty
    BY DEF ReceiptInv, TypeOK, CreateFails, Goto
  <1>2. TypeOK'
    BY <1>1, PendingType DEF ReceiptInv, TypeOK, Empty, CreateFails, Goto, ledgerVars
  <1>3. HasFields(r)' /\ Justified(r)' /\ Accounted(r)'
    BY <1>1 DEF HasFields, Justified, Accounted, Empty, Gathering, Signing
  <1>4. QED
    BY <1>1, <1>2, <1>3, CallStep

-----------------------------------------------------------------------------
\* Every step, and the theorems

LEMMA ReceiptStep == ReceiptInv /\ [Next]_vars => ReceiptInv'
  <1> SUFFICES ASSUME ReceiptInv, [Next]_vars PROVE ReceiptInv'
    OBVIOUS
  <1>1. CASE \E d \in Deliveries : Deliver(d) \/ Record(d) \/ Remove(d)
    BY <1>1, LedgerInv
  <1>2. CASE \E b \in Boundaries : TakeCheckpoint(b)
    BY <1>2, TakeCheckpointInv
  <1>3. CASE \E s \in Sessions, w \in Windows : CorrelateCommand(s, w)
    BY <1>3, CorrelateCommandInv
  <1>4. CASE \E r \in Receipts : Create(r)
    BY <1>4, BuildInv, ReadCoverageInv, ReadRowsInv, InspectInboxInv, SignInv, CreateFailsInv
    DEF Create
  <1>5. CASE UNCHANGED vars
    BY <1>5 DEF ReceiptInv, TypeOK, CallSound, HasFields, Justified, Accounted, vars,
                ledgerVars, callVars
  <1>6. QED
    BY <1>1, <1>2, <1>3, <1>4, <1>5 DEF Next

LEMMA ReceiptInvariant == Spec => []ReceiptInv
  BY InitReceipt, ReceiptStep, PTL DEF Spec

\* Ledger, scopes, and what each call has gathered have their types.
THEOREM ReceiptTypes == Spec => []TypeOK
  <1>1. ReceiptInv => TypeOK
    BY DEF ReceiptInv
  <1>2. QED
    BY <1>1, ReceiptInvariant, PTL

\* Whoever has a receipt can compute its links again from what is in it.
THEOREM LinksFollowFromReceipt == Spec => []EvidenceSelfContained
  <1>1. ReceiptInv => EvidenceSelfContained
    BY DEF ReceiptInv, CallSound, Justified, Justifies, Signing, EvidenceSelfContained, Saved
  <1>2. QED
    BY <1>1, ReceiptInvariant, PTL

\* No pending input in an inbox that could be inspected means that nothing is missing
\* but what was processed meanwhile.
THEOREM NothingIsHidden == Spec => []NothingHidden
  <1>1. ReceiptInv => NothingHidden
    BY DEF ReceiptInv, CallSound, Accounted, Signing, NothingHidden, Saved
  <1>2. QED
    BY <1>1, ReceiptInvariant, PTL

\* Coverage never passes over a number that is missing between two that it covers.
THEOREM NoGapIsSilent == Spec => []NoSilentGap
  <1>1. ReceiptInv => NoSilentGap
    <2> SUFFICES ASSUME ReceiptInv, NEW r \in Receipts, Saved(r)
                 PROVE  LET e == evidence[r]
                            L == RowsOf(e.observations, e.checkpoints, e.coverage.scopes) IN
                        \A s \in Scoped(L) :
                          LET numbers == {o.sequence : o \in Numbered(Matching(L, s))} IN
                          (\E n \in numbers, m \in numbers : \E k \in n .. m : k \notin numbers) =>
                              \E code \in {"sequence_gap", "out_of_order"} :
                                  [code |-> code, session |-> s] \in e.coverage.reasons
      BY DEF NoSilentGap
    <2>1. PICK e, L : /\ e = evidence[r]
                      /\ L = RowsOf(e.observations, e.checkpoints, e.coverage.scopes)
      OBVIOUS
    <2>2. Justifies(L, e.coverage)
      BY <2>1 DEF ReceiptInv, CallSound, Justified, Signing, Saved
    <2>3. L.observations \subseteq {Observed[d] : d \in Deliveries}
      BY <2>1 DEF ReceiptInv, TypeOK, RowsOf
    <2>4. ASSUME NEW s \in Scoped(L), NEW a \in Numbered(Matching(L, s)),
                 NEW z \in Numbered(Matching(L, s)), NEW k \in a.sequence .. z.sequence,
                 \A o \in Numbered(Matching(L, s)) : o.sequence # k
          PROVE  \E code \in {"sequence_gap", "out_of_order"} :
                     [code |-> code, session |-> s] \in e.coverage.reasons
      <3>1. \E o \in Matching(L, s) : Jumps(L, o) \/ OutOfOrder(L, o)
        BY <2>3, <2>4, MissingNumber
      <3>2. QED
        BY <2>2, <3>1 DEF Justifies, ReportsGaps
    <2>5. \A s \in Scoped(L) :
            LET numbers == {o.sequence : o \in Numbered(Matching(L, s))} IN
            (\E n \in numbers, m \in numbers : \E k \in n .. m : k \notin numbers) =>
                \E code \in {"sequence_gap", "out_of_order"} :
                    [code |-> code, session |-> s] \in e.coverage.reasons
      BY <2>4
    <2>6. QED
      BY <2>1, <2>5
  <1>2. QED
    BY <1>1, ReceiptInvariant, PTL

\* Evidence that arrives later never weakens what was said of an unrelated event.
THEOREM EvidenceOnlyStrengthens == Spec => OnlyItsOwnEventWeakens
  <1>1. ASSUME TypeOK, [Next]_vars, TypeOK'
        PROVE  [<<recorded, checkpoints>>' # <<recorded, checkpoints>> /\ scopes' = scopes =>
                  LET news == {Observed[d].logical : d \in recorded' \ recorded} IN
                  \A earlier \in {Rows}, later \in {Rows'} : \A o \in earlier.observations :
                    o.session \in Scoped(earlier) /\ o.logical \notin news =>
                      Rank(Confidence(earlier, o)) <= Rank(Confidence(later, o))]_<<recorded,
                                                                                  checkpoints>>
    <2>1. recorded \subseteq recorded' /\ checkpoints \subseteq checkpoints'
      BY <1>1 DEF Next, Deliver, Record, Remove, TakeCheckpoint, CorrelateCommand, Create, Build,
              Correlate, ReadCoverage, ReadRows, InspectInbox, PrepareSigningKey, SaveReceipt,
              CreateFails, LedgerOnly, ledgerVars, vars
    <2>2. PICK D, E, C, B, S, T : /\ D = recorded /\ E = recorded' /\ C = checkpoints
                                  /\ B = checkpoints' /\ S = scopes /\ T = scopes'
      OBVIOUS
    <2>3. D \in SUBSET Deliveries /\ E \in SUBSET Deliveries /\ D \subseteq E /\ C \subseteq B
      BY <1>1, <2>1, <2>2 DEF TypeOK
    <2>4. Rows = RowsOf(Merged(D), C, S) /\ Rows' = RowsOf(Merged(E), B, T)
      BY <2>2 DEF Rows
    <2>5. ASSUME T = S, NEW o, o.logical \notin {Observed[d].logical : d \in E \ D}
          PROVE  Rank(Confidence(RowsOf(Merged(D), C, S), o))
                   <= Rank(Confidence(RowsOf(Merged(E), B, T), o))
      BY <2>3, <2>5, NeverWeaker
    <2>6. QED
      BY <2>2, <2>4, <2>5
  <1>2. QED
    BY <1>1, ReceiptTypes, PTL DEF Spec, OnlyItsOwnEventWeakens

-----------------------------------------------------------------------------
(***************************************************************************)
(* The upload of receipts (ReceiptUpload).                                 *)
(***************************************************************************)

\* What lies ahead of a push has no receipt and no outcome yet.
Fresh(c) ==
    \A i \in 1 .. Updates[c] :
        i > at[c] \/ (i = at[c] /\ place[c] \in {"idle", "next"}) =>
            upload[<<c, i>>] = "none" /\ outcome[<<c, i>>] = "none"

\* What a command works on has a row, and it calls uploaded what was accepted.
InHand(c) ==
    /\ job[c] # NoReceipt => upload[job[c]] # "none"
    /\ \A r \in todo[c] : upload[r] # "none"
    /\ result[c] = "uploaded" => job[c] \in accepted
    /\ place[c] = "report" => /\ at[c] <= Updates[c] /\ upload[This(c)] # "none"
                           /\ outcome[This(c)] = "none"

\* A push has answered for the refs behind it, and uploads when all are.
Answered(c) ==
    /\ at[c] >= 1
    /\ \A i \in 1 .. Updates[c] : i < at[c] => outcome[<<c, i>>] # "none"
    /\ place[c] \in {"upload", "post", "settle", "done"} => at[c] > Updates[c]

OutcomeTrue ==
    \A r \in RefUpdates :
        /\ outcome[r] = "generated" => upload[r] # "none"
        /\ outcome[r] \in {"skipped", "creation_failed"} => upload[r] = "none"

UploadInv ==
    /\ UploadTypeOK /\ OutcomeTrue /\ UploadedIsAccepted
    /\ \A c \in Commands : Fresh(c) /\ InHand(c) /\ Answered(c)

-----------------------------------------------------------------------------
\* Receipts are pairs

LEMMA ReceiptPair ==
    /\ \A c \in Commands : \A i \in 1 .. Updates[c] : <<c, i>> \in RefUpdates
    /\ \A r \in RefUpdates : /\ r[1] \in Commands /\ r[2] \in 1 .. Updates[r[1]]
                           /\ r = <<r[1], r[2]>>
  BY DEF RefUpdates

\* While a push is at a ref, that ref is one of its receipts.
LEMMA ThisReceipt ==
    ASSUME NEW c \in Commands, UploadTypeOK, at[c] >= 1, at[c] <= Updates[c]
    PROVE  This(c) \in RefUpdates /\ at[c] \in 1 .. Updates[c]
  <1>1. at[c] \in Nat /\ Updates[c] \in Nat
    BY UploadAssumption DEF UploadTypeOK
  <1>2. at[c] \in 1 .. Updates[c]
    BY <1>1
  <1>3. QED
    BY <1>2, ReceiptPair DEF This

-----------------------------------------------------------------------------
\* Frames

\* A step of another command, or of the server, leaves what is known of a command.
LEMMA OtherCommand ==
    ASSUME NEW d \in Commands, Fresh(d), InHand(d), Answered(d),
           place'[d] = place[d], at'[d] = at[d], job'[d] = job[d], todo'[d] = todo[d],
           result'[d] = result[d],
           \A i \in 1 .. Updates[d] : /\ outcome'[<<d, i>>] = outcome[<<d, i>>]
                                      /\ upload[<<d, i>>] = "none" => upload'[<<d, i>>] = "none",
           \A r \in RefUpdates : upload[r] # "none" => upload'[r] # "none",
           todo[d] \subseteq RefUpdates, job[d] \in RefUpdates \union {NoReceipt}, UploadTypeOK,
           accepted \subseteq accepted'
    PROVE  Fresh(d)' /\ InHand(d)' /\ Answered(d)'
  <1>1. Fresh(d)'
    BY DEF Fresh
  <1>2. InHand(d)'
    <2>1. This(d)' = This(d)
      BY DEF This
    <2>2. place[d] = "report" => /\ This(d) \in RefUpdates
                              /\ outcome'[This(d)] = outcome[This(d)]
      BY ThisReceipt DEF InHand, Answered, This
    <2>3. PICK t : t = This(d)
      OBVIOUS
    <2>4. place[d] = "report" => upload'[t] # "none" /\ outcome'[t] = "none"
      BY <2>2, <2>3 DEF InHand
    <2>5. QED
      BY <2>1, <2>3, <2>4 DEF InHand
  <1>3. Answered(d)'
    BY DEF Answered
  <1>4. QED
    BY <1>1, <1>2, <1>3

\* A step of c changes only the locals of c.
Moves(c) ==
    \A d \in Commands \ {c} :
        /\ place'[d] = place[d] /\ at'[d] = at[d] /\ job'[d] = job[d] /\ todo'[d] = todo[d]
        /\ result'[d] = result[d]

\* It leaves the rows of other pushes alone, but for their state.
Leaves(c) ==
    /\ \A d \in Commands \ {c} : \A i \in 1 .. Updates[d] :
         /\ outcome'[<<d, i>>] = outcome[<<d, i>>]
         /\ upload[<<d, i>>] = "none" => upload'[<<d, i>>] = "none"
    /\ \A r \in RefUpdates : upload[r] # "none" => upload'[r] # "none"
    /\ accepted \subseteq accepted'

\* What remains to be shown of a step of command c.
LEMMA CommandStep ==
    ASSUME UploadInv, NEW c \in Commands, Moves(c), Leaves(c),
           UploadTypeOK', OutcomeTrue', UploadedIsAccepted', Fresh(c)', InHand(c)', Answered(c)'
    PROVE  UploadInv'
  <1>1. ASSUME NEW d \in Commands \ {c}
        PROVE  Fresh(d)' /\ InHand(d)' /\ Answered(d)'
    <2>1. todo[d] \subseteq RefUpdates /\ job[d] \in RefUpdates \union {NoReceipt}
      BY DEF UploadInv, UploadTypeOK
    <2>2. Fresh(d) /\ InHand(d) /\ Answered(d) /\ UploadTypeOK
      BY DEF UploadInv
    <2>3. QED
      BY <2>1, <2>2, OtherCommand DEF Moves, Leaves
  <1>2. QED
    BY <1>1 DEF UploadInv

\* So is every step that changes no row.
LEMMA RowsKept ==
    ASSUME UploadInv, UNCHANGED <<upload, acknowledged, outcome>>, accepted \subseteq accepted',
           NEW c \in Commands
    PROVE  OutcomeTrue' /\ UploadedIsAccepted' /\ Leaves(c)
  BY DEF UploadInv, OutcomeTrue, UploadedIsAccepted, Leaves

-----------------------------------------------------------------------------
\* The start

LEMMA UploadStarts == UploadInit => UploadInv
  <1> SUFFICES ASSUME UploadInit PROVE UploadInv
    OBVIOUS
  <1>1. UploadTypeOK
    BY UploadAssumption DEF UploadInit, UploadTypeOK, States
  <1>2. OutcomeTrue /\ UploadedIsAccepted
    BY DEF UploadInit, OutcomeTrue, UploadedIsAccepted
  <1>3. ASSUME NEW c \in Commands
        PROVE  Fresh(c) /\ InHand(c) /\ Answered(c)
    <2>1. \A i \in 1 .. Updates[c] : <<c, i>> \in RefUpdates
      BY ReceiptPair
    <2>2. Updates[c] \in Nat
      BY UploadAssumption
    <2>3. QED
      BY <2>1, <2>2 DEF UploadInit, Fresh, InHand, Answered
  <1>4. QED
    BY <1>1, <1>2, <1>3 DEF UploadInv

-----------------------------------------------------------------------------
\* The loop of a push

\* The ref that a push comes to has no receipt and no outcome.
LEMMA AtRef ==
    ASSUME UploadInv, NEW c \in Commands, place[c] = "next", at[c] <= Updates[c]
    PROVE  /\ This(c) \in RefUpdates /\ at[c] \in 1 .. Updates[c]
           /\ upload[This(c)] = "none" /\ outcome[This(c)] = "none"
  <1>1. This(c) \in RefUpdates /\ at[c] \in 1 .. Updates[c]
    BY ThisReceipt DEF UploadInv, Answered
  <1>2. QED
    BY <1>1 DEF UploadInv, Fresh, This

\* The step records one outcome.
Outcome(r, label) ==
    /\ outcome' \in [RefUpdates -> {"none", "skipped", "creation_failed", "generated", "lost"}]
    /\ outcome'[r] = label /\ \A q \in RefUpdates \ {r} : outcome'[q] = outcome[q]

LEMMA RecordedOutcome ==
    ASSUME UploadTypeOK, NEW r \in RefUpdates,
           NEW label \in {"skipped", "creation_failed", "generated", "lost"},
           outcome' = [outcome EXCEPT ![r] = label]
    PROVE  Outcome(r, label)
  BY DEF UploadTypeOK, Outcome

\* An outcome of the ref that a push is at, which is then behind it: whether the
\* next one is fresh, and what else the push has in hand, is untouched.
LEMMA OutcomeStep ==
    ASSUME UploadInv, NEW c \in Commands, This(c) \in RefUpdates,
           NEW label \in {"skipped", "creation_failed", "generated", "lost"},
           label = "generated" => upload[This(c)] # "none",
           label \in {"skipped", "creation_failed"} => upload[This(c)] = "none",
           Outcome(This(c), label), NextRef(c),
           UNCHANGED <<upload, acknowledged, serverVars, job, attempt, spent, result>>,
           \A d \in Commands \ {c} : todo'[d] = todo[d],
           todo' \in [Commands -> SUBSET RefUpdates],
           \A r \in todo'[c] : upload[r] # "none",
           faults' \in 0 .. MaxFaults, place[c] \in {"next", "report"}
    PROVE  UploadInv'
  <1>1. UploadTypeOK'
    <2>1. outcome' \in [RefUpdates -> {"none", "skipped", "creation_failed", "generated", "lost"}]
      BY DEF Outcome
    <2>2. at' \in [Commands -> Nat]
      <3>1. at \in [Commands -> Nat] /\ at' = [at EXCEPT ![c] = @ + 1]
        BY DEF UploadInv, UploadTypeOK, NextRef
      <3>2. PICK n \in Nat : n = at[c] + 1
        BY <3>1
      <3>3. QED
        BY <3>1, <3>2
    <2>3. place' \in [Commands -> {"idle", "next", "report", "upload", "post", "settle",
                                "done", "stopped"}]
      BY DEF UploadInv, UploadTypeOK, NextRef, Proceed
    <2>4. \A d \in Commands :
            /\ place'[d] \in {"post", "settle"} <=> job'[d] # NoReceipt
            /\ place'[d] = "settle" <=> result'[d] # "none"
      BY DEF UploadInv, UploadTypeOK, NextRef, Proceed
    <2>5. QED
      BY <2>1, <2>2, <2>3, <2>4 DEF UploadInv, UploadTypeOK, serverVars
  <1>2. OutcomeTrue' /\ UploadedIsAccepted'
    BY DEF UploadInv, Outcome, OutcomeTrue, UploadedIsAccepted, serverVars
  <1>3. Moves(c)
    BY DEF Moves, NextRef, Proceed, UploadInv, UploadTypeOK
  <1>4. Leaves(c)
    BY ReceiptPair DEF Leaves, serverVars, Outcome, This
  <1>5. at'[c] = at[c] + 1 /\ place'[c] = "next" /\ at[c] \in Nat /\ Updates[c] \in Nat
    BY UploadAssumption DEF NextRef, Proceed, UploadInv, UploadTypeOK
  <1>6. \A i \in 1 .. Updates[c] :
          outcome'[<<c, i>>] = IF i = at[c] THEN label ELSE outcome[<<c, i>>]
    BY ReceiptPair DEF Outcome, This
  <1>7. Fresh(c)'
    <2>1. PICK n \in Nat, m \in Nat : n = at[c] /\ m = Updates[c]
      BY <1>5
    <2>2. Fresh(c)
      BY DEF UploadInv
    <2>3. \A i \in 1 .. Updates[c] : i > n =>
            upload[<<c, i>>] = "none" /\ outcome[<<c, i>>] = "none"
      BY <1>5, <2>1, <2>2 DEF Fresh
    <2>4. \A i \in 1 .. m : i >= n + 1 => i > n /\ i # n
      OBVIOUS
    <2>5. \A i \in 1 .. Updates[c] : i >= n + 1 =>
            upload'[<<c, i>>] = "none" /\ outcome'[<<c, i>>] = "none"
      BY <1>6, <2>1, <2>3, <2>4
    <2>6. QED
      <3>1. \A i \in 1 .. Updates[c] :
              i > at'[c] \/ (i = at'[c] /\ place'[c] \in {"idle", "next"}) => i >= n + 1
        BY <1>5, <2>1
      <3>2. QED
        BY <2>5, <3>1 DEF Fresh
  <1>8. InHand(c)'
    BY <1>5 DEF InHand, UploadInv, UploadTypeOK, serverVars
  <1>9. Answered(c)'
    <2>1. PICK n \in Nat, m \in Nat : n = at[c] /\ m = Updates[c]
      BY <1>5
    <2>2. n >= 1 /\ \A i \in 1 .. Updates[c] : i < n => outcome[<<c, i>>] # "none"
      BY <1>5, <2>1 DEF UploadInv, Answered
    <2>3. \A i \in 1 .. m : i < n + 1 => i = n \/ i < n
      OBVIOUS
    <2>4. \A i \in 1 .. Updates[c] : i < n + 1 => outcome'[<<c, i>>] # "none"
      BY <1>6, <2>1, <2>2, <2>3
    <2>5. QED
      BY <1>5, <2>1, <2>2, <2>4 DEF Answered
  <1>10. QED
    BY <1>1, <1>2, <1>3, <1>4, <1>7, <1>8, <1>9, CommandStep

\* Failures stay within their bound.
LEMMA FaultBound ==
    ASSUME UploadTypeOK, Fault \/ UNCHANGED faults
    PROVE  faults' \in 0 .. MaxFaults
  <1>1. faults \in 0 .. MaxFaults /\ MaxFaults \in Nat
    BY UploadAssumption DEF UploadTypeOK
  <1>2. QED
    BY <1>1 DEF Fault

LEMMA SkipInv ==
    ASSUME UploadInv, NEW c \in Commands, SkipRef(c)
    PROVE  UploadInv'
  <1>1. /\ This(c) \in RefUpdates /\ at[c] \in 1 .. Updates[c] /\ upload[This(c)] = "none"
        /\ place[c] = "next"
    BY AtRef DEF SkipRef
  <1>2. PICK label \in {"skipped", "lost"} : Outcome(This(c), label)
    BY <1>1, RecordedOutcome DEF SkipRef, Report, UploadInv
  <1>3. faults' \in 0 .. MaxFaults
    BY FaultBound DEF SkipRef, Report, UploadInv
  <1>4. /\ NextRef(c)
        /\ UNCHANGED <<upload, acknowledged, serverVars, job, todo, attempt, spent, result>>
    BY DEF SkipRef, jobVars
  <1>5. /\ todo' \in [Commands -> SUBSET RefUpdates]
        /\ \A r \in todo'[c] : upload[r] # "none"
    BY <1>4 DEF UploadInv, UploadTypeOK, InHand
  <1>6. QED
    BY <1>1, <1>2, <1>3, <1>4, <1>5, OutcomeStep

LEMMA CreationFailsInv ==
    ASSUME UploadInv, NEW c \in Commands, CreationFails(c)
    PROVE  UploadInv'
  <1>1. /\ This(c) \in RefUpdates /\ at[c] \in 1 .. Updates[c] /\ upload[This(c)] = "none"
        /\ place[c] = "next"
    BY AtRef DEF CreationFails
  <1>2. PICK label \in {"creation_failed", "lost"} : Outcome(This(c), label)
    BY <1>1, RecordedOutcome DEF CreationFails, UploadInv
  <1>3. faults' \in 0 .. MaxFaults
    BY FaultBound DEF CreationFails, UploadInv
  <1>4. /\ NextRef(c)
        /\ UNCHANGED <<upload, acknowledged, serverVars, job, todo, attempt, spent, result>>
    BY DEF CreationFails, jobVars
  <1>5. /\ todo' \in [Commands -> SUBSET RefUpdates]
        /\ \A r \in todo'[c] : upload[r] # "none"
    BY <1>4 DEF UploadInv, UploadTypeOK, InHand
  <1>6. QED
    BY <1>1, <1>2, <1>3, <1>4, <1>5, OutcomeStep

LEMMA ReportInv ==
    ASSUME UploadInv, NEW c \in Commands, ReportGenerated(c)
    PROVE  UploadInv'
  <1>1. place[c] = "report" /\ at[c] <= Updates[c] /\ upload[This(c)] # "none"
    BY DEF ReportGenerated, UploadInv, InHand
  <1>2. This(c) \in RefUpdates /\ at[c] \in 1 .. Updates[c]
    BY <1>1, ThisReceipt DEF UploadInv, Answered
  <1>3. PICK label \in {"generated", "lost"} : Outcome(This(c), label)
    BY <1>2, RecordedOutcome DEF ReportGenerated, Report, UploadInv
  <1>4. faults' \in 0 .. MaxFaults
    BY FaultBound DEF ReportGenerated, Report, UploadInv
  <1>5. /\ NextRef(c)
        /\ todo' = [todo EXCEPT ![c] = @ \union {This(c)}]
        /\ UNCHANGED <<upload, acknowledged, serverVars, job, attempt, spent, result>>
    BY DEF ReportGenerated
  <1>6. /\ todo' \in [Commands -> SUBSET RefUpdates]
        /\ \A r \in todo'[c] : upload[r] # "none"
        /\ \A d \in Commands \ {c} : todo'[d] = todo[d]
    BY <1>1, <1>2, <1>5 DEF UploadInv, UploadTypeOK, InHand
  <1>7. QED
    BY <1>1, <1>2, <1>3, <1>4, <1>5, <1>6, OutcomeStep

\* A step of c that changes no row and stays at its ref.
LEMMA QuietStep ==
    ASSUME UploadInv, NEW c \in Commands, Moves(c), UploadTypeOK', InHand(c)',
           UNCHANGED <<upload, acknowledged, outcome, at>>, accepted \subseteq accepted',
           place'[c] \in {"idle", "next"} => place[c] \in {"idle", "next"},
           place'[c] \in {"upload", "post", "settle", "done"} =>
               at[c] > Updates[c] \/ place[c] \in {"upload", "post", "settle", "done"}
    PROVE  UploadInv'
  <1>1. OutcomeTrue' /\ UploadedIsAccepted' /\ Leaves(c)
    BY RowsKept
  <1>2. Fresh(c)' /\ Answered(c)'
    BY DEF UploadInv, Fresh, Answered
  <1>3. QED
    BY <1>1, <1>2, CommandStep

LEMMA StartInv ==
    ASSUME UploadInv, NEW c \in Commands, Start(c)
    PROVE  UploadInv'
  <1>1. UploadTypeOK'
    BY DEF UploadInv, UploadTypeOK, Start, Proceed, storeVars, serverVars, jobVars
  <1>2. Moves(c) /\ InHand(c)'
    BY DEF UploadInv, UploadTypeOK, Start, Proceed, storeVars, jobVars, Moves, InHand
  <1>3. QED
    BY <1>1, <1>2, QuietStep DEF UploadInv, UploadTypeOK, Start, Proceed, storeVars, serverVars

LEMMA CreateInv ==
    ASSUME UploadInv, NEW c \in Commands, CreateReceipt(c)
    PROVE  UploadInv'
  <1>1. /\ This(c) \in RefUpdates /\ upload[This(c)] = "none" /\ outcome[This(c)] = "none"
        /\ at[c] \in 1 .. Updates[c]
    BY AtRef DEF CreateReceipt
  <1>2. /\ upload'[This(c)] = "pending" /\ place'[c] = "report" /\ place[c] = "next"
        /\ \A r \in RefUpdates \ {This(c)} : upload'[r] = upload[r]
    BY <1>1 DEF CreateReceipt, Proceed, UploadInv, UploadTypeOK
  <1>3. UploadTypeOK'
    BY <1>1 DEF UploadInv, UploadTypeOK, States, CreateReceipt, Proceed, serverVars, jobVars
  <1>4. OutcomeTrue' /\ UploadedIsAccepted'
    BY <1>1, <1>2 DEF UploadInv, UploadTypeOK, OutcomeTrue, UploadedIsAccepted, CreateReceipt, serverVars
  <1>5. Moves(c)
    BY DEF Moves, CreateReceipt, Proceed, jobVars, UploadInv, UploadTypeOK
  <1>6. Leaves(c)
    BY <1>1, <1>2, ReceiptPair DEF Leaves, CreateReceipt, serverVars, This
  <1>7. Fresh(c)'
    BY <1>2, ReceiptPair DEF UploadInv, Fresh, CreateReceipt, This
  <1>8. InHand(c)'
    <2>1. This(c)' = This(c)
      BY DEF This, CreateReceipt
    <2>2. at[c] <= Updates[c]
      BY <1>1 DEF CreateReceipt
    <2>3. PICK t \in RefUpdates : t = This(c)
      BY <1>1
    <2>4. QED
      BY <1>1, <1>2, <2>1, <2>2, <2>3 DEF InHand, UploadInv, UploadTypeOK, CreateReceipt, jobVars, serverVars
  <1>9. Answered(c)'
    BY <1>2 DEF UploadInv, Answered, CreateReceipt
  <1>10. QED
    BY <1>3, <1>4, <1>5, <1>6, <1>7, <1>8, <1>9, CommandStep

-----------------------------------------------------------------------------
\* The uploads

LEMMA BeginUploadsInv ==
    ASSUME UploadInv, NEW c \in Commands, BeginUploads(c)
    PROVE  UploadInv'
  <1>1. UploadTypeOK'
    BY DEF UploadInv, UploadTypeOK, BeginUploads, UploadOnly, Proceed, serverVars, jobVars
  <1>2. Moves(c) /\ InHand(c)'
    BY DEF UploadInv, UploadTypeOK, BeginUploads, UploadOnly, Proceed, jobVars, Moves, InHand
  <1>3. QED
    BY <1>1, <1>2, QuietStep
    DEF UploadInv, UploadTypeOK, BeginUploads, UploadOnly, Proceed, serverVars

LEMMA RetryInv ==
    ASSUME UploadInv, NEW c \in Commands, NEW r \in RefUpdates, Retry(c, r)
    PROVE  UploadInv'
  <1>1. UploadTypeOK'
    BY DEF UploadInv, UploadTypeOK, Retry, UploadOnly, Proceed, serverVars
  <1>2. Moves(c) /\ InHand(c)'
    BY DEF UploadInv, UploadTypeOK, Retry, UploadOnly, Proceed, Moves, InHand
  <1>3. at[c] > Updates[c]
    <2>1. PICK n \in Nat : n = at[c]
      BY DEF UploadInv, UploadTypeOK
    <2>2. n >= 1 /\ Updates[c] = 0
      BY <2>1 DEF UploadInv, Answered, Retry, Retries
    <2>3. QED
      BY <2>1, <2>2
  <1>4. QED
    BY <1>1, <1>2, <1>3, QuietStep
    DEF UploadInv, UploadTypeOK, Retry, UploadOnly, Proceed, serverVars

LEMMA BeginUploadInv ==
    ASSUME UploadInv, NEW c \in Commands, BeginUpload(c)
    PROVE  UploadInv'
  <1>1. PICK r \in todo[c] : /\ job' = [job EXCEPT ![c] = r]
                             /\ todo' = [todo EXCEPT ![c] = @ \ {r}]
    BY DEF BeginUpload
  <1>2. r \in RefUpdates /\ r # NoReceipt /\ upload[r] # "none"
    BY UploadAssumption DEF UploadInv, UploadTypeOK, InHand
  <1>3. UploadTypeOK'
    BY <1>1, <1>2 DEF UploadInv, UploadTypeOK, BeginUpload, UploadOnly, Proceed, serverVars
  <1>4. Moves(c) /\ InHand(c)'
    BY <1>1, <1>2 DEF UploadInv, UploadTypeOK, BeginUpload, UploadOnly, Proceed, Moves, InHand
  <1>5. QED
    BY <1>3, <1>4, QuietStep
    DEF UploadInv, UploadTypeOK, BeginUpload, UploadOnly, Proceed, serverVars

\* An answer to a request, whatever it is: what it says is noted, and the row waits.
LEMMA AnswerStep ==
    ASSUME UploadInv, NEW c \in Commands, NEW state \in States, Answer(c, state),
           accepted' \in {accepted, accepted \union {job[c]}},
           state = "uploaded" => job[c] \in accepted',
           UNCHANGED late, spent' \in {spent, [spent EXCEPT ![c] = TRUE]},
           Fault \/ UNCHANGED faults
    PROVE  UploadInv'
  <1>1. job[c] \in RefUpdates /\ job[c] # NoReceipt
    BY DEF UploadInv, UploadTypeOK, Answer
  <1>2. accepted \subseteq accepted' /\ accepted' \subseteq RefUpdates
    BY <1>1 DEF UploadInv, UploadTypeOK
  <1>3. UploadTypeOK'
    <2>1. faults' \in 0 .. MaxFaults
      BY FaultBound DEF UploadInv
    <2>2. spent' \in [Commands -> BOOLEAN]
      BY DEF UploadInv, UploadTypeOK
    <2>3. QED
      BY <1>1, <1>2, <2>1, <2>2 DEF UploadInv, UploadTypeOK, States, Answer, UploadOnly, Proceed
  <1>4. Moves(c) /\ InHand(c)'
    BY <1>1 DEF UploadInv, UploadTypeOK, Answer, UploadOnly, Proceed, Moves, InHand
  <1>5. QED
    BY <1>2, <1>3, <1>4, QuietStep DEF UploadInv, UploadTypeOK, Answer, UploadOnly, Proceed

LEMMA AcknowledgedInv ==
    ASSUME UploadInv, NEW c \in Commands, Acknowledged(c)
    PROVE  UploadInv'
  BY AnswerStep DEF Acknowledged, States

LEMMA RefusedInv ==
    ASSUME UploadInv, NEW c \in Commands, Refused(c)
    PROVE  UploadInv'
  BY AnswerStep DEF Refused, States

LEMMA OutOfAttemptsInv ==
    ASSUME UploadInv, NEW c \in Commands, OutOfAttempts(c)
    PROVE  UploadInv'
  BY AnswerStep DEF OutOfAttempts, States, serverVars

LEMMA OutOfTimeInv ==
    ASSUME UploadInv, NEW c \in Commands, OutOfTime(c)
    PROVE  UploadInv'
  BY AnswerStep DEF OutOfTime, States, serverVars

LEMMA UnansweredInv ==
    ASSUME UploadInv, NEW c \in Commands, Unanswered(c)
    PROVE  UploadInv'
  <1>1. job[c] \in RefUpdates
    BY DEF UploadInv, UploadTypeOK, Unanswered
  <1>2. UploadTypeOK'
    <2>1. faults' \in 0 .. MaxFaults
      BY FaultBound DEF Unanswered, UploadInv
    <2>2. attempt' \in [Commands -> 0 .. Attempts]
      <3>1. attempt[c] \in 0 .. Attempts /\ attempt[c] < Attempts /\ Attempts \in Nat
        BY UploadAssumption DEF UploadInv, UploadTypeOK, Unanswered
      <3>2. attempt[c] + 1 \in 0 .. Attempts
        BY <3>1
      <3>3. QED
        BY <3>2 DEF UploadInv, UploadTypeOK, Unanswered
    <2>3. QED
      BY <1>1, <2>1, <2>2 DEF UploadInv, UploadTypeOK, Unanswered, UploadOnly
  <1>3. Moves(c) /\ InHand(c)'
    BY DEF UploadInv, UploadTypeOK, Unanswered, UploadOnly, Moves, InHand
  <1>4. QED
    BY <1>2, <1>3, QuietStep DEF UploadInv, UploadTypeOK, Unanswered, UploadOnly

\* `receipt upload` has no refs of its own.
LEMMA NoRefs ==
    ASSUME NEW c \in Commands, Retries(c)
    PROVE  \A i \in 1 .. Updates[c] : FALSE
  BY DEF Retries

\* The row takes the result of this upload, whatever another one has made of it:
\* called uploaded it has its acknowledgement, and called anything else it has none.
LEMMA SettleInv ==
    ASSUME UploadInv, NEW c \in Commands, Settle(c)
    PROVE  UploadInv'
  <1>1. PICK j \in RefUpdates : j = job[c]
    BY DEF UploadInv, UploadTypeOK, Settle
  <1>2. PICK s \in States : s = result[c]
    BY DEF UploadInv, UploadTypeOK, Settle
  <1>3. /\ upload[j] # "none" /\ s # "none"
        /\ s = "uploaded" => j \in accepted
        /\ 0 \in 0 .. Attempts
    BY <1>1, <1>2, UploadAssumption DEF UploadInv, InHand, States
  <1>4. /\ upload' = [upload EXCEPT ![j] = s]
        /\ acknowledged' = IF s = "uploaded" THEN acknowledged \union {j}
                                             ELSE acknowledged \ {j}
    BY <1>1, <1>2 DEF Settle
  <1>5. /\ upload'[j] = s /\ \A r \in RefUpdates \ {j} : upload'[r] = upload[r]
        /\ \A r \in RefUpdates : upload[r] # "none" => upload'[r] # "none"
        /\ \A r \in RefUpdates : upload[r] = "none" => upload'[r] = "none"
    BY <1>3, <1>4 DEF UploadInv, UploadTypeOK
  <1>6. UploadTypeOK'
    BY <1>1, <1>3, <1>4 DEF UploadInv, UploadTypeOK, Settle, Settled, UploadOnly, Proceed, serverVars
  <1>7. OutcomeTrue' /\ UploadedIsAccepted'
    <2>1. OutcomeTrue'
      BY <1>5 DEF UploadInv, OutcomeTrue, Settle, Settled, UploadOnly
    <2>2. UploadedIsAccepted'
      BY <1>3, <1>4, <1>5 DEF UploadInv, UploadedIsAccepted, Settle, Settled, serverVars
    <2>3. QED
      BY <2>1, <2>2
  <1>8. Moves(c) /\ place'[c] = "upload" /\ job'[c] = NoReceipt /\ result'[c] = "none"
    BY DEF UploadInv, UploadTypeOK, Settle, Settled, UploadOnly, Proceed, Moves
  <1>9. Leaves(c)
    BY <1>5, ReceiptPair DEF Leaves, Settle, Settled, UploadOnly, serverVars
  <1>10. Fresh(c)'
    BY <1>5, <1>8, ReceiptPair DEF UploadInv, Fresh, Settle, Settled, UploadOnly
  <1>11. InHand(c)'
    BY <1>5, <1>8 DEF UploadInv, UploadTypeOK, InHand, Settle, Settled
  <1>12. Answered(c)'
    BY <1>8 DEF UploadInv, Answered, Settle, Settled, UploadOnly
  <1>13. QED
    BY <1>6, <1>7, <1>8, <1>9, <1>10, <1>11, <1>12, CommandStep

LEMMA SettleFailsInv ==
    ASSUME UploadInv, NEW c \in Commands, SettleFails(c)
    PROVE  UploadInv'
  <1>1. UploadTypeOK'
    <2>1. faults' \in 0 .. MaxFaults
      BY FaultBound DEF SettleFails, UploadInv
    <2>2. 0 \in 0 .. Attempts
      BY UploadAssumption
    <2>3. QED
      BY <2>1, <2>2 DEF UploadInv, UploadTypeOK, SettleFails, Settled, UploadOnly, Proceed, serverVars
  <1>2. Moves(c) /\ InHand(c)'
    BY DEF UploadInv, UploadTypeOK, SettleFails, Settled, UploadOnly, Proceed, Moves, InHand
  <1>3. QED
    BY <1>1, <1>2, QuietStep
    DEF UploadInv, UploadTypeOK, SettleFails, Settled, UploadOnly, Proceed, serverVars

\* A push that finishes has been through its refs; a retry is ready for the next.
LEMMA FinishInv ==
    ASSUME UploadInv, NEW c \in Commands, Finish(c)
    PROVE  UploadInv'
  <1>1. UploadTypeOK'
    BY DEF UploadInv, UploadTypeOK, Finish, UploadOnly, Proceed, serverVars
  <1>2. Moves(c) /\ InHand(c)'
    BY DEF UploadInv, UploadTypeOK, Finish, UploadOnly, Proceed, Moves, InHand
  <1>3. OutcomeTrue' /\ UploadedIsAccepted' /\ Leaves(c)
    BY RowsKept DEF Finish, UploadOnly, serverVars
  <1>4. Fresh(c)'
    BY NoRefs DEF UploadInv, Finish, UploadOnly, Fresh, Proceed, UploadTypeOK
  <1>5. Answered(c)'
    BY DEF UploadInv, UploadTypeOK, Finish, UploadOnly, Proceed, Answered
  <1>6. QED
    BY <1>1, <1>2, <1>3, <1>4, <1>5, CommandStep

LEMMA KillInv ==
    ASSUME UploadInv, NEW c \in Commands, Kill(c)
    PROVE  UploadInv'
  <1>1. UploadTypeOK'
    <2>1. faults' \in 0 .. MaxFaults
      BY FaultBound DEF Kill, UploadInv
    <2>2. late' \subseteq RefUpdates
      BY DEF UploadInv, UploadTypeOK, Kill
    <2>3. 0 \in 0 .. Attempts
      BY UploadAssumption
    <2>4. QED
      BY <2>1, <2>2, <2>3 DEF UploadInv, UploadTypeOK, Kill, Proceed, storeVars
  <1>2. Moves(c) /\ InHand(c)'
    BY DEF UploadInv, UploadTypeOK, Kill, Proceed, storeVars, Moves, InHand
  <1>3. OutcomeTrue' /\ UploadedIsAccepted' /\ Leaves(c)
    BY RowsKept DEF Kill, storeVars
  <1>4. Fresh(c)'
    BY NoRefs DEF UploadInv, Kill, storeVars, Fresh, Proceed, UploadTypeOK
  <1>5. Answered(c)'
    BY DEF UploadInv, UploadTypeOK, Kill, storeVars, Proceed, Answered
  <1>6. QED
    BY <1>1, <1>2, <1>3, <1>4, <1>5, CommandStep

-----------------------------------------------------------------------------
\* The server, and every step

LEMMA ArriveLateInv ==
    ASSUME UploadInv, NEW r \in RefUpdates, ArriveLate(r)
    PROVE  UploadInv'
  <1>1. UploadTypeOK'
    BY DEF UploadInv, UploadTypeOK, ArriveLate, storeVars, jobVars
  <1>2. accepted \subseteq accepted'
    BY DEF ArriveLate
  <1>3. OutcomeTrue' /\ UploadedIsAccepted'
    BY <1>2 DEF UploadInv, OutcomeTrue, UploadedIsAccepted, ArriveLate, storeVars
  <1>4. ASSUME NEW d \in Commands
        PROVE  Fresh(d)' /\ InHand(d)' /\ Answered(d)'
    BY <1>2 DEF UploadInv, Fresh, InHand, Answered, This, ArriveLate, storeVars, jobVars
  <1>5. QED
    BY <1>1, <1>3, <1>4 DEF UploadInv

LEMMA UploadStutters == UploadInv /\ UNCHANGED uploadVars => UploadInv'
  BY DEF UploadInv, UploadTypeOK, OutcomeTrue, UploadedIsAccepted, Fresh, InHand, Answered, This,
         uploadVars, storeVars, serverVars, jobVars

LEMMA UploadStep == UploadInv /\ [UploadNext]_uploadVars => UploadInv'
  <1> SUFFICES ASSUME UploadInv, [UploadNext]_uploadVars PROVE UploadInv'
    OBVIOUS
  <1>1. CASE \E c \in Commands : Capture(c)
    BY <1>1, StartInv, SkipInv, CreateInv, ReportInv, CreationFailsInv DEF Capture
  <1>2. CASE \E c \in Commands : Upload(c)
    BY <1>2, BeginUploadsInv, BeginUploadInv, AcknowledgedInv, OutOfAttemptsInv, OutOfTimeInv,
       SettleInv, FinishInv DEF Upload
  <1>3. CASE \E c \in Commands : Fails(c)
    BY <1>3, RefusedInv, UnansweredInv, SettleFailsInv, KillInv DEF Fails
  <1>4. CASE \E c \in Commands, r \in RefUpdates : Retry(c, r)
    BY <1>4, RetryInv
  <1>5. CASE \E r \in RefUpdates : ArriveLate(r)
    BY <1>5, ArriveLateInv
  <1>6. CASE UNCHANGED uploadVars
    BY <1>6, UploadStutters
  <1>7. QED
    BY <1>1, <1>2, <1>3, <1>4, <1>5, <1>6 DEF UploadNext

LEMMA UploadInvariant == UploadSpec => []UploadInv
  BY UploadStarts, UploadStep, PTL DEF UploadSpec

-----------------------------------------------------------------------------
\* The theorems

\* Rows, outcomes and the state of every command have their types.
THEOREM UploadTypes == UploadSpec => []UploadTypeOK
  <1>1. UploadInv => UploadTypeOK
    BY DEF UploadInv
  <1>2. QED
    BY <1>1, UploadInvariant, PTL

\* What status says of a receipt that is uploaded: its acknowledgement is there, and
\* the server has it, for any number of uploads of it at once, in any order.
THEOREM UploadedRowsAreAccepted == UploadSpec => []UploadedIsAccepted
  <1>1. UploadInv => UploadedIsAccepted
    BY DEF UploadInv
  <1>2. QED
    BY <1>1, UploadInvariant, PTL

\* What status says of refs: generated means that there is a receipt, skipped or
\* failed that there is none, and a push that has ended left no ref without an outcome.
THEOREM PushAnswersForRefs == UploadSpec => []RefsAnswered
  <1>1. UploadInv => RefsAnswered
    <2> SUFFICES ASSUME UploadInv, NEW r \in RefUpdates, place[r[1]] = "done"
                 PROVE  outcome[r] # "none"
      BY DEF UploadInv, OutcomeTrue, RefsAnswered
    <2>1. PICK c \in Commands, i \in 1 .. Updates[r[1]] : c = r[1] /\ i = r[2] /\ r = <<c, i>>
      BY ReceiptPair
    <2>2. at[c] \in Nat /\ Updates[c] \in Nat /\ i \in 1 .. Updates[c]
      BY <2>1, UploadAssumption DEF UploadInv, UploadTypeOK
    <2>3. at[c] > Updates[c]
      BY <2>1 DEF UploadInv, Answered
    <2>4. i < at[c]
      BY <2>2, <2>3
    <2>5. QED
      BY <2>1, <2>2, <2>4 DEF UploadInv, Answered
  <1>2. QED
    BY <1>1, UploadInvariant, PTL
=================================================================================
