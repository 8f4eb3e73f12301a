-------------------------- MODULE ActivityViewsProofs --------------------------
(***************************************************************************)
(* Theorems about ActivityViews.  StoreInv is about the store alone, and   *)
(* Written and Quiet are what a step of a hook and of the reader does to   *)
(* it; Starts and Continues are the steps of the reader.  Each property    *)
(* then has an invariant of the reader's state of its own.                 *)
(***************************************************************************)
EXTENDS ActivityViews, FiniteSetTheorems, WellFoundedInduction, TLAPS

-----------------------------------------------------------------------------
\* Numbers and sequences

\* A set of natural numbers has a least element.
LEMMA Least ==
    ASSUME NEW T \in SUBSET Nat, T # {}
    PROVE  \E x \in T : \A y \in T : x <= y
  <1>1. PICK x \in T : \A y \in T : <<y, x>> \notin OpToRel(<, Nat)
    BY NatLessThanWellFounded, WFMin
  <1>2. \A y \in T : ~(y < x)
    BY <1>1 DEF OpToRel
  <1>3. QED
    BY <1>2

\* The function by which FlattenSeq is defined, for the first n sequences.
Flattens(f, ss, n) ==
    f = [i \in 1 .. n |-> IF i = 1 THEN ss[i] ELSE f[i - 1] \o ss[i]]

\* It exists for every n.
LEMMA FlatteningExists ==
    ASSUME NEW ss, NEW n \in Nat
    PROVE  \E f : Flattens(f, ss, n)
  <1> DEFINE T == {m \in Nat : ~ \E f : Flattens(f, ss, m)}
  <1> SUFFICES ASSUME T # {} PROVE FALSE
    OBVIOUS
  <1>1. PICK m \in T : \A k \in T : m <= k
    BY Least
  <1>2. Flattens(<<>>, ss, 0)
    BY DEF Flattens
  <1>3. m # 0 /\ m \in Nat
    BY <1>1, <1>2
  <1>4. PICK f : Flattens(f, ss, m - 1)
    BY <1>1, <1>3
  <1>5. PICK g : g = [i \in 1 .. m |-> IF i = 1 THEN ss[i] ELSE f[i - 1] \o ss[i]]
    OBVIOUS
  <1>6. ASSUME NEW i \in 1 .. m - 1
        PROVE  g[i] = f[i]
    <2>1. f[i] = (IF i = 1 THEN ss[i] ELSE f[i - 1] \o ss[i])
      BY <1>4 DEF Flattens
    <2>2. i \in 1 .. m
      BY <1>3
    <2>3. QED
      BY <1>5, <2>1, <2>2
  <1>7. \A i \in 1 .. m : i # 1 => i - 1 \in 1 .. m - 1
    BY <1>3
  <1>8. \A i \in 1 .. m : i # 1 => g[i - 1] = f[i - 1]
    BY <1>6, <1>7
  <1>9. g = [i \in 1 .. m |-> IF i = 1 THEN ss[i] ELSE g[i - 1] \o ss[i]]
    BY <1>5, <1>8
  <1>10. Flattens(g, ss, m)
    BY <1>9 DEF Flattens
  <1>11. QED
    BY <1>1, <1>10

\* Its values are sequences over S, none of them empty.
LEMMA FlatteningIs ==
    ASSUME NEW ss, NEW n \in Nat, NEW f, Flattens(f, ss, n), NEW S,
           \A i \in 1 .. n : ss[i] \in Seq(S) /\ ss[i] # <<>>
    PROVE  \A i \in 1 .. n : f[i] \in Seq(S) /\ f[i] # <<>>
  <1> DEFINE T == {i \in 1 .. n : ~(f[i] \in Seq(S) /\ f[i] # <<>>)}
  <1> SUFFICES ASSUME T # {} PROVE FALSE
    OBVIOUS
  <1>1. PICK i \in T : \A k \in T : i <= k
    <2>1. T \in SUBSET Nat
      OBVIOUS
    <2>2. QED
      BY <2>1, Least
  <1>2. i \in 1 .. n /\ f[i] = (IF i = 1 THEN ss[i] ELSE f[i - 1] \o ss[i])
    BY DEF Flattens
  <1>3. i # 1
    BY <1>2
  <1>4. i - 1 \in 1 .. n /\ i - 1 \notin T
    BY <1>1, <1>2, <1>3
  <1>5. f[i - 1] \in Seq(S) /\ f[i - 1] # <<>>
    BY <1>4
  <1>6. f[i] \in Seq(S) /\ f[i] # <<>>
    BY <1>2, <1>3, <1>5
  <1>7. QED
    BY <1>6

\* Flattening sequences of members of S, none of them empty.
LEMMA FlattenSeqIs ==
    ASSUME NEW S, NEW ss, NEW n \in Nat, n > 0, Len(ss) = n,
           \A i \in 1 .. n : ss[i] \in Seq(S) /\ ss[i] # <<>>
    PROVE  FlattenSeq(ss) \in Seq(S) /\ FlattenSeq(ss) # <<>>
  <1>1. PICK f : f = CHOOSE g : Flattens(g, ss, n)
    OBVIOUS
  <1>2. Flattens(f, ss, n)
    BY <1>1, FlatteningExists
  <1>3. FlattenSeq(ss) = f[n]
    BY <1>1 DEF FlattenSeq, Flattens
  <1>4. QED
    BY <1>2, <1>3, FlatteningIs

-----------------------------------------------------------------------------
\* Columns

ColumnNames ==
    {"session", "time", "agent", "phase", "tool", "action", "result", "outcome", "permission",
     "execution", "partial", "sensitive", "exit", "file", "files", "checkpoint", "collector"}

\* A row of columns.
Shaped(c) == DOMAIN c = ColumnNames /\ c = [name \in ColumnNames |-> c[name]]

\* What the columns of a report satisfy, and the queries rely on.
Faithful(c) ==
    /\ c.session \in Sessions /\ c.time \in Nat
    /\ c.files \in Seq(Paths) /\ c.file \in Paths \union {NoPath}
    /\ c.files # <<>> => c.file = Head(c.files)
    /\ c.exit => c.result = "error"
    /\ c.action # "file_delete"
    /\ ConfirmedChange(c) /\ c.tool = "apply_patch" /\ c.file = NoPath => c.files = <<>> /\ c.sensitive
    /\ c.files = <<>> /\ c.file \in SensitivePaths => c.sensitive

\* A patch that can be parsed names paths.
LEMMA PatchFiles ==
    ASSUME NEW r \in Report
    PROVE  /\ FilesOf(r) \in Seq(Paths)
           /\ FilesOf(r) # <<>> <=> IsPatch(r) /\ ~PatchLimited(r)
  <1>1. CASE IsPatch(r) /\ ~PatchLimited(r)
    <2>1. PICK n \in Nat : n = Len(r.patch)
      BY DEF Report
    <2>2. n > 0 /\ DOMAIN r.patch = 1 .. n /\ \A i \in 1 .. n : r.patch[i] \in Section
      BY <1>1, <2>1 DEF PatchLimited, Report
    <2>3. PICK ss : ss = [i \in DOMAIN r.patch |-> PathsOf(r.patch[i])]
      OBVIOUS
    <2>4. ASSUME NEW i \in 1 .. n
          PROVE  ss[i] \in Seq(Paths) /\ ss[i] # <<>>
      <3>1. r.patch[i].path \in Paths /\ r.patch[i].to \in Paths \union {NoPath}
        BY <2>2 DEF Section
      <3>2. QED
        BY <2>2, <2>3, <3>1 DEF PathsOf
    <2>5. Len(ss) = n
      BY <2>2, <2>3
    <2>6. FlattenSeq(ss) \in Seq(Paths) /\ FlattenSeq(ss) # <<>>
      BY <2>2, <2>4, <2>5, FlattenSeqIs
    <2>7. FilesOf(r) = FlattenSeq(ss)
      BY <1>1, <2>3 DEF FilesOf
    <2>8. QED
      BY <1>1, <2>6, <2>7
  <1>2. CASE ~(IsPatch(r) /\ ~PatchLimited(r))
    BY <1>2 DEF FilesOf
  <1>3. QED
    BY <1>1, <1>2

\* The file of an event is the first of its patch, or the path of its tool.
LEMMA PatchFile ==
    ASSUME NEW r \in Report
    PROVE  /\ FileOf(r) \in Paths \union {NoPath}
           /\ FilesOf(r) # <<>> => FileOf(r) = Head(FilesOf(r)) /\ FileOf(r) \in Paths
           /\ IsPatch(r) /\ FileOf(r) = NoPath => FilesOf(r) = <<>> /\ PatchLimited(r)
  <1>1. FilesOf(r) \in Seq(Paths) /\ (FilesOf(r) # <<>> <=> IsPatch(r) /\ ~PatchLimited(r))
    BY PatchFiles
  <1>2. FilesOf(r) # <<>> => Head(FilesOf(r)) \in Paths
    BY <1>1
  <1>3. r.path \in Paths \union {NoPath} /\ NoPath \notin Paths
    BY EvidenceAssumption DEF Report
  <1>4. QED
    BY <1>1, <1>2, <1>3 DEF FileOf

\* A nonzero exit code is the result of a tool that has run, an error.
LEMMA ExitIsError ==
    ASSUME NEW r \in Reports, NonzeroExit(r)
    PROVE  ResultOf(r) = "error"
  <1>1. r.phase = "post" /\ r.shape = "object" /\ r.blocks # <<>> /\ "exit" \in Head(r.blocks)
    <2>1. r.shape = "object" /\ "exit" \in Head(r.blocks)
      BY DEF NonzeroExit
    <2>2. (r.phase # "post" => r.shape = "none") /\ (r.shape = "object" => r.blocks # <<>>)
      BY ReportsAssumption
    <2>3. QED
      BY <2>1, <2>2
  <1>2. r \in Report
    BY ViewsAssumption
  <1>3. 1 \in DOMAIN r.blocks /\ Head(r.blocks) = r.blocks[1]
    BY <1>1, <1>2 DEF Report
  <1>4. \E b \in ToSet(r.blocks) : Bad(b)
    BY <1>1, <1>3 DEF ToSet, Bad
  <1>5. Head(r.blocks) \cap {"error", "exit"} # {}
    BY <1>1
  <1>6. QED
    <2>1. r.shape \notin {"none", "text"}
      BY <1>1
    <2>2. CodexResult(r) = "error"
      BY <1>4, <2>1 DEF CodexResult
    <2>3. ClaudeResult(r) = "error"
      BY <1>1, <1>5, <2>1 DEF ClaudeResult
    <2>4. QED
      BY <1>1, <2>2, <2>3 DEF ResultOf

\* The columns of every report are faithful.
LEMMA ColumnsFaithful ==
    ASSUME NEW r \in Reports, NEW s \in Sessions, NEW t \in Nat
    PROVE  Shaped(Columns(r, s, t)) /\ Faithful(Columns(r, s, t))
  <1>1. PICK c : c = Columns(r, s, t)
    OBVIOUS
  <1>2. r \in Report
    BY ViewsAssumption
  <1>3. /\ c.session = s /\ c.time = t /\ c.tool = r.tool /\ c.action = ActionOf(r)
        /\ c.result = ResultOf(r) /\ c.sensitive = IsSensitive(r) /\ c.exit = NonzeroExit(r)
        /\ c.file = FileOf(r) /\ c.files = FilesOf(r)
    BY <1>1 DEF Columns
  <1>4. Shaped(c)
    BY <1>1 DEF Columns, Shaped, ColumnNames
  <1>5. c.exit => c.result = "error"
    BY <1>3, ExitIsError
  <1>6. c.action # "file_delete"
    BY <1>3 DEF ActionOf, ToolAction
  <1>7. c.action = "file_write" /\ c.tool = "apply_patch" => IsPatch(r)
    BY <1>3 DEF ActionOf, ToolAction, IsPatch
  <1>8. ConfirmedChange(c) /\ c.tool = "apply_patch" /\ c.file = NoPath => c.files = <<>> /\ c.sensitive
    BY <1>2, <1>3, <1>6, <1>7, PatchFile DEF ConfirmedChange, Writes, IsSensitive
  <1>9. c.files = <<>> /\ c.file \in SensitivePaths => c.sensitive
    BY <1>3 DEF IsSensitive
  <1>10. Faithful(c)
    BY <1>2, <1>3, <1>5, <1>6, <1>8, <1>9, PatchFile, PatchFiles DEF Faithful
  <1>11. QED
    BY <1>1, <1>4, <1>10

\* Neither a checkpoint nor collector details matter to them.
LEMMA StaysFaithful ==
    ASSUME NEW c, Shaped(c), Faithful(c), NEW x, NEW y
    PROVE  /\ Shaped([c EXCEPT !.checkpoint = x, !.collector = y])
           /\ Faithful([c EXCEPT !.checkpoint = x, !.collector = y])
  <1>1. PICK d : d = [c EXCEPT !.checkpoint = x, !.collector = y]
    OBVIOUS
  <1>2. /\ DOMAIN d = ColumnNames
        /\ \A name \in ColumnNames \ {"checkpoint", "collector"} : d[name] = c[name]
    BY <1>1 DEF Shaped, ColumnNames
  <1>3. Shaped(d)
    BY <1>1, <1>2 DEF Shaped, ColumnNames
  <1>4. /\ d.session = c.session /\ d.time = c.time /\ d.phase = c.phase /\ d.tool = c.tool
        /\ d.action = c.action /\ d.result = c.result /\ d.outcome = c.outcome
        /\ d.execution = c.execution /\ d.sensitive = c.sensitive /\ d.exit = c.exit
        /\ d.file = c.file /\ d.files = c.files
    BY <1>2 DEF ColumnNames
  <1>5. QED
    BY <1>1, <1>3, <1>4 DEF Faithful, ConfirmedChange

\* Go and SQL find a warning in the same events.
LEMMA WarningsAgree ==
    ASSUME NEW c, Faithful(c)
    PROVE  FindingKinds(c) # {} <=> Warning(c)
  <1>1. SensitiveAccess(c) => FindingKinds(c) # {} /\ Warning(c)
    BY DEF FindingKinds, Warning
  <1>2. ~SensitiveAccess(c) /\ c.result \in Failed \union {"blocked", "rejected"} =>
           FindingKinds(c) # {} /\ Warning(c)
    BY DEF FindingKinds, Warning
  <1>3. ~SensitiveAccess(c) /\ c.result \notin Failed \union {"blocked", "rejected"} =>
           FindingKinds(c) = {} /\ ~Warning(c)
    BY DEF FindingKinds, Warning, Faithful, Failed
  <1>4. QED
    BY <1>1, <1>2, <1>3

-----------------------------------------------------------------------------
\* The store

\* A row of the events table.
IsRow(row) ==
    /\ row = [columns |-> row.columns, previous |-> row.previous, hash |-> row.hash, sequence |-> row.sequence]
    /\ Shaped(row.columns) /\ row.sequence \in Nat
    /\ row.columns.session \in Sessions
    /\ row.columns.checkpoint \in BOOLEAN /\ row.columns.collector \in BOOLEAN

\* A row as the store has written it.
Genuine(row) ==
    /\ IsRow(row) /\ Faithful(row.columns)
    /\ PrefixOf(row) \in HashFormats =>
         row.hash = Digest(PrefixOf(row), row.previous, row) /\ ~Unprotected(row)

StoreInv ==
    /\ clock \in Nat /\ damages \in Nat /\ IsFiniteSet(log)
    /\ \A row \in log : row.sequence <= clock
    /\ \A row \in log : IsRow(row) /\ \E w \in written : row.hash = w.hash
    /\ \A row \in written : Genuine(row)
    /\ damages = 0 => log \subseteq written

\* The quotient of a division.
LEMMA Division ==
    ASSUME NEW t \in Nat, NEW d \in Nat, d > 0
    PROVE  t \div d \in Nat /\ t < d * (t \div d) + d
  <1>1. t < d * (t \div d) + d
    OBVIOUS
  <1>2. t \div d \in Nat
    OBVIOUS
  <1>3. QED
    BY <1>1, <1>2

\* The day of a point in time.
LEMMA DayHolds ==
    ASSUME NEW t \in Nat
    PROVE  DayStart(t) \in Nat /\ t < DayStart(t) + DayLength
  <1>1. DayLength \in Nat /\ DayLength > 0
    BY ViewsAssumption
  <1>2. t \div DayLength \in Nat /\ t < DayLength * (t \div DayLength) + DayLength
    BY <1>1, Division
  <1>3. QED
    BY <1>1, <1>2 DEF DayStart

\* A set of natural numbers up to a bound has a maximum.
LEMMA MaxBounded ==
    ASSUME NEW T \in SUBSET Nat, T # {}, NEW n \in Nat, \A x \in T : x <= n
    PROVE  Max(T) \in T /\ \A x \in T : x <= Max(T)
  <1> DEFINE D == {n - x : x \in T}
  <1>1. ASSUME NEW d \in D
        PROVE  d \in Nat
    <2>1. PICK x \in T : d = n - x
      OBVIOUS
    <2>2. x \in Nat /\ x <= n
      OBVIOUS
    <2>3. QED
      BY <2>1, <2>2
  <1>2. PICK d \in D : \A e \in D : d <= e
    <2>1. D # {} /\ D \in SUBSET Nat
      BY <1>1
    <2>2. QED
      BY <2>1, Least
  <1>3. PICK m \in T : d = n - m
    OBVIOUS
  <1>4. \A x \in T : m >= x
    BY <1>2, <1>3
  <1>5. QED
    BY <1>4 DEF Max

\* A row that WriteEvent adds.
LEMMA NewRowIs ==
    ASSUME StoreInv, NEW c, Shaped(c), Faithful(c), c.collector = FALSE, c.checkpoint \in BOOLEAN
    PROVE  /\ Genuine(NewRow(log, c)) /\ NewRow(log, c).sequence <= clock + 1
           /\ NewRow(log, c) \notin log
  <1> DEFINE own == OfSession(log, c.session)
             T == {0} \union {r.sequence : r \in own}
  <1>1. T \in SUBSET Nat /\ \A x \in T : x <= clock
    BY DEF StoreInv, IsRow, OfSession
  <1>2. clock \in Nat
    BY DEF StoreInv
  <1>3. Max(T) \in T /\ \A x \in T : x <= Max(T)
    BY <1>1, <1>2, MaxBounded
  <1>4. Max(T) \in Nat /\ Max(T) <= clock
    BY <1>1, <1>3
  <1>5. \A r \in own : r.sequence <= Max(T)
    BY <1>3
  <1> HIDE DEF T
  <1>6. PICK row : row = [columns |-> c, previous |-> LastHash(own), hash |-> NoHash, sequence |-> 1 + Max(T)]
    OBVIOUS
  <1>7. PICK new : new = [row EXCEPT !.hash = Digest("v5", row.previous, row)]
    OBVIOUS
  <1>8. new = NewRow(log, c)
    BY <1>6, <1>7 DEF NewRow, T
  <1>9. /\ row.columns = c /\ row.sequence = 1 + Max(T) /\ new.columns = c
        /\ new.sequence = 1 + Max(T) /\ new.previous = row.previous
        /\ new.hash = Digest("v5", row.previous, row)
        /\ new = [columns |-> new.columns, previous |-> new.previous, hash |-> new.hash, sequence |-> new.sequence]
    BY <1>6, <1>7
  <1>10. IsRow(new) /\ new.sequence <= clock + 1
    <2>1. c.session \in Sessions /\ c.collector \in BOOLEAN /\ c.checkpoint \in BOOLEAN
      BY DEF Faithful
    <2>2. new.sequence \in Nat /\ new.sequence <= clock + 1
      BY <1>2, <1>4, <1>9
    <2>3. IsRow(new)
      BY <1>9, <2>1, <2>2 DEF IsRow
    <2>4. QED
      BY <2>2, <2>3
  <1>11. new.hash = Digest(PrefixOf(new), new.previous, new) /\ ~Unprotected(new)
    <2>1. CASE c.checkpoint = TRUE
      <3>1. PrefixOf(new) = "v5"
        BY <1>9, <2>1 DEF PrefixOf, Digest, NoHash
      <3>2. Digest("v5", row.previous, row) = Digest("v5", new.previous, new)
        BY <1>9 DEF Digest
      <3>3. ~Unprotected(new)
        BY <1>9, <2>1, <3>1 DEF Unprotected
      <3>4. QED
        BY <1>9, <3>1, <3>2, <3>3
    <2>2. CASE c.checkpoint = FALSE
      <3>1. PrefixOf(new) = "v4"
        BY <1>9, <2>2 DEF PrefixOf, Digest, NoHash
      <3>2. Digest("v5", row.previous, row) = Digest("v4", new.previous, new)
        BY <1>9, <2>2 DEF Digest
      <3>3. ~Unprotected(new)
        BY <1>9, <2>2, <3>1 DEF Unprotected
      <3>4. QED
        BY <1>9, <3>1, <3>2, <3>3
    <2>3. QED
      BY <2>1, <2>2
  <1>12. Genuine(new)
    BY <1>9, <1>10, <1>11 DEF Genuine
  <1>13. new \notin log
    <2>1. new \in log => new \in own
      BY <1>9 DEF OfSession
    <2>2. QED
      BY <1>4, <1>9, <1>5, <2>1
  <1>14. QED
    BY <1>8, <1>10, <1>12, <1>13

\* A row of an earlier version.
LEMMA EarlierIs ==
    ASSUME NEW rows \in OldTables, NEW row \in rows
    PROVE  Genuine(row) /\ row.sequence <= Cardinality(rows)
  <1>1. IsFiniteSet(rows) /\ Earlier(row, rows)
    BY OldTablesAssumption
  <1>2. Cardinality(rows) \in Nat
    BY <1>1, FS_CardinalityType
  <1>3. row.sequence \in Nat /\ row.sequence <= Cardinality(rows)
    BY <1>1, <1>2 DEF Earlier
  <1>4. PICK r \in Reports, s \in Sessions, t \in 0 .. Cardinality(rows), collector \in BOOLEAN :
          row.columns = [Columns(r, s, t) EXCEPT !.checkpoint = FALSE, !.collector = collector]
    BY <1>1 DEF Earlier
  <1>5. Shaped(row.columns) /\ Faithful(row.columns)
    <2>1. t \in Nat
      BY <1>2
    <2>2. Shaped(Columns(r, s, t)) /\ Faithful(Columns(r, s, t))
      BY <2>1, ColumnsFaithful
    <2>3. PICK c : c = Columns(r, s, t)
      OBVIOUS
    <2>4. row.columns = [c EXCEPT !.checkpoint = FALSE, !.collector = collector]
      BY <1>4, <2>3
    <2>5. Shaped([c EXCEPT !.checkpoint = FALSE, !.collector = collector])
      BY <2>2, <2>3, StaysFaithful
    <2>6. Faithful([c EXCEPT !.checkpoint = FALSE, !.collector = collector])
      BY <2>2, <2>3, StaysFaithful
    <2>7. QED
      BY <2>4, <2>5, <2>6
  <1>6. PICK format \in {"v2", "v3", "v4"} : row.hash = Digest(format, row.previous, row)
    BY <1>1 DEF Earlier
  <1>7. PrefixOf(row) = format
    BY <1>6 DEF PrefixOf, Digest, NoHash
  <1>8. PrefixOf(row) \in HashFormats => ~Unprotected(row)
    BY <1>1 DEF Earlier
  <1>9. IsRow(row)
    <2>1. row.columns.checkpoint \in BOOLEAN /\ row.columns.collector \in BOOLEAN
      BY <1>4 DEF Columns
    <2>2. QED
      BY <1>1, <1>3, <1>5, <2>1 DEF IsRow, Earlier, Faithful
  <1>10. QED
    BY <1>3, <1>5, <1>6, <1>7, <1>8, <1>9 DEF Genuine

-----------------------------------------------------------------------------
\* The steps

\* What a hook or damage does to the store.
Written ==
    /\ clock' \in Nat /\ clock <= clock' /\ damages' \in Nat /\ damages <= damages'
    /\ written \subseteq written' /\ IsFiniteSet(log')
    /\ damages' = 0 => log \subseteq log' /\ (clock' = clock => log' = log)
    /\ damages' = damages => log \ written \subseteq log' \ written'

Quiet == UNCHANGED <<log, sessions, clock, written, damages>>

\* Every step of the reader is one of these.
Reads ==
    \/ damages = 0 /\ (StartOverview \/ \E scope \in Repos \union {All} : StartReport(scope))
    \/ ReadRecent
    \/ \E drill \in Drills \ {"file"} : Drill(drill, All)
    \/ \E p \in Paths : Drill("file", p)
    \/ \E s \in Sessions : Investigate(s)
    \/ \E scope \in Repos \union {All} : StartVerify(scope)
    \/ ReadTotals \/ ReadGroup
    \/ StartExport \/ StartGate
    \/ VerifyRows \/ VerifySessions \/ ListRecords
    \/ Leave

\* A step belongs to a hook, which leaves the reader alone, or to the reader.
LEMMA TwoSides ==
    ASSUME [Next]_vars
    PROVE  \/ view.step \notin {"drilled", "done"} /\ Hooks
           \/ Reads
           \/ UNCHANGED vars
  BY DEF Next, Reads

\* The reader writes nothing.
LEMMA ReadsQuiet ==
    ASSUME Reads
    PROVE  Quiet
  <1>1. CASE StartOverview \/ \E scope \in Repos \union {All} : StartReport(scope)
    BY <1>1 DEF StartOverview, StartReport, Become, Quiet
  <1>2. CASE ReadRecent
    BY <1>2 DEF ReadRecent, Become, Quiet
  <1>3. CASE (\E drill \in Drills \ {"file"} : Drill(drill, All)) \/ \E p \in Paths : Drill("file", p)
    BY <1>3 DEF Drill, Become, Quiet
  <1>4. CASE \E s \in Sessions : Investigate(s)
    BY <1>4 DEF Investigate, Become, Quiet
  <1>5. CASE \E scope \in Repos \union {All} : StartVerify(scope)
    BY <1>5 DEF StartVerify, Become, Quiet
  <1>6. CASE ReadTotals
    BY <1>6 DEF ReadTotals, Become, Quiet
  <1>7. CASE ReadGroup
    BY <1>7 DEF ReadGroup, AddGroup, Become, Quiet
  <1>8. CASE StartExport \/ StartGate
    BY <1>8 DEF StartExport, StartGate, Become, Quiet
  <1>9. CASE VerifyRows
    BY <1>9 DEF VerifyRows, Become, Quiet
  <1>10. CASE VerifySessions
    BY <1>10 DEF VerifySessions, Become, Quiet
  <1>11. CASE ListRecords
    BY <1>11 DEF ListRecords, Become, Quiet
  <1>12. CASE Leave
    BY <1>12 DEF Leave, Become, Quiet
  <1>13. QED
    BY <1>1, <1>2, <1>3, <1>4, <1>5, <1>6, <1>7, <1>8, <1>9, <1>10, <1>11, <1>12 DEF Reads

\* A capture adds a genuine row that was not there.
LEMMA CaptureKeeps ==
    ASSUME StoreInv, NEW s \in Sessions, NEW report \in Reports, NEW lag \in Lags, Capture(s, report, lag)
    PROVE  StoreInv' /\ Written /\ view' = view /\ clock' = clock + 1
  <1>1. clock \in Nat /\ damages \in Nat /\ lag \in Nat /\ lag <= clock
    BY ViewsAssumption DEF StoreInv, Capture
  <1>2. clock - lag \in Nat
    BY <1>1
  <1>3. PICK c : c = Columns(report, s, clock - lag)
    OBVIOUS
  <1>4. Shaped(c) /\ Faithful(c)
    BY <1>2, <1>3, ColumnsFaithful
  <1>5. c.collector = FALSE /\ c.checkpoint \in BOOLEAN
    BY <1>3 DEF Columns
  <1>6. PICK row : row = NewRow(log, c)
    OBVIOUS
  <1>7. Genuine(row) /\ row.sequence <= clock + 1 /\ row \notin log
    BY <1>4, <1>5, <1>6, NewRowIs
  <1>8. /\ log' = log \union {row} /\ written' = written \union {row} /\ clock' = clock + 1
        /\ damages' = damages /\ view' = view
    BY <1>3, <1>6 DEF Capture
  <1>9. IsFiniteSet(log')
    BY <1>8, FS_AddElement DEF StoreInv
  <1>10. \A r \in log' : r.sequence <= clock'
    <2>1. ASSUME NEW r \in log
          PROVE  r.sequence <= clock'
      <3>1. r.sequence \in Nat /\ r.sequence <= clock
        BY DEF StoreInv, IsRow
      <3>2. QED
        BY <1>1, <1>8, <3>1
    <2>2. QED
      BY <1>7, <1>8, <2>1
  <1>11. \A r \in log' : IsRow(r) /\ \E w \in written' : r.hash = w.hash
    <2>1. IsRow(row)
      BY <1>7 DEF Genuine
    <2>2. \A r \in log : IsRow(r) /\ \E w \in written : r.hash = w.hash
      BY DEF StoreInv
    <2>3. QED
      BY <1>8, <2>1, <2>2
  <1>12. \A r \in written' : Genuine(r)
    BY <1>7, <1>8 DEF StoreInv
  <1>13. damages' = 0 => log' \subseteq written'
    BY <1>8 DEF StoreInv
  <1>14. StoreInv'
    BY <1>1, <1>8, <1>9, <1>10, <1>11, <1>12, <1>13 DEF StoreInv
  <1>15. Written
    BY <1>1, <1>7, <1>8, <1>9 DEF Written
  <1>16. QED
    BY <1>8, <1>14, <1>15

\* A changed row has the shape and the hash that it had.
LEMMA AlteredRow ==
    ASSUME NEW row, IsRow(row), NEW c \in Altered(row.columns)
    PROVE  /\ IsRow([row EXCEPT !.columns = c])
           /\ [row EXCEPT !.columns = c].hash = row.hash
           /\ [row EXCEPT !.columns = c].sequence = row.sequence
  <1>1. PICK d : d = row.columns
    OBVIOUS
  <1>2. PICK name \in ColumnNames : \E x : c = [d EXCEPT ![name] = x]
    BY <1>1 DEF Altered, ColumnNames
  <1>3. Shaped(c)
    BY <1>1, <1>2 DEF IsRow, Shaped
  <1>4. c.session \in Sessions /\ c.checkpoint \in BOOLEAN /\ c.collector \in BOOLEAN
    <2>1. /\ d.session \in Sessions /\ d.checkpoint \in BOOLEAN /\ d.collector \in BOOLEAN
          /\ DOMAIN d = ColumnNames
      BY <1>1 DEF IsRow, Shaped
    <2>2. CASE c \in {[d EXCEPT !.file = p] : p \in Paths}
      BY <2>1, <2>2 DEF ColumnNames
    <2>3. CASE c \in {[d EXCEPT !.outcome = o] : o \in {"success", "error"}}
      BY <2>1, <2>3 DEF ColumnNames
    <2>4. CASE c \in {[d EXCEPT !.files = <<p>>] : p \in SensitivePaths}
      BY <2>1, <2>4 DEF ColumnNames
    <2>5. CASE c = [d EXCEPT !.checkpoint = ~@]
      <3>1. c.checkpoint = ~d.checkpoint /\ c.session = d.session /\ c.collector = d.collector
        BY <2>1, <2>5 DEF ColumnNames
      <3>2. QED
        BY <2>1, <3>1
    <2>6. CASE c = [d EXCEPT !.collector = ~@]
      <3>1. c.collector = ~d.collector /\ c.session = d.session /\ c.checkpoint = d.checkpoint
        BY <2>1, <2>6 DEF ColumnNames
      <3>2. QED
        BY <2>1, <3>1
    <2>7. QED
      BY <1>1, <2>2, <2>3, <2>4, <2>5, <2>6 DEF Altered
  <1>5. PICK new : new = [row EXCEPT !.columns = c]
    OBVIOUS
  <1>6. new = [columns |-> c, previous |-> row.previous, hash |-> row.hash, sequence |-> row.sequence]
    BY <1>5 DEF IsRow
  <1>7. QED
    BY <1>3, <1>4, <1>5, <1>6 DEF IsRow

\* Damage changes no hash, and is counted.
LEMMA DamageKeeps ==
    ASSUME StoreInv, NEW row \in log, Damage(row)
    PROVE  StoreInv' /\ Written /\ view' = view /\ damages' # 0
  <1>1. clock' = clock /\ written' = written /\ view' = view /\ damages' = damages + 1 /\ damages' # 0
    BY DEF Damage, StoreInv
  <1>2. IsFiniteSet(log \ {row})
    BY FS_RemoveElement DEF StoreInv
  <1>3. CASE log' = log \ {row}
    BY <1>1, <1>2, <1>3 DEF StoreInv, Written
  <1>4. CASE \E c \in Altered(row.columns) : log' = (log \ {row}) \union {[row EXCEPT !.columns = c]}
    <2>1. PICK c \in Altered(row.columns) : log' = (log \ {row}) \union {[row EXCEPT !.columns = c]}
      BY <1>4
    <2>2. PICK new : new = [row EXCEPT !.columns = c]
      OBVIOUS
    <2>3. IsRow(new) /\ new.hash = row.hash /\ new.sequence = row.sequence
      BY <2>2, AlteredRow DEF StoreInv
    <2>4. log' = (log \ {row}) \union {new}
      BY <2>1, <2>2
    <2>5. IsFiniteSet(log')
      BY <1>2, <2>4, FS_AddElement
    <2>6. \A r \in log' : r.sequence <= clock
      BY <2>3, <2>4 DEF StoreInv
    <2>7. \A r \in log' : IsRow(r) /\ \E w \in written : r.hash = w.hash
      BY <2>3, <2>4 DEF StoreInv
    <2>8. QED
      BY <1>1, <2>5, <2>6, <2>7 DEF StoreInv, Written
  <1>5. QED
    BY <1>3, <1>4 DEF Damage

\* No step of the other side breaks the invariant of the store.
LEMMA HooksKeep ==
    ASSUME StoreInv, Hooks
    PROVE  StoreInv' /\ Written /\ view' = view
  <1>1. CASE \E s \in Sessions : Ensure(s) \/ \E repo \in Repos : Identify(s, repo)
    <2>1. UNCHANGED <<log, clock, written, damages, view>>
      BY <1>1 DEF Ensure, Identify
    <2>2. QED
      BY <2>1 DEF StoreInv, Written
  <1>2. CASE \E s \in Sessions, report \in Reports, lag \in Lags : Capture(s, report, lag)
    BY <1>2, CaptureKeeps
  <1>3. CASE NewDay
    <2>1. UNCHANGED <<log, written, damages, view>> /\ clock' = DayStart(clock) + DayLength
      BY <1>3 DEF NewDay
    <2>2. clock \in Nat /\ clock' \in Nat /\ clock < clock'
      BY <2>1, DayHolds, ViewsAssumption DEF StoreInv
    <2>3. \A row \in log : row.sequence <= clock'
      BY <2>2 DEF StoreInv, IsRow
    <2>4. QED
      BY <2>1, <2>2, <2>3 DEF StoreInv, Written
  <1>4. CASE \E row \in log : Damage(row)
    BY <1>4, DamageKeeps
  <1>5. QED
    BY <1>1, <1>2, <1>3, <1>4 DEF Hooks

\* The tables of an earlier version satisfy it.
LEMMA StoreInit ==
    ASSUME Init
    PROVE  StoreInv
  <1>1. log \in OldTables /\ clock = Cardinality(log) /\ written = log /\ damages = 0
    BY DEF Init
  <1>2. IsFiniteSet(log)
    BY <1>1, OldTablesAssumption
  <1>3. clock \in Nat
    BY <1>1, <1>2, FS_CardinalityType
  <1>4. \A row \in log : Genuine(row) /\ row.sequence <= clock
    BY <1>1, EarlierIs
  <1>5. \A row \in log : IsRow(row)
    BY <1>4 DEF Genuine
  <1>6. QED
    BY <1>1, <1>2, <1>3, <1>4, <1>5 DEF StoreInv

\* Every step keeps it.
LEMMA StoreNext ==
    ASSUME StoreInv, [Next]_vars
    PROVE  StoreInv'
  <1>1. CASE Hooks
    BY <1>1, HooksKeep
  <1>2. CASE Reads
    BY <1>2, ReadsQuiet DEF Quiet, StoreInv
  <1>3. CASE UNCHANGED vars
    BY <1>3 DEF vars, StoreInv
  <1>4. QED
    BY <1>1, <1>2, <1>3, TwoSides

-----------------------------------------------------------------------------
\* The reader

ViewNames ==
    {"command", "step", "scope", "from", "until", "clock", "groups", "rows", "recent", "drill",
     "of", "listed", "parts", "records", "findings", "verdict"}

ViewInv == DOMAIN view = ViewNames /\ view.clock \in Nat /\ view.clock <= clock

\* A command begins.
Starts ==
    \/ StartOverview \/ StartExport \/ StartGate
    \/ \E scope \in Repos \union {All} : StartReport(scope) \/ StartVerify(scope)

\* The reader before a command.
LEMMA IdleIs ==
    /\ DOMAIN Idle = ViewNames /\ Idle.command = "none" /\ Idle.step = "idle" /\ Idle.clock = 0
    /\ Idle.verdict = "none" /\ Idle.parts = {} /\ Idle.findings = {} /\ Idle.rows = {}
  BY DEF Idle, ViewNames

\* The reader at the beginning of a command.
LEMMA BeginIs ==
    ASSUME NEW command
    PROVE  /\ DOMAIN Begin(command) = ViewNames /\ Begin(command).command = command
           /\ Begin(command).clock = clock /\ Begin(command).verdict = "none"
           /\ Begin(command).parts = {} /\ Begin(command).findings = {}
  BY DEF Begin, Idle, ViewNames

\* A command starts with nothing found, at the present.
LEMMA StartsAre ==
    ASSUME Starts
    PROVE  /\ DOMAIN view' = ViewNames /\ view'.clock = clock /\ view'.verdict = "none"
           /\ view'.parts = {} /\ view'.findings = {}
           /\ view.step = "idle"
           /\ \/ StartOverview /\ view'.command = "overview" /\ view'.step = "recent"
              \/ StartExport /\ view'.command = "bom" /\ view'.step = "rows"
              \/ StartGate /\ view'.command = "gate" /\ view'.step = "rows"
              \/ /\ \E scope \in Repos \union {All} : StartReport(scope)
                 /\ view'.command = "report" /\ view'.step = "totals"
              \/ /\ \E scope \in Repos \union {All} : StartVerify(scope)
                 /\ view'.command = "verify" /\ view'.step = "rows"
  <1>1. ASSUME StartOverview
        PROVE  /\ DOMAIN view' = ViewNames /\ view'.clock = clock /\ view'.verdict = "none"
               /\ view'.parts = {} /\ view'.findings = {}
               /\ view.step = "idle" /\ view'.command = "overview" /\ view'.step = "recent"
    BY <1>1, BeginIs, IdleIs DEF StartOverview, Become, ViewNames
  <1>2. ASSUME StartExport
        PROVE  /\ DOMAIN view' = ViewNames /\ view'.clock = clock /\ view'.verdict = "none"
               /\ view'.parts = {} /\ view'.findings = {}
               /\ view.step = "idle" /\ view'.command = "bom" /\ view'.step = "rows"
    BY <1>2, BeginIs, IdleIs DEF StartExport, Become, ViewNames
  <1>3. ASSUME StartGate
        PROVE  /\ DOMAIN view' = ViewNames /\ view'.clock = clock /\ view'.verdict = "none"
               /\ view'.parts = {} /\ view'.findings = {}
               /\ view.step = "idle" /\ view'.command = "gate" /\ view'.step = "rows"
    BY <1>3, BeginIs, IdleIs DEF StartGate, Become, ViewNames
  <1>4. ASSUME NEW scope \in Repos \union {All}, StartReport(scope)
        PROVE  /\ DOMAIN view' = ViewNames /\ view'.clock = clock /\ view'.verdict = "none"
               /\ view'.parts = {} /\ view'.findings = {}
               /\ view.step = "idle" /\ view'.command = "report" /\ view'.step = "totals"
    BY <1>4, BeginIs, IdleIs DEF StartReport, Become, ViewNames
  <1>5. ASSUME NEW scope \in Repos \union {All}, StartVerify(scope)
        PROVE  /\ DOMAIN view' = ViewNames /\ view'.clock = clock /\ view'.verdict = "none"
               /\ view'.parts = {} /\ view'.findings = {}
               /\ view.step = "idle" /\ view'.command = "verify" /\ view'.step = "rows"
    BY <1>5, BeginIs, IdleIs DEF StartVerify, Become, ViewNames
  <1>6. QED
    BY <1>1, <1>2, <1>3, <1>4, <1>5 DEF Starts

\* The reader changes these fields of its state.
Changes(names) == DOMAIN view' = ViewNames /\ \A name \in ViewNames \ names : view'[name] = view[name]

\* A step of a command, from the step before it.
Continues ==
    \/ view.step = "recent" /\ ReadRecent /\ Changes({"step", "recent"}) /\ view'.step = "page"
    \/ /\ view.step = "page" /\ \E drill \in Drills, p \in Paths \union {All} :
                                   (drill = "file" => p \in Paths) /\ Drill(drill, p)
       /\ Changes({"step", "drill", "of", "listed"}) /\ view'.step = "drilled" /\ view'.drill \in Drills
    \/ /\ view.step = "page" /\ \E s \in Sessions : Investigate(s)
       /\ Changes({"step", "drill", "of", "listed"}) /\ view'.step = "drilled" /\ view'.drill = "session"
    \/ view.step = "drilled" /\ Changes({"step", "drill", "of", "listed"}) /\ view'.step = "page"
    \/ view.step = "totals" /\ ReadTotals /\ Changes({"step", "rows"}) /\ view'.step \in {"groups", "done"}
    \/ view.step = "groups" /\ ReadGroup /\ Changes({"step", "groups", "parts"}) /\ view'.step \in {"groups", "done"}
    \/ view.step = "rows" /\ VerifyRows /\ Changes({"step", "rows", "findings"}) /\ view'.step = "sessions"
    \/ /\ view.step = "sessions" /\ VerifySessions /\ Changes({"step", "findings", "verdict"})
       /\ view'.step \in {"list", "done"} /\ view.command \in {"bom", "gate", "verify"}
    \/ view.step = "list" /\ ListRecords /\ Changes({"step", "from", "records", "verdict"}) /\ view'.step = "done"

\* Every step of the reader begins a command, continues it or leaves its result.
LEMMA ReadsAre ==
    ASSUME ViewInv, Reads
    PROVE  \/ Starts
           \/ Continues
           \/ view.step \in {"page", "done"} /\ view' = Idle
  <1> USE DEF ViewInv
  <1>1. CASE StartOverview \/ \E scope \in Repos \union {All} : StartReport(scope)
    BY <1>1 DEF Starts
  <1>2. CASE ReadRecent
    <2>1. Changes({"step", "recent"}) /\ view'.step = "page" /\ view.step = "recent"
      BY <1>2 DEF ReadRecent, Become, Changes, ViewNames
    <2>2. QED
      BY <1>2, <2>1 DEF Continues
  <1>3. CASE (\E drill \in Drills \ {"file"} : Drill(drill, All)) \/ \E p \in Paths : Drill("file", p)
    <2>1. PICK drill \in Drills, p \in Paths \union {All} : (drill = "file" => p \in Paths) /\ Drill(drill, p)
      BY <1>3 DEF Drills
    <2>2. Changes({"step", "drill", "of", "listed"}) /\ view'.step = "drilled" /\ view'.drill = drill /\ view.step = "page"
      BY <2>1 DEF Drill, Become, Changes, ViewNames
    <2>3. QED
      BY <2>1, <2>2 DEF Continues
  <1>4. CASE \E s \in Sessions : Investigate(s)
    <2>1. Changes({"step", "drill", "of", "listed"}) /\ view'.step = "drilled" /\ view'.drill = "session" /\ view.step = "page"
      BY <1>4 DEF Investigate, Become, Changes, ViewNames
    <2>2. QED
      BY <1>4, <2>1 DEF Continues
  <1>5. CASE \E scope \in Repos \union {All} : StartVerify(scope)
    BY <1>5 DEF Starts
  <1>6. CASE ReadTotals
    <2>1. Changes({"step", "rows"}) /\ view'.step \in {"groups", "done"} /\ view.step = "totals"
      BY <1>6 DEF ReadTotals, Become, Changes, ViewNames
    <2>2. QED
      BY <1>6, <2>1 DEF Continues
  <1>7. CASE ReadGroup
    <2>1. Changes({"step", "groups", "parts"}) /\ view'.step \in {"groups", "done"} /\ view.step = "groups"
      BY <1>7 DEF ReadGroup, AddGroup, Become, Changes, ViewNames
    <2>2. QED
      BY <1>7, <2>1 DEF Continues
  <1>8. CASE StartExport \/ StartGate
    BY <1>8 DEF Starts
  <1>9. CASE VerifyRows
    <2>1. Changes({"step", "rows", "findings"}) /\ view'.step = "sessions" /\ view.step = "rows"
      BY <1>9 DEF VerifyRows, Become, Changes, ViewNames
    <2>2. QED
      BY <1>9, <2>1 DEF Continues
  <1>10. CASE VerifySessions
    <2>1. /\ Changes({"step", "findings", "verdict"}) /\ view'.step \in {"list", "done"} /\ view.step = "sessions"
          /\ view.command \in {"bom", "gate", "verify"}
      BY <1>10 DEF VerifySessions, Become, Changes, ViewNames
    <2>2. QED
      BY <1>10, <2>1 DEF Continues
  <1>11. CASE ListRecords
    <2>1. Changes({"step", "from", "records", "verdict"}) /\ view'.step = "done" /\ view.step = "list"
      BY <1>11 DEF ListRecords, Become, Changes, ViewNames
    <2>2. QED
      BY <1>11, <2>1 DEF Continues
  <1>12. CASE Leave
    <2>1. CASE view.step = "drilled" /\ Become([view EXCEPT !.step = "page", !.drill = "none", !.of = All, !.listed = {}])
      <3>1. Changes({"step", "drill", "of", "listed"}) /\ view'.step = "page" /\ view.step = "drilled"
        BY <2>1 DEF Become, Changes, ViewNames
      <3>2. QED
        BY <3>1 DEF Continues
    <2>2. CASE view.step \in {"page", "done"} /\ Become(Idle)
      BY <2>2 DEF Become
    <2>3. QED
      BY <1>12, <2>1, <2>2 DEF Leave
  <1>13. QED
    BY <1>1, <1>2, <1>3, <1>4, <1>5, <1>6, <1>7, <1>8, <1>9, <1>10, <1>11, <1>12 DEF Reads

\* The reader is idle at first.
LEMMA ViewInit ==
    ASSUME Init, StoreInv
    PROVE  ViewInv /\ view = Idle
  BY IdleIs DEF Init, ViewInv, StoreInv

\* Every step keeps the shape of the reader, and its time in the past.
LEMMA ViewNext ==
    ASSUME StoreInv, ViewInv, [Next]_vars
    PROVE  ViewInv'
  <1>1. CASE Hooks
    <2>1. view' = view /\ clock' \in Nat /\ clock <= clock'
      BY <1>1, HooksKeep DEF Written
    <2>2. clock \in Nat
      BY DEF StoreInv
    <2>3. QED
      BY <2>1, <2>2 DEF ViewInv
  <1>2. CASE Reads
    <2>1. clock' = clock /\ clock \in Nat
      BY <1>2, ReadsQuiet DEF Quiet, StoreInv
    <2>2. CASE Starts
      BY <2>1, <2>2, StartsAre DEF ViewInv
    <2>3. CASE Continues
      BY <2>1, <2>3 DEF ViewInv, Continues, Changes, ViewNames
    <2>4. CASE view' = Idle
      BY <2>1, <2>4, IdleIs DEF ViewInv
    <2>5. QED
      BY <1>2, <2>2, <2>3, <2>4, ReadsAre
  <1>3. CASE UNCHANGED vars
    BY <1>3 DEF vars, ViewInv
  <1>4. QED
    BY <1>1, <1>2, <1>3, TwoSides

Base == StoreInv /\ ViewInv

\* The store and the reader are well formed, and a row of the table is as it was
\* stored unless it has been damaged.
THEOREM StoreIsSound == Spec => []Base
  <1>1. Init => Base
    BY StoreInit, ViewInit DEF Base
  <1>2. Base /\ [Next]_vars => Base'
    BY StoreNext, ViewNext DEF Base
  <1>3. QED
    BY <1>1, <1>2, PTL DEF Spec

-----------------------------------------------------------------------------
\* The report

\* Groups of sessions that share nothing.
Apart(groups) ==
    \A g, h \in groups : g # h => g.repo # h.repo /\ g.sessions \intersect h.sessions = {}

\* The parts that have been read, and what is still to be read.
PartsApart ==
    /\ view.step = "totals" => view.parts = {}
    /\ \A part, other \in view.parts : part.repo # other.repo => part.rows \intersect other.rows = {}
    /\ \A part \in view.parts : \A row \in part.rows : row.columns.session \notin SessionsOf(view.groups)
TotalsCovered ==
    /\ view.rows \subseteq In(log, view.from, view.until)
    /\ \A row \in view.rows : \/ row.columns.session \in SessionsOf(view.groups)
                              \/ \E part \in view.parts : row \in part.rows
    /\ Unwritten => /\ In(RowsOf(SessionsOf(view.groups)), view.from, view.until) \subseteq view.rows
                    /\ \A part \in view.parts : part.rows \subseteq view.rows
ReportInv ==
    view.command = "report" =>
      /\ view.step \in {"totals", "groups", "done"}
      /\ view.step = "groups" => view.groups # {}
      /\ view.step = "done" /\ view.scope = All => view.groups = {}
      /\ Apart(view.groups) /\ PartsApart
      /\ damages = 0 /\ view.step # "totals" => TotalsCovered

\* GroupCaptured makes groups that share nothing.
LEMMA GroupsApart ==
    ASSUME NEW scope
    PROVE  Apart(Groups(scope))
  BY DEF Apart, Groups

\* A report begins with its groups.
LEMMA ReportStarts ==
    ASSUME Base, NEW scope \in Repos \union {All}, StartReport(scope)
    PROVE  ReportInv'
  <1>1. view'.parts = {} /\ view'.step = "totals"
    BY BeginIs, IdleIs DEF StartReport, Become, ViewNames
  <1>2. view'.groups = Groups(scope)
    BY BeginIs DEF StartReport, Become, ViewNames
  <1>3. Apart(view'.groups)
    BY <1>2, GroupsApart
  <1>4. PartsApart'
    BY <1>1 DEF PartsApart
  <1>5. QED
    BY <1>1, <1>3, <1>4 DEF ReportInv

\* The totals are the rows of all groups.
LEMMA ReportTotals ==
    ASSUME Base, ReportInv, view.command = "report", ReadTotals, Quiet
    PROVE  ReportInv'
  <1>1. /\ view.step = "totals" /\ view.parts = {}
        /\ view'.groups = view.groups /\ view'.parts = view.parts /\ view'.scope = view.scope
        /\ view'.from = view.from /\ view'.until = view.until /\ view'.clock = view.clock
        /\ view'.rows = In(RowsOf(SessionsOf(view.groups)), view.from, view.until)
        /\ view'.step = IF view.scope = All /\ view.groups # {} THEN "groups" ELSE "done"
    BY DEF ReadTotals, Become, Base, ViewInv, ViewNames, ReportInv, PartsApart
  <1>2. log' = log
    BY DEF Quiet
  <1>3. PartsApart'
    BY <1>1 DEF PartsApart
  <1>4. TotalsCovered'
    BY <1>1, <1>2 DEF TotalsCovered, In, RowsOf
  <1>5. Apart(view'.groups)
    BY <1>1 DEF ReportInv
  <1>6. QED
    BY <1>1, <1>3, <1>4, <1>5 DEF ReportInv

\* A group becomes a part, of rows that no other part has.
LEMMA ReportGroup ==
    ASSUME Base, ReportInv, view.command = "report", ReadGroup, Quiet
    PROVE  ReportInv'
  <1>1. PICK g : g = NextGroup
    OBVIOUS
  <1>2. view.step = "groups" /\ view.groups # {} /\ g \in view.groups
    BY <1>1 DEF ReadGroup, ReportInv, NextGroup
  <1>3. PICK rows : rows = In(RowsOf(g.sessions), view.from, view.until)
    OBVIOUS
  <1>4. PICK more : more = IF rows = {} THEN {} ELSE {[repo |-> g.repo, rows |-> rows]}
    OBVIOUS
  <1>5. /\ view'.groups = view.groups \ {g} /\ view'.parts = view.parts \union more
        /\ view'.scope = view.scope /\ view'.rows = view.rows
        /\ view'.from = view.from /\ view'.until = view.until /\ view'.clock = view.clock
        /\ view'.step = IF view.groups = {g} THEN "done" ELSE "groups"
    BY <1>1, <1>3, <1>4 DEF ReadGroup, AddGroup, Become, Base, ViewInv, ViewNames
  <1>6. log' = log /\ clock' = clock /\ damages' = damages
    BY DEF Quiet
  <1>7. \A part \in more : part.rows = rows
    BY <1>4
  <1>8. \A row \in rows : /\ row \in log /\ row.columns.session \in g.sessions
                          /\ row \in In(log, view.from, view.until)
    BY <1>3 DEF In, RowsOf
  <1>9. /\ SessionsOf(view'.groups) \subseteq SessionsOf(view.groups)
        /\ \A s \in g.sessions : s \in SessionsOf(view.groups) /\ s \notin SessionsOf(view'.groups)
        /\ \A s \in SessionsOf(view.groups) : s \in g.sessions \/ s \in SessionsOf(view'.groups)
    BY <1>2, <1>5 DEF SessionsOf, ReportInv, Apart
  <1>10. Apart(view'.groups)
    BY <1>5 DEF ReportInv, Apart
  <1>11. PartsApart'
    <2>1. PartsApart /\ view'.step # "totals"
      BY <1>5 DEF ReportInv
    <2>2. \A part \in view'.parts : \A row \in part.rows : row.columns.session \notin SessionsOf(view'.groups)
      BY <1>5, <1>7, <1>8, <1>9, <2>1 DEF PartsApart
    <2>3. \A part \in view.parts : part.rows \intersect rows = {}
      BY <1>8, <1>9, <2>1 DEF PartsApart
    <2>4. \A part, other \in view'.parts : part.repo # other.repo => part.rows \intersect other.rows = {}
      <3>1. \A part, other \in more : part.repo = other.repo
        BY <1>4
      <3>2. \A part, other \in view.parts : part.repo # other.repo => part.rows \intersect other.rows = {}
        BY <2>1 DEF PartsApart
      <3>3. QED
        BY <1>5, <1>7, <2>3, <3>1, <3>2
    <2>5. QED
      BY <2>1, <2>2, <2>4 DEF PartsApart
  <1>12. ASSUME damages = 0
         PROVE  TotalsCovered'
    <2>1. TotalsCovered
      BY <1>2, <1>12 DEF ReportInv
    <2>2. view'.rows \subseteq In(log', view'.from, view'.until)
      BY <1>5, <1>6, <2>1 DEF TotalsCovered
    <2>3. ASSUME NEW row \in view.rows
          PROVE  \/ row.columns.session \in SessionsOf(view'.groups)
                 \/ \E part \in view'.parts : row \in part.rows
      <3>1. CASE \E part \in view.parts : row \in part.rows
        BY <1>5, <3>1
      <3>2. CASE row.columns.session \in SessionsOf(view.groups) /\ row.columns.session \notin SessionsOf(view'.groups)
        <4>1. row \in In(log, view.from, view.until) /\ row.columns.session \in g.sessions
          BY <1>9, <2>1, <3>2 DEF TotalsCovered
        <4>2. row \in rows
          BY <1>3, <4>1 DEF In, RowsOf
        <4>3. [repo |-> g.repo, rows |-> rows] \in view'.parts
          BY <1>4, <1>5, <4>2
        <4>4. QED
          BY <4>2, <4>3
      <3>3. QED
        BY <2>1, <3>1, <3>2 DEF TotalsCovered
    <2>4. ASSUME Unwritten'
          PROVE  /\ In(RowsOf(SessionsOf(view.groups)), view.from, view.until)' \subseteq view'.rows
                 /\ \A part \in view'.parts : part.rows \subseteq view'.rows
      <3>1. Unwritten
        BY <1>5, <1>6, <2>4 DEF Unwritten
      <3>2. /\ In(RowsOf(SessionsOf(view.groups)), view.from, view.until) \subseteq view.rows
            /\ \A part \in view.parts : part.rows \subseteq view.rows
        BY <2>1, <3>1 DEF TotalsCovered
      <3>3. rows \subseteq view.rows
        BY <1>3, <1>9, <3>2 DEF In, RowsOf
      <3>4. In(RowsOf(SessionsOf(view.groups)), view.from, view.until)' \subseteq view.rows
        BY <1>5, <1>6, <1>9, <3>2 DEF In, RowsOf
      <3>5. QED
        BY <1>5, <1>7, <3>2, <3>3, <3>4
    <2>5. QED
      BY <1>5, <2>2, <2>3, <2>4 DEF TotalsCovered
  <1>13. /\ view'.step \in {"totals", "groups", "done"}
         /\ view'.step = "groups" => view'.groups # {}
         /\ view'.step = "done" => view'.groups = {}
    BY <1>2, <1>5
  <1>14. damages' = 0 => TotalsCovered'
    BY <1>6, <1>12
  <1>15. QED
    BY <1>10, <1>11, <1>13, <1>14 DEF ReportInv

\* Every step keeps the invariant of the report.
LEMMA ReportNext ==
    ASSUME Base, ReportInv, [Next]_vars
    PROVE  ReportInv'
  <1>1. CASE Hooks
    <2>1. view' = view /\ Written /\ clock \in Nat /\ view.clock \in Nat /\ view.clock <= clock
      BY <1>1, HooksKeep DEF Base, StoreInv, ViewInv
    <2>2. PartsApart => PartsApart'
      BY <2>1 DEF PartsApart
    <2>3. ASSUME TotalsCovered, damages' = 0
          PROVE  TotalsCovered'
      <3>1. log \subseteq log' /\ (clock' = clock => log' = log)
        BY <2>1, <2>3 DEF Written
      <3>2. Unwritten' => clock' = clock /\ Unwritten
        BY <2>1 DEF Unwritten, Written
      <3>3. view'.rows \subseteq In(log', view'.from, view'.until)
        BY <2>1, <2>3, <3>1 DEF TotalsCovered, In
      <3>4. \A row \in view'.rows : \/ row.columns.session \in SessionsOf(view'.groups)
                                    \/ \E part \in view'.parts : row \in part.rows
        BY <2>1, <2>3 DEF TotalsCovered
      <3>5. Unwritten' => /\ In(RowsOf(SessionsOf(view.groups)), view.from, view.until)' \subseteq view'.rows
                          /\ \A part \in view'.parts : part.rows \subseteq view'.rows
        BY <2>1, <2>3, <3>1, <3>2 DEF TotalsCovered, In, RowsOf
      <3>6. QED
        BY <3>3, <3>4, <3>5 DEF TotalsCovered
    <2>4. damages' = 0 => damages = 0
      BY <2>1 DEF Written, Base, StoreInv
    <2>5. QED
      BY <2>1, <2>2, <2>3, <2>4 DEF ReportInv
  <1>2. CASE Reads
    <2>1. Quiet
      BY <1>2, ReadsQuiet
    <2>2. CASE Starts
      <3>1. CASE \E scope \in Repos \union {All} : StartReport(scope)
        BY <3>1, ReportStarts
      <3>2. CASE ~ \E scope \in Repos \union {All} : StartReport(scope)
        <4>1. view'.command # "report"
          BY <2>2, <3>2, StartsAre
        <4>2. QED
          BY <4>1 DEF ReportInv
      <3>3. QED
        BY <3>1, <3>2
    <2>3. CASE Continues
      <3>1. CASE view.command = "report"
        <4>1. view.step \in {"totals", "groups", "done"}
          BY <3>1 DEF ReportInv
        <4>2. ReadTotals \/ ReadGroup
          BY <2>3, <4>1 DEF Continues
        <4>3. QED
          BY <2>1, <3>1, <4>2, ReportTotals, ReportGroup
      <3>2. CASE view.command # "report"
        <4>1. view'.command = view.command
          BY <2>3 DEF Continues, Changes, ViewNames
        <4>2. QED
          BY <3>2, <4>1 DEF ReportInv
      <3>3. QED
        BY <3>1, <3>2
    <2>4. CASE view' = Idle
      BY <2>4, IdleIs DEF ReportInv
    <2>5. QED
      BY <1>2, <2>2, <2>3, <2>4, ReadsAre DEF Base
  <1>3. CASE UNCHANGED vars
    BY <1>3 DEF vars, ReportInv, PartsApart, TotalsCovered, Unwritten, RowsOf
  <1>4. QED
    BY <1>1, <1>2, <1>3, TwoSides

\* A report on all repositories leaves out no event of its totals and has none
\* twice, for any repositories, sessions, reports and window, and however many
\* sessions are captured or change repository while it is made.
THEOREM ReportIsComplete == Spec => []GroupsCoverTotals
  <1>1. Init => ReportInv
    BY IdleIs DEF Init, ReportInv
  <1>2. Base /\ ReportInv /\ [Next]_vars => ReportInv'
    BY ReportNext
  <1>3. ReportInv => GroupsCoverTotals
    <2> SUFFICES ASSUME ReportInv, view.command = "report", view.step = "done", view.scope = All, damages = 0
                 PROVE  /\ \A row \in view.rows : \E part \in view.parts : row \in part.rows
                        /\ \A part, other \in view.parts : part.repo # other.repo => part.rows \intersect other.rows = {}
                        /\ Unwritten => UNION {part.rows : part \in view.parts} = view.rows
      BY DEF GroupsCoverTotals, Undamaged
    <2>1. view.groups = {} /\ PartsApart /\ TotalsCovered
      BY DEF ReportInv
    <2>2. SessionsOf(view.groups) = {}
      BY <2>1 DEF SessionsOf
    <2>3. \A row \in view.rows : \E part \in view.parts : row \in part.rows
      BY <2>1, <2>2 DEF TotalsCovered
    <2>4. Unwritten => \A part \in view.parts : part.rows \subseteq view.rows
      BY <2>1 DEF TotalsCovered
    <2>5. QED
      BY <2>1, <2>3, <2>4 DEF PartsApart
  <1>4. QED
    BY <1>1, <1>2, <1>3, StoreIsSound, PTL DEF Spec

-----------------------------------------------------------------------------
\* The gate

\* The score of a record.
LEMMA ScoreIs ==
    ASSUME NEW record,
           NEW points \in Int,
           points = (IF record.sensitive THEN 70 ELSE 0)
                    + (IF record.path = NoPath THEN 0 ELSE Points[record.path]),
           points >= 45
    PROVE  Score(record) \in Nat /\ Score(record) >= 45
  <1>1. PICK capped : capped = Min({100, points})
    OBVIOUS
  <1>2. capped \in {100, points} /\ capped <= 100 /\ capped <= points
    BY <1>1 DEF Min
  <1>3. PICK score : score = Max({0, capped})
    OBVIOUS
  <1>4. score \in {0, capped} /\ score >= 0 /\ score >= capped
    BY <1>2, <1>3 DEF Max
  <1>5. Score(record) = score
    BY <1>1, <1>3 DEF Score
  <1>6. QED
    BY <1>2, <1>4, <1>5

\* Rank 3 at least.
LEMMA RankIs ==
    ASSUME NEW record, Score(record) \in Nat, Score(record) >= 45
    PROVE  Rank(record) \in Nat /\ Rank(record) >= 3
  <1> DEFINE bounds == {bound \in {0, 20, 45, 70} : Score(record) >= bound}
  <1>1. IsFiniteSet({0, 20, 45}) /\ Cardinality({0, 20, 45}) = 3
    <2>1. IsFiniteSet({}) /\ Cardinality({}) = 0
      BY FS_EmptySet
    <2>2. IsFiniteSet({0}) /\ Cardinality({0}) = 1
      BY FS_Singleton
    <2>3. IsFiniteSet({0} \union {20}) /\ Cardinality({0} \union {20}) = 2
      <3>1. 20 \notin {0}
        OBVIOUS
      <3>2. Cardinality({0} \union {20}) = Cardinality({0}) + 1
        BY <2>2, <3>1, FS_AddElement
      <3>3. IsFiniteSet({0} \union {20})
        BY <2>2, FS_AddElement
      <3>4. QED
        BY <2>2, <3>2, <3>3
    <2>4. IsFiniteSet(({0} \union {20}) \union {45}) /\ Cardinality(({0} \union {20}) \union {45}) = 3
      <3>1. 45 \notin {0} \union {20}
        OBVIOUS
      <3>2. Cardinality(({0} \union {20}) \union {45}) = Cardinality({0} \union {20}) + 1
        BY <2>3, <3>1, FS_AddElement
      <3>3. IsFiniteSet(({0} \union {20}) \union {45})
        BY <2>3, FS_AddElement
      <3>4. QED
        BY <2>3, <3>2, <3>3
    <2>5. ({0} \union {20}) \union {45} = {0, 20, 45}
      OBVIOUS
    <2>6. QED
      BY <2>4, <2>5
  <1>2. IsFiniteSet({0, 20, 45} \union {70})
    BY <1>1, FS_AddElement
  <1>3. bounds \subseteq {0, 20, 45} \union {70}
    OBVIOUS
  <1>4. IsFiniteSet(bounds)
    BY <1>2, <1>3, FS_Subset
  <1>5. {0, 20, 45} \subseteq bounds
    OBVIOUS
  <1>6. Cardinality(bounds) \in Nat /\ Cardinality({0, 20, 45}) <= Cardinality(bounds)
    BY <1>4, <1>5, FS_Subset, FS_CardinalityType
  <1>7. Rank(record) = Cardinality(bounds)
    BY DEF Rank
  <1>8. QED
    BY <1>1, <1>6, <1>7

\* A grave change has a record of high risk.
LEMMA GraveRecord ==
    ASSUME NEW rows, NEW row \in rows, Faithful(row.columns), Grave(row.columns)
    PROVE  \E record \in Provenance(rows) : Rank(record) \in Nat /\ Rank(record) >= 3
  <1>1. PICK c : c = row.columns
    OBVIOUS
  <1>2. c.action = "file_write" /\ ConfirmedChange(c)
    BY <1>1 DEF Faithful, Grave, ConfirmedChange, Writes
  <1>3. c.files \in Seq(Paths) /\ c.file \in Paths \union {NoPath}
    BY <1>1 DEF Faithful
  <1>4. row \in {r \in Those(rows, ConfirmedChange) : r.columns.action = "file_write"}
    BY <1>1, <1>2 DEF Those
  <1>5. ASSUME NEW record, record.sensitive = TRUE, record.path \in Paths \union {NoPath}
        PROVE  Rank(record) \in Nat /\ Rank(record) >= 3
    <2>1. PICK more \in Int : more = (IF record.path = NoPath THEN 0 ELSE Points[record.path]) /\ more >= -15
      BY <1>5, EvidenceAssumption
    <2>2. PICK points \in Int : points = 70 + more
      BY <2>1
    <2>3. points = (IF record.sensitive THEN 70 ELSE 0) + (IF record.path = NoPath THEN 0 ELSE Points[record.path])
      BY <1>5, <2>1, <2>2
    <2>4. points >= 45
      BY <2>1, <2>2
    <2>5. QED
      BY <2>3, <2>4, ScoreIs, RankIs
  <1>6. CASE c.files = <<>>
    <2>1. c.sensitive
      BY <1>1, <1>2, <1>6 DEF Grave, Faithful, AppliedPaths
    <2>2. PICK record : record = [row |-> row, path |-> c.file, sensitive |-> c.sensitive]
      OBVIOUS
    <2>3. record \in Provenance(rows)
      BY <1>1, <1>4, <1>6, <2>2 DEF Provenance
    <2>4. record.path = c.file /\ record.sensitive = c.sensitive
      BY <2>2
    <2>5. record.sensitive = TRUE
      BY <1>1, <1>2, <1>6, <2>1, <2>4 DEF Grave, Faithful, AppliedPaths
    <2>6. QED
      BY <1>3, <1>5, <2>3, <2>4, <2>5
  <1>7. CASE c.files # <<>>
    <2>1. c.file = Head(c.files) /\ Head(c.files) \in Paths
      BY <1>1, <1>3, <1>7 DEF Faithful
    <2>2. c.file # NoPath
      BY <2>1, EvidenceAssumption
    <2>3. PICK p \in SensitivePaths : p \in ToSet(c.files)
      BY <1>1, <1>7, <2>2 DEF Grave, AppliedPaths
    <2>4. PICK record : record = [row |-> row, path |-> p, sensitive |-> p \in SensitivePaths]
      OBVIOUS
    <2>5. record \in Provenance(rows)
      BY <1>1, <1>4, <1>7, <2>3, <2>4 DEF Provenance
    <2>6. record.path \in Paths /\ record.sensitive = TRUE
      BY <2>3, <2>4, EvidenceAssumption
    <2>7. QED
      BY <1>5, <2>5, <2>6
  <1>8. QED
    BY <1>6, <1>7

NoticedInv ==
    /\ view.verdict # "none" => view.step = "done"
    /\ view.verdict = "passed" /\ damages = 0 =>
         \A row \in log : row.columns.time >= view.from => ~Grave(row.columns)

\* Every step keeps the invariant of the gate; only ListRecords lets changes pass.
LEMMA NoticedNext ==
    ASSUME Threshold <= 3, Base, NoticedInv, [Next]_vars
    PROVE  NoticedInv'
  <1>1. CASE view.step \notin {"drilled", "done"} /\ Hooks
    <2>1. view' = view
      BY <1>1, HooksKeep DEF Base
    <2>2. view.verdict = "none"
      BY <1>1 DEF NoticedInv
    <2>3. QED
      BY <2>1, <2>2 DEF NoticedInv
  <1>2. CASE Reads
    <2>1. log' = log /\ clock' = clock /\ damages' = damages
      BY <1>2, ReadsQuiet DEF Quiet
    <2>2. CASE Starts
      BY <2>2, StartsAre DEF NoticedInv
    <2>3. CASE Continues
      <3>1. CASE view.step = "list" /\ ListRecords
        <4>1. view'.step = "done" /\ view'.from = clock - Window
          BY <3>1 DEF ListRecords, Become, Base, ViewInv, ViewNames
        <4>2. ASSUME view'.verdict = "passed", damages = 0, NEW row \in log,
                     row.columns.time >= clock - Window, Grave(row.columns)
              PROVE  FALSE
          <5>1. Faithful(row.columns)
            BY <4>2 DEF Base, StoreInv, Genuine
          <5>2. PICK record \in WindowRecords : Rank(record) \in Nat /\ Rank(record) >= 3
            BY <4>2, <5>1, GraveRecord DEF WindowRecords
          <5>3. Rank(record) >= Threshold
            BY <5>2, ViewsAssumption
          <5>4. view'.verdict = "blocked"
            BY <3>1, <5>2, <5>3 DEF ListRecords, Become, Base, ViewInv, ViewNames
          <5>5. QED
            BY <4>2, <5>4
        <4>3. QED
          BY <2>1, <4>1, <4>2 DEF NoticedInv
      <3>2. CASE view.step = "sessions" /\ VerifySessions
        <4>1. view'.verdict # "passed"
          BY <3>2 DEF VerifySessions, Become, Status, NoticedInv, Base, ViewInv, ViewNames
        <4>2. view'.verdict # "none" => view'.step = "done"
          BY <3>2 DEF VerifySessions, Become, NoticedInv, Base, ViewInv, ViewNames
        <4>3. QED
          BY <4>1, <4>2 DEF NoticedInv
      <3>3. CASE ~(view.step = "list" /\ ListRecords) /\ ~(view.step = "sessions" /\ VerifySessions)
        <4>1. view.step # "done" /\ view'.verdict = view.verdict
          BY <2>3, <3>3 DEF Continues, Changes, ViewNames
        <4>2. view'.verdict = "none"
          BY <4>1 DEF NoticedInv
        <4>3. QED
          BY <4>2 DEF NoticedInv
      <3>4. QED
        BY <3>1, <3>2, <3>3
    <2>4. CASE view' = Idle
      BY <2>4, IdleIs DEF NoticedInv
    <2>5. QED
      BY <1>2, <2>2, <2>3, <2>4, ReadsAre DEF Base
  <1>3. CASE UNCHANGED vars
    BY <1>3 DEF vars, NoticedInv
  <1>4. QED
    BY <1>1, <1>2, <1>3, TwoSides

\* Unless the gate fails on critical risk only, no sensitive change and no change
\* whose paths could not be read passes it, for any reports, risk of paths and
\* window.
THEOREM GateNotices ==
    ASSUME Threshold <= 3
    PROVE  Spec => []UnreadIsNoticed
  <1>1. Init => NoticedInv
    BY IdleIs DEF Init, NoticedInv
  <1>2. Base /\ NoticedInv /\ [Next]_vars => NoticedInv'
    BY NoticedNext
  <1>3. NoticedInv => UnreadIsNoticed
    BY DEF NoticedInv, UnreadIsNoticed, Undamaged
  <1>4. QED
    BY <1>1, <1>2, <1>3, StoreIsSound, PTL DEF Spec

-----------------------------------------------------------------------------
\* The page

\* The newest rows of a table are all its rows if there are fewer than the limit.
LEMMA NewestCovers ==
    ASSUME NEW rows, IsFiniteSet(rows),
           \A row \in rows : row.columns.time \in Nat /\ row.columns.session \in Nat /\ row.sequence \in Nat,
           Cardinality(Newest(rows)) < Limit
    PROVE  rows \subseteq Newest(rows)
  <1> DEFINE After(row) == {q \in rows : Later(q, row)}
             T == {Cardinality(After(row)) : row \in rows \ Newest(rows)}
  <1> SUFFICES ASSUME rows \ Newest(rows) # {} PROVE FALSE
    OBVIOUS
  <1>1. \A row \in rows : IsFiniteSet(After(row)) /\ Cardinality(After(row)) \in Nat
    <2>1. ASSUME NEW row \in rows
          PROVE  IsFiniteSet(After(row))
      <3>1. After(row) \subseteq rows
        OBVIOUS
      <3>2. QED
        BY <3>1, FS_Subset
    <2>2. QED
      BY <2>1, FS_CardinalityType
  <1>2. PICK row \in rows \ Newest(rows) : \A q \in rows \ Newest(rows) : Cardinality(After(row)) <= Cardinality(After(q))
    <2>1. T \in SUBSET Nat /\ T # {}
      BY <1>1
    <2>2. PICK least \in T : \A x \in T : least <= x
      BY <2>1, Least
    <2>3. QED
      BY <2>2
  <1>3. ASSUME NEW q \in After(row)
        PROVE  q \in Newest(rows)
    <2>1. After(q) \subseteq After(row) /\ q \notin After(q)
      BY DEF Later
    <2>2. IsFiniteSet(After(row) \ {q}) /\ Cardinality(After(row) \ {q}) = Cardinality(After(row)) - 1
      BY <1>1, FS_RemoveElement
    <2>3. After(q) \subseteq After(row) \ {q}
      BY <2>1
    <2>4. Cardinality(After(q)) <= Cardinality(After(row) \ {q})
      BY <2>2, <2>3, FS_Subset
    <2>5. Cardinality(After(q)) \in Nat /\ Cardinality(After(row)) \in Nat
      BY <1>1
    <2>6. ~(Cardinality(After(row)) <= Cardinality(After(q)))
      BY <2>2, <2>4, <2>5
    <2>7. QED
      BY <1>2, <2>6
  <1>4. Newest(rows) \subseteq rows
    BY DEF Newest
  <1>5. IsFiniteSet(Newest(rows)) /\ Cardinality(Newest(rows)) \in Nat
    BY <1>4, FS_Subset, FS_CardinalityType
  <1>6. Cardinality(After(row)) <= Cardinality(Newest(rows))
    <2>1. After(row) \subseteq Newest(rows)
      BY <1>3
    <2>2. QED
      BY <1>5, <2>1, FS_Subset
  <1>7. Cardinality(After(row)) < Limit
    <2>1. Limit \in Nat
      BY ViewsAssumption
    <2>2. Cardinality(After(row)) \in Nat
      BY <1>1
    <2>3. QED
      BY <1>5, <1>6, <2>1, <2>2
  <1>8. row \in Newest(rows)
    BY <1>7 DEF Newest
  <1>9. QED
    BY <1>2, <1>8

\* An event counts towards a figure if and only if the query behind it selects
\* it, but for a change without a path.
LEMMA CountedIsSelected ==
    ASSUME NEW drill \in Drills, NEW p, drill = "file" => p \in Paths,
           NEW rows, NEW row \in rows, Faithful(row.columns)
    PROVE  /\ row \in Counted(drill, p, rows) => Selects(drill, p, row.columns)
           /\ Selects(drill, p, row.columns) =>
                row \in Counted(drill, p, rows) \/ (drill = "changes" /\ AppliedPaths(row.columns) = {})
  <1>1. PICK c : c = row.columns
    OBVIOUS
  <1>2. c.files \in Seq(Paths) /\ c.file \in Paths \union {NoPath} /\ (c.files # <<>> => c.file = Head(c.files))
    BY <1>1 DEF Faithful
  <1>3. AppliedPaths(c) # {} => ConfirmedChange(c)
    BY DEF AppliedPaths, ConfirmedChange
  <1>4. ConfirmedChange(c) => AppliedPaths(c) = IF c.files # <<>> THEN ToSet(c.files) ELSE {c.file} \ {NoPath}
    BY DEF AppliedPaths, ConfirmedChange
  <1>5. CASE drill = "all"
    BY <1>5 DEF Counted, Selects
  <1>6. CASE drill = "changes"
    BY <1>1, <1>3, <1>6 DEF Counted, Selects
  <1>7. CASE drill = "commands"
    BY <1>1, <1>7 DEF Counted, Selects, Those
  <1>8. CASE drill = "errors"
    <2>1. row \in Errors(rows) <=> c.result \in {"blocked", "rejected"} \/ CommandOutcome(c) = "error"
      BY <1>1 DEF Errors
    <2>2. row \in Errors(rows) <=> FailureRow(c)
      BY <2>1 DEF FailureRow, CommandOutcome
    <2>3. QED
      BY <1>1, <1>8, <2>2 DEF Counted, Selects
  <1>9. CASE drill = "file"
    <2>1. p \in Paths /\ p # NoPath
      BY <1>9, EvidenceAssumption
    <2>2. c.files # <<>> => Head(c.files) \in ToSet(c.files)
      BY <1>2 DEF ToSet
    <2>3. c.files = <<>> => p \notin ToSet(c.files)
      BY DEF ToSet
    <2>4. p \in AppliedPaths(c) <=> ConfirmedChange(c) /\ (c.file = p \/ p \in ToSet(c.files))
      BY <1>2, <1>3, <1>4, <2>1, <2>2, <2>3
    <2>5. row \in Counted(drill, p, rows) <=> p \in AppliedPaths(c)
      BY <1>1, <1>9 DEF Counted, ChangesOf
    <2>6. Selects(drill, p, c) <=> ConfirmedChange(c) /\ (c.file = p \/ p \in ToSet(c.files))
      BY <1>9 DEF Selects
    <2>7. QED
      BY <1>1, <2>4, <2>5, <2>6
  <1>10. QED
    BY <1>5, <1>6, <1>7, <1>8, <1>9 DEF Drills

PageSteps == {"recent", "page", "drilled"}

OverviewInv ==
    /\ view.command = "overview" <=> view.step \in PageSteps
    /\ view.command = "overview" /\ damages = 0 =>
         /\ view.rows \subseteq In(log, view.from, view.until)
         /\ Unwritten => view.rows = In(log, view.from, view.until)

\* What the page has counted are rows of its day.
LEMMA OverviewNext ==
    ASSUME Base, OverviewInv, [Next]_vars
    PROVE  OverviewInv'
  <1>1. CASE Hooks
    <2>1. view' = view /\ Written /\ clock \in Nat /\ view.clock \in Nat /\ view.clock <= clock
      BY <1>1, HooksKeep DEF Base, StoreInv, ViewInv
    <2>2. damages' = 0 => damages = 0 /\ log \subseteq log'
      BY <2>1 DEF Written, Base, StoreInv
    <2>3. damages' = 0 /\ Unwritten' => Unwritten /\ log' = log
      BY <2>1 DEF Unwritten, Written
    <2>4. QED
      BY <2>1, <2>2, <2>3 DEF OverviewInv, In
  <1>2. CASE Reads
    <2>1. log' = log /\ clock' = clock /\ damages' = damages
      BY <1>2, ReadsQuiet DEF Quiet
    <2>2. CASE Starts
      <3>1. CASE StartOverview
        <4>1. /\ view'.rows = In(log, view'.from, view'.until)
              /\ view'.command = "overview" /\ view'.step = "recent"
          BY <3>1, BeginIs DEF StartOverview, Become, ViewNames
        <4>2. QED
          BY <2>1, <4>1 DEF OverviewInv, PageSteps
      <3>2. CASE ~StartOverview
        BY <2>2, <3>2, StartsAre DEF OverviewInv, PageSteps
      <3>3. QED
        BY <3>1, <3>2
    <2>3. CASE Continues
      <3>1. CASE view.step \in PageSteps
        <4>1. Changes({"step", "recent", "drill", "of", "listed"}) /\ view'.step \in PageSteps
          BY <2>3, <3>1 DEF Continues, PageSteps, Changes
        <4>2. /\ view'.command = view.command /\ view'.rows = view.rows /\ view'.from = view.from
              /\ view'.until = view.until /\ view'.clock = view.clock
          BY <4>1 DEF Changes, ViewNames
        <4>3. QED
          BY <2>1, <3>1, <4>1, <4>2 DEF OverviewInv, Unwritten
      <3>2. CASE view.step \notin PageSteps
        <4>1. view'.command = view.command /\ view'.step \notin PageSteps
          BY <2>3, <3>2 DEF Continues, PageSteps, Changes, ViewNames
        <4>2. QED
          BY <3>2, <4>1 DEF OverviewInv
      <3>3. QED
        BY <3>1, <3>2
    <2>4. CASE view' = Idle
      BY <2>4, IdleIs DEF OverviewInv, PageSteps
    <2>5. QED
      BY <1>2, <2>2, <2>3, <2>4, ReadsAre DEF Base
  <1>3. CASE UNCHANGED vars
    BY <1>3 DEF vars, OverviewInv, Unwritten
  <1>4. QED
    BY <1>1, <1>2, <1>3, TwoSides

\* An undamaged row is faithful.
LEMMA LogFaithful ==
    ASSUME StoreInv, damages = 0, NEW row \in log
    PROVE  /\ Faithful(row.columns) /\ row.columns.time \in Nat /\ row.columns.session \in Nat
           /\ row.sequence \in Nat
  BY EvidenceAssumption DEF StoreInv, Genuine, Faithful, IsRow

\* A list behind a figure has the rows that were counted.
LEMMA DrillStep ==
    ASSUME Base, OverviewInv, NEW drill \in Drills, NEW p, drill = "file" => p \in Paths, Drill(drill, p)
    PROVE  DrillCovers'
  <1>1. PICK rows : rows = {row \in In(log, view.from, view.until) : Selects(drill, p, row.columns)}
    OBVIOUS
  <1>2. /\ view'.drill = drill /\ view'.of = p /\ view'.rows = view.rows /\ view'.clock = view.clock
        /\ view'.listed = Newest(rows) /\ view.step = "page"
    BY <1>1 DEF Drill, Become, Base, ViewInv, ViewNames
  <1>3. log' = log /\ clock' = clock /\ damages' = damages
    BY DEF Drill, Become
  <1> SUFFICES ASSUME damages = 0
               PROVE  /\ Cardinality(Newest(rows)) < Limit => Counted(drill, p, view.rows) \subseteq Newest(rows)
                      /\ Unwritten => Newest(rows) \ Counted(drill, p, view.rows) \subseteq
                           {row \in Newest(rows) : drill = "changes" /\ AppliedPaths(row.columns) = {}}
    BY <1>2, <1>3 DEF DrillCovers, Undamaged, Unwritten
  <1>4. /\ view.rows \subseteq In(log, view.from, view.until)
        /\ Unwritten => view.rows = In(log, view.from, view.until)
    BY <1>2 DEF OverviewInv, PageSteps
  <1>5. rows \subseteq log
    BY <1>1 DEF In
  <1>6. IsFiniteSet(rows)
    BY <1>5, FS_Subset DEF Base, StoreInv
  <1>7. ASSUME Cardinality(Newest(rows)) < Limit, NEW row \in Counted(drill, p, view.rows)
        PROVE  row \in Newest(rows)
    <2>1. row \in view.rows
      BY <1>7 DEF Counted, Drills, Those, Errors, ChangesOf
    <2>2. row \in In(log, view.from, view.until) /\ row \in log
      BY <1>4, <2>1 DEF In
    <2>3. Selects(drill, p, row.columns)
      BY <1>7, <2>1, <2>2, LogFaithful, CountedIsSelected DEF Base
    <2>4. row \in rows
      BY <1>1, <2>2, <2>3
    <2>5. \A r \in rows : r.columns.time \in Nat /\ r.columns.session \in Nat /\ r.sequence \in Nat
      BY <1>5, LogFaithful DEF Base
    <2>6. QED
      BY <1>6, <1>7, <2>4, <2>5, NewestCovers
  <1>8. ASSUME Unwritten, NEW row \in Newest(rows), row \notin Counted(drill, p, view.rows)
        PROVE  drill = "changes" /\ AppliedPaths(row.columns) = {}
    <2>1. row \in rows
      BY DEF Newest
    <2>2. row \in view.rows /\ row \in log /\ Selects(drill, p, row.columns)
      BY <1>1, <1>4, <1>5, <1>8, <2>1
    <2>3. QED
      BY <1>8, <2>2, LogFaithful, CountedIsSelected DEF Base
  <1>9. QED
    BY <1>7, <1>8

\* Only Drill makes such a list.
LEMMA DrillNext ==
    ASSUME Base, OverviewInv, DrillCovers, [Next]_vars
    PROVE  DrillCovers'
  <1>1. CASE view.step \notin {"drilled", "done"} /\ Hooks
    <2>1. view' = view
      BY <1>1, HooksKeep DEF Base
    <2>2. QED
      BY <1>1, <2>1 DEF DrillCovers
  <1>2. CASE Reads
    <2>1. CASE Starts
      BY <2>1, StartsAre DEF DrillCovers
    <2>2. CASE Continues
      <3>1. CASE \E drill \in Drills, p \in Paths \union {All} : (drill = "file" => p \in Paths) /\ Drill(drill, p)
        BY <3>1, DrillStep
      <3>2. CASE view'.step # "drilled" \/ view'.drill = "session"
        BY <3>2 DEF DrillCovers
      <3>3. QED
        BY <2>2, <3>1, <3>2 DEF Continues
    <2>3. CASE view' = Idle
      BY <2>3, IdleIs DEF DrillCovers
    <2>4. QED
      BY <1>2, <2>1, <2>2, <2>3, ReadsAre DEF Base
  <1>3. CASE UNCHANGED vars
    BY <1>3 DEF vars, DrillCovers, Undamaged, Unwritten
  <1>4. QED
    BY <1>1, <1>2, <1>3, TwoSides

\* A list behind a figure of the dashboard has every event that was counted, for
\* any reports, limit and length of a day.
THEOREM ListCoversFigure == Spec => []DrillCovers
  <1>1. Init => OverviewInv /\ DrillCovers
    BY IdleIs DEF Init, OverviewInv, DrillCovers, PageSteps
  <1>2. Base /\ OverviewInv /\ DrillCovers /\ [Next]_vars => OverviewInv' /\ DrillCovers'
    BY OverviewNext, DrillNext
  <1>3. QED
    BY <1>1, <1>2, StoreIsSound, PTL DEF Spec

-----------------------------------------------------------------------------
\* A session

\* A finite family of finite sets has a finite union.
LEMMA FiniteFamily ==
    ASSUME NEW S, IsFiniteSet(S), NEW f, DOMAIN f = S, f = [x \in S |-> f[x]], \A x \in S : IsFiniteSet(f[x])
    PROVE  IsFiniteSet(UNION {f[x] : x \in S})
  <1>1. PICK T : T = {f[x] : x \in S}
    OBVIOUS
  <1>2. f \in Surjection(S, T)
    BY <1>1 DEF Surjection
  <1>3. IsFiniteSet(T)
    BY <1>2, FS_Surjection
  <1>4. \A A \in T : IsFiniteSet(A)
    BY <1>1
  <1>5. QED
    BY <1>1, <1>3, <1>4, FS_UNION

\* The members of a sequence.
LEMMA MembersFinite ==
    ASSUME NEW S, NEW seq \in Seq(S)
    PROVE  IsFiniteSet(ToSet(seq))
  <1>1. PICK n \in Nat : n = Len(seq)
    OBVIOUS
  <1>2. DOMAIN seq = 1 .. n /\ seq = [i \in 1 .. n |-> seq[i]]
    BY <1>1
  <1>3. IsFiniteSet(1 .. n)
    BY FS_Interval
  <1>4. seq \in Surjection(1 .. n, ToSet(seq))
    BY <1>2 DEF Surjection, ToSet
  <1>5. QED
    BY <1>3, <1>4, FS_Surjection

\* An event changes finitely many paths.
LEMMA AppliedFinite ==
    ASSUME NEW c, Faithful(c)
    PROVE  IsFiniteSet(AppliedPaths(c))
  <1>1. IsFiniteSet(ToSet(c.files))
    BY MembersFinite DEF Faithful
  <1>2. IsFiniteSet({})
    BY FS_EmptySet
  <1>3. IsFiniteSet({c.file} \ {NoPath})
    <2>1. IsFiniteSet({c.file})
      BY FS_Singleton
    <2>2. {c.file} \ {NoPath} \subseteq {c.file}
      OBVIOUS
    <2>3. QED
      BY <2>1, <2>2, FS_Subset
  <1>4. QED
    BY <1>1, <1>2, <1>3 DEF AppliedPaths

\* So do finitely many events.
LEMMA ChangedFinite ==
    ASSUME NEW rows, IsFiniteSet(rows), \A row \in rows : Faithful(row.columns)
    PROVE  IsFiniteSet(ChangedPaths(rows))
  <1>1. PICK f : f = [row \in rows |-> AppliedPaths(row.columns)]
    OBVIOUS
  <1>2. \A row \in rows : f[row] = AppliedPaths(row.columns) /\ IsFiniteSet(f[row])
    BY <1>1, AppliedFinite
  <1>3. DOMAIN f = rows /\ f = [x \in rows |-> f[x]]
    BY <1>1
  <1>4. IsFiniteSet(UNION {f[x] : x \in rows})
    BY <1>2, <1>3, FiniteFamily
  <1>5. ChangedPaths(rows) = UNION {f[x] : x \in rows}
    BY <1>2 DEF ChangedPaths
  <1>6. QED
    BY <1>4, <1>5

\* SQL and Go count the same paths.
LEMMA FilesAgree ==
    ASSUME NEW rows, \A row \in rows : Faithful(row.columns)
    PROVE  RecentFiles(rows) = Cardinality(ChangedPaths(rows))
  <1>1. PICK paths : paths = (UNION {IF row.columns.files = <<>> THEN {row.columns.file} ELSE ToSet(row.columns.files) :
                                       row \in Those(rows, ConfirmedChange)}) \ {NoPath}
    OBVIOUS
  <1>2. ASSUME NEW row \in rows
        PROVE  AppliedPaths(row.columns) =
                 IF ConfirmedChange(row.columns)
                 THEN (IF row.columns.files = <<>> THEN {row.columns.file} ELSE ToSet(row.columns.files)) \ {NoPath}
                 ELSE {}
    <2>1. row.columns.files \in Seq(Paths) /\ NoPath \notin Paths
      BY <1>2, EvidenceAssumption DEF Faithful
    <2>2. NoPath \notin ToSet(row.columns.files)
      BY <2>1 DEF ToSet
    <2>3. QED
      BY <2>2 DEF AppliedPaths, ConfirmedChange
  <1>3. paths = ChangedPaths(rows)
    <2>1. PICK f : f = [row \in rows |-> IF row.columns.files = <<>> THEN {row.columns.file} ELSE ToSet(row.columns.files)]
      OBVIOUS
    <2>2. paths = (UNION {f[row] : row \in {r \in rows : ConfirmedChange(r.columns)}}) \ {NoPath}
      BY <1>1, <2>1 DEF Those
    <2>3. \A row \in rows :
             AppliedPaths(row.columns) = IF ConfirmedChange(row.columns) THEN f[row] \ {NoPath} ELSE {}
      BY <1>2, <2>1
    <2>4. ASSUME NEW p
          PROVE  p \in paths <=> p \in ChangedPaths(rows)
      <3>1. p \in paths <=> p # NoPath /\ \E row \in rows : ConfirmedChange(row.columns) /\ p \in f[row]
        BY <2>2
      <3>2. p \in ChangedPaths(rows) <=> \E row \in rows : p \in AppliedPaths(row.columns)
        BY DEF ChangedPaths
      <3>3. QED
        BY <2>3, <3>1, <3>2
    <2>5. QED
      BY <2>4
  <1>4. QED
    BY <1>1, <1>3 DEF RecentFiles

\* The figures of a set of rows grow with it.
LEMMA FiguresGrow ==
    ASSUME NEW rows, IsFiniteSet(rows), \A row \in rows : Faithful(row.columns), NEW some \in SUBSET rows
    PROVE  LET warned == {row \in rows : FindingKinds(row.columns) # {}} IN
           /\ Recent(some).events <= Cardinality(rows)
           /\ Recent(some).files <= Cardinality(ChangedPaths(rows))
           /\ Recent(some).warnings <= Cardinality(warned)
           /\ Recent(rows) = [events |-> Cardinality(rows), files |-> Cardinality(ChangedPaths(rows)),
                              warnings |-> Cardinality(warned)]
  <1> DEFINE warned == {row \in rows : FindingKinds(row.columns) # {}}
  <1>1. \A row \in some : Faithful(row.columns)
    OBVIOUS
  <1>2. RecentFiles(some) = Cardinality(ChangedPaths(some)) /\ RecentFiles(rows) = Cardinality(ChangedPaths(rows))
    BY <1>1, FilesAgree
  <1>3. Those(rows, Warning) = warned
    BY WarningsAgree DEF Those
  <1>4. Those(some, Warning) \subseteq warned
    BY <1>3 DEF Those
  <1>5. ChangedPaths(some) \subseteq ChangedPaths(rows)
    BY DEF ChangedPaths
  <1>6. Cardinality(some) <= Cardinality(rows)
    BY FS_Subset
  <1>7. Cardinality(ChangedPaths(some)) <= Cardinality(ChangedPaths(rows))
    BY <1>5, ChangedFinite, FS_Subset
  <1>8. Cardinality(Those(some, Warning)) <= Cardinality(warned)
    <2>1. IsFiniteSet(warned)
      BY FS_Subset
    <2>2. QED
      BY <1>4, <2>1, FS_Subset
  <1>9. /\ Recent(some).events = Cardinality(some) /\ Recent(some).files = RecentFiles(some)
        /\ Recent(some).warnings = Cardinality(Those(some, Warning))
    BY DEF Recent
  <1>10. Recent(rows) = [events |-> Cardinality(rows), files |-> RecentFiles(rows),
                         warnings |-> Cardinality(Those(rows, Warning))]
    BY DEF Recent
  <1>11. QED
    BY <1>2, <1>3, <1>6, <1>7, <1>8, <1>9, <1>10

RecentInv ==
    view.step \in {"page", "drilled"} /\ damages = 0 =>
      \A s \in DOMAIN view.recent : \E some \in SUBSET log :
        view.recent[s] = Recent(OfSession(some, s)) /\ (Unwritten => some = log)

\* A recent session was summarised from rows that are still there.
LEMMA RecentNext ==
    ASSUME Base, RecentInv, [Next]_vars
    PROVE  RecentInv'
  <1>1. CASE Hooks
    <2>1. view' = view /\ Written /\ clock \in Nat /\ view.clock \in Nat /\ view.clock <= clock
      BY <1>1, HooksKeep DEF Base, StoreInv, ViewInv
    <2>2. damages' = 0 => damages = 0 /\ log \subseteq log'
      BY <2>1 DEF Written, Base, StoreInv
    <2>3. damages' = 0 /\ Unwritten' => Unwritten /\ log' = log
      BY <2>1 DEF Unwritten, Written
    <2> SUFFICES ASSUME view.step \in {"page", "drilled"}, damages' = 0, NEW s \in DOMAIN view.recent
                 PROVE  \E some \in SUBSET log' :
                          view.recent[s] = Recent(OfSession(some, s)) /\ (Unwritten' => some = log')
      BY <2>1 DEF RecentInv
    <2>4. PICK some \in SUBSET log : view.recent[s] = Recent(OfSession(some, s)) /\ (Unwritten => some = log)
      BY <2>2 DEF RecentInv
    <2>5. some \in SUBSET log' /\ (Unwritten' => some = log')
      BY <2>2, <2>3, <2>4
    <2>6. QED
      BY <2>4, <2>5
  <1>2. CASE Reads
    <2>1. log' = log /\ clock' = clock /\ damages' = damages
      BY <1>2, ReadsQuiet DEF Quiet
    <2>2. CASE Starts
      BY <2>2, StartsAre DEF RecentInv
    <2>3. CASE Continues
      <3>1. CASE view.step = "recent" /\ ReadRecent
        <4>1. view'.recent = [s \in Known |-> Recent(OfSession(log, s))]
          BY <3>1 DEF ReadRecent, Become, Base, ViewInv, ViewNames
        <4>2. \A s \in DOMAIN view'.recent : view'.recent[s] = Recent(OfSession(log, s))
          BY <4>1
        <4>3. QED
          BY <2>1, <4>2 DEF RecentInv
      <3>2. CASE view.step \in {"page", "drilled"}
        <4>1. view'.recent = view.recent /\ view'.clock = view.clock
          BY <2>3, <3>2 DEF Continues, Changes, ViewNames
        <4>2. QED
          BY <2>1, <3>2, <4>1 DEF RecentInv, Unwritten
      <3>3. CASE ~(view.step = "recent" /\ ReadRecent) /\ view.step \notin {"page", "drilled"}
        <4>1. view'.step \notin {"page", "drilled"}
          BY <2>3, <3>3 DEF Continues
        <4>2. QED
          BY <4>1 DEF RecentInv
      <3>4. QED
        BY <3>1, <3>2, <3>3
    <2>4. CASE view' = Idle
      BY <2>4, IdleIs DEF RecentInv
    <2>5. QED
      BY <1>2, <2>2, <2>3, <2>4, ReadsAre DEF Base
  <1>3. CASE UNCHANGED vars
    BY <1>3 DEF vars, RecentInv, Unwritten
  <1>4. QED
    BY <1>1, <1>2, <1>3, TwoSides

\* An opened session has at least the figures of its summary.
LEMMA InvestigateStep ==
    ASSUME Base, RecentInv, NEW s \in Sessions, Investigate(s)
    PROVE  SessionFiguresAgree'
  <1>1. PICK rows : rows = OfSession(log, s)
    OBVIOUS
  <1>2. /\ view'.of = s /\ view'.listed = rows /\ view'.recent = view.recent /\ view'.clock = view.clock
        /\ view.step = "page" /\ s \in DOMAIN view.recent
    BY <1>1 DEF Investigate, Become, Base, ViewInv, ViewNames
  <1>3. log' = log /\ clock' = clock /\ damages' = damages
    BY DEF Investigate, Become
  <1>4. PICK opened : opened = [events |-> Cardinality(rows), files |-> Cardinality(ChangedPaths(rows)),
                                warnings |-> Cardinality({row \in rows : FindingKinds(row.columns) # {}})]
    OBVIOUS
  <1> SUFFICES ASSUME damages = 0
               PROVE  /\ \A figure \in DOMAIN opened : view.recent[s][figure] <= opened[figure]
                      /\ Unwritten => view.recent[s] = opened
    BY <1>2, <1>3, <1>4 DEF SessionFiguresAgree, Undamaged, Unwritten
  <1>5. PICK some \in SUBSET log : view.recent[s] = Recent(OfSession(some, s)) /\ (Unwritten => some = log)
    BY <1>2 DEF RecentInv
  <1>6. IsFiniteSet(rows) /\ \A row \in rows : Faithful(row.columns)
    <2>1. rows \subseteq log
      BY <1>1 DEF OfSession
    <2>2. QED
      BY <2>1, FS_Subset, LogFaithful DEF Base, StoreInv
  <1>7. OfSession(some, s) \in SUBSET rows
    BY <1>1 DEF OfSession
  <1>8. /\ Recent(OfSession(some, s)).events <= opened.events
        /\ Recent(OfSession(some, s)).files <= opened.files
        /\ Recent(OfSession(some, s)).warnings <= opened.warnings
        /\ Recent(rows) = opened
    BY <1>4, <1>6, <1>7, FiguresGrow
  <1>9. DOMAIN opened = {"events", "files", "warnings"}
    BY <1>4
  <1>10. QED
    BY <1>1, <1>5, <1>8, <1>9

\* Only Investigate opens a session.
LEMMA FiguresNext ==
    ASSUME Base, RecentInv, SessionFiguresAgree, [Next]_vars
    PROVE  SessionFiguresAgree'
  <1>1. CASE view.step \notin {"drilled", "done"} /\ Hooks
    <2>1. view' = view
      BY <1>1, HooksKeep DEF Base
    <2>2. QED
      BY <1>1, <2>1 DEF SessionFiguresAgree
  <1>2. CASE Reads
    <2>1. CASE Starts
      BY <2>1, StartsAre DEF SessionFiguresAgree
    <2>2. CASE Continues
      <3>1. CASE \E s \in Sessions : Investigate(s)
        BY <3>1, InvestigateStep
      <3>2. CASE view'.step # "drilled" \/ view'.drill \in Drills
        BY <3>2 DEF SessionFiguresAgree, Drills
      <3>3. QED
        BY <2>2, <3>1, <3>2 DEF Continues
    <2>3. CASE view' = Idle
      BY <2>3, IdleIs DEF SessionFiguresAgree
    <2>4. QED
      BY <1>2, <2>1, <2>2, <2>3, ReadsAre DEF Base
  <1>3. CASE UNCHANGED vars
    BY <1>3 DEF vars, SessionFiguresAgree, Undamaged, Unwritten
  <1>4. QED
    BY <1>1, <1>2, <1>3, TwoSides

\* An opened session has no fewer events, changed paths and warnings than its
\* summary on the page, for any reports and any interleaving of hooks.
THEOREM FiguresAgree == Spec => []SessionFiguresAgree
  <1>1. Init => RecentInv /\ SessionFiguresAgree
    BY IdleIs DEF Init, RecentInv, SessionFiguresAgree
  <1>2. Base /\ RecentInv /\ SessionFiguresAgree /\ [Next]_vars => RecentInv' /\ SessionFiguresAgree'
    BY RecentNext, FiguresNext
  <1>3. QED
    BY <1>1, <1>2, StoreIsSound, PTL DEF Spec

-----------------------------------------------------------------------------
\* The verdicts

\* What a digest covers: everything, unless the row is unprotected.
LEMMA DigestIs ==
    ASSUME NEW row, IsRow(row), PrefixOf(row) \in HashFormats, ~Unprotected(row), NEW previous
    PROVE  /\ Digest(PrefixOf(row), previous, row)[2] = previous
           /\ Digest(PrefixOf(row), previous, row)[3] = row.sequence
           /\ Digest(PrefixOf(row), previous, row)[4] = row.columns
  <1>1. PICK c : c = row.columns
    OBVIOUS
  <1>2. PICK prefix : prefix = PrefixOf(row)
    OBVIOUS
  <1>3. /\ c.checkpoint \in BOOLEAN /\ c.collector \in BOOLEAN
        /\ DOMAIN c = ColumnNames /\ c = [name \in ColumnNames |-> c[name]]
    BY <1>1 DEF IsRow, Shaped
  <1>4. PICK collector : collector = (prefix = "v4" /\ c.collector)
    OBVIOUS
  <1>5. collector = c.collector
    BY <1>1, <1>2, <1>3, <1>4 DEF Unprotected
  <1>6. c.files # <<>> => ~collector /\ prefix # "v3"
    BY <1>1, <1>2, <1>4 DEF Unprotected
  <1>7. (prefix = "v5" /\ c.checkpoint) = c.checkpoint
    BY <1>1, <1>2, <1>3 DEF Unprotected
  <1>8. PICK d : d = [c EXCEPT !.files = IF prefix = "v3" \/ collector THEN <<>> ELSE @,
                               !.checkpoint = prefix = "v5" /\ @, !.collector = collector]
    OBVIOUS
  <1>9. d = c
    <2>1. DOMAIN d = ColumnNames /\ d = [name \in ColumnNames |-> d[name]]
      BY <1>3, <1>8
    <2>2. \A name \in ColumnNames \ {"files", "checkpoint", "collector"} : d[name] = c[name]
      BY <1>3, <1>8
    <2>3. d["files"] = c["files"]
      BY <1>3, <1>6, <1>8 DEF ColumnNames
    <2>4. d["checkpoint"] = c["checkpoint"]
      BY <1>3, <1>7, <1>8 DEF ColumnNames
    <2>5. d["collector"] = c["collector"]
      BY <1>3, <1>5, <1>8 DEF ColumnNames
    <2>6. \A name \in ColumnNames : d[name] = c[name]
      BY <2>2, <2>3, <2>4, <2>5
    <2>7. QED
      BY <1>3, <2>1, <2>6
  <1>10. Digest(PrefixOf(row), previous, row) =
           <<IF prefix = "v5" /\ ~c.checkpoint THEN "v4" ELSE prefix, previous, row.sequence, d>>
    BY <1>1, <1>2, <1>4, <1>8 DEF Digest
  <1>11. QED
    BY <1>1, <1>9, <1>10

\* Rows with the same digest are the same row.
LEMMA SameDigest ==
    ASSUME NEW row, NEW w, IsRow(row), IsRow(w), row.hash = w.hash, PrefixOf(row) \in HashFormats,
           ~Unprotected(row), ~Unprotected(w),
           row.hash = Digest(PrefixOf(row), row.previous, row), w.hash = Digest(PrefixOf(w), w.previous, w)
    PROVE  row = w
  <1>1. PrefixOf(w) = PrefixOf(row)
    BY DEF PrefixOf
  <1>2. row.hash[2] = row.previous /\ row.hash[3] = row.sequence /\ row.hash[4] = row.columns
    BY DigestIs
  <1>3. w.hash[2] = w.previous /\ w.hash[3] = w.sequence /\ w.hash[4] = w.columns
    <2>1. PICK previous : previous = w.previous
      OBVIOUS
    <2>2. PrefixOf(w) \in HashFormats
      BY <1>1
    <2>3. /\ Digest(PrefixOf(w), previous, w)[2] = previous
          /\ Digest(PrefixOf(w), previous, w)[3] = w.sequence
          /\ Digest(PrefixOf(w), previous, w)[4] = w.columns
      BY <2>2, DigestIs
    <2>4. w.hash = Digest(PrefixOf(w), previous, w)
      BY <2>1
    <2>5. QED
      BY <2>1, <2>3, <2>4
  <1>4. row.previous = w.previous /\ row.sequence = w.sequence /\ row.columns = w.columns
    BY <1>2, <1>3
  <1>5. QED
    BY <1>4 DEF IsRow

\* A row without findings is as it was stored.
LEMMA CleanRow ==
    ASSUME StoreInv, NEW row \in log, NEW rows, RowFindings(rows, row) = {}
    PROVE  row \in written
  <1>1. PICK w \in written : row.hash = w.hash
    BY DEF StoreInv
  <1>2. IsRow(row) /\ Genuine(w)
    BY DEF StoreInv
  <1>3. PrefixOf(row) \in HashFormats
    BY DEF RowFindings
  <1>4. PICK expected : expected = LastHash(Before(rows, row))
    OBVIOUS
  <1>5. row.previous = expected /\ row.hash = Digest(PrefixOf(row), expected, row) /\ ~Unprotected(row)
    BY <1>3, <1>4 DEF RowFindings
  <1>6. PrefixOf(w) = PrefixOf(row)
    BY <1>1 DEF PrefixOf
  <1>7. IsRow(w) /\ w.hash = Digest(PrefixOf(w), w.previous, w) /\ ~Unprotected(w)
    BY <1>2, <1>3, <1>6 DEF Genuine
  <1>8. row = w
    BY <1>1, <1>2, <1>3, <1>5, <1>7, SameDigest
  <1>9. QED
    BY <1>8

Checks == {"bom", "gate", "verify"}
Sound == {"exported", "passed", "verified"}

CheckedInv ==
    /\ view.command \in Checks => view.step \in {"rows", "sessions", "list", "done"}
    /\ view.step \in {"rows", "sessions", "list"} => view.command \in Checks
    /\ view.verdict # "none" => view.step = "done"
    /\ view.verdict \in Sound => view.command \in Checks /\ view.findings = {}
    /\ view.step = "list" => view.command = "gate" /\ view.findings = {}
    /\ view.command \in Checks /\ view.step # "rows" /\ view.findings = {} => view.rows \subseteq written

\* Every step keeps the invariant of the verdicts.
LEMMA CheckedNext ==
    ASSUME Base, CheckedInv, [Next]_vars
    PROVE  CheckedInv'
  <1>1. CASE Hooks
    <2>1. view' = view /\ written \subseteq written'
      BY <1>1, HooksKeep DEF Base, Written
    <2>2. QED
      BY <2>1 DEF CheckedInv
  <1>2. CASE Reads
    <2>1. written' = written
      BY <1>2, ReadsQuiet DEF Quiet
    <2>2. CASE Starts
      BY <2>2, StartsAre DEF CheckedInv, Checks, Sound
    <2>3. CASE Continues
      <3>1. CASE view.step = "rows" /\ VerifyRows
        <4>1. /\ view'.step = "sessions" /\ view'.command = view.command /\ view'.verdict = view.verdict
              /\ view'.rows = RowsOf(Checked) /\ view'.findings = Findings(RowsOf(Checked))
          BY <3>1 DEF VerifyRows, Become, Base, ViewInv, ViewNames
        <4>2. ASSUME Findings(RowsOf(Checked)) = {}, NEW row \in RowsOf(Checked)
              PROVE  row \in written
          <5>1. row \in log
            BY DEF RowsOf
          <5>2. RowFindings(RowsOf(Checked), row) = {}
            BY <4>2 DEF Findings
          <5>3. QED
            BY <5>1, <5>2, CleanRow DEF Base
        <4>3. view.verdict = "none"
          BY <3>1 DEF CheckedInv
        <4>4. view.command \in Checks
          BY <3>1 DEF CheckedInv
        <4>5. view'.verdict = "none" /\ view'.step = "sessions" /\ view'.command \in Checks
          BY <4>1, <4>3, <4>4
        <4>6. view'.findings = {} => view'.rows \subseteq written'
          BY <2>1, <4>1, <4>2
        <4>7. QED
          BY <4>5, <4>6 DEF CheckedInv, Sound
      <3>2. CASE view.step = "sessions" /\ VerifySessions
        <4>1. PICK unhashed : unhashed = {s \in Known \intersect Checked : ~sessions[s].hashed}
          OBVIOUS
        <4>2. PICK findings : findings = view.findings \union {f \in {"legacy_session"} : unhashed # {}}
          OBVIOUS
        <4>3. view.verdict = "none"
          BY <3>2 DEF CheckedInv
        <4>4. /\ view'.rows = view.rows /\ view'.command = view.command /\ view.command \in Checks
              /\ \/ /\ view'.step = "done" /\ view'.findings = findings
                    /\ view'.verdict \in Sound => findings = {}
                 \/ /\ view'.step = "list" /\ view'.verdict = "none" /\ findings = {}
                    /\ view'.findings = view.findings /\ view.command = "gate"
          BY <3>2, <4>1, <4>2, <4>3
          DEF VerifySessions, Become, Status, Sound, Checks, Base, ViewInv, ViewNames
        <4>5. view'.findings = {} => view.findings = {}
          BY <4>2, <4>4
        <4>6. view'.step = "list" => view'.command = "gate" /\ view'.findings = {}
          BY <4>2, <4>4
        <4>7. view'.findings = {} => view'.rows \subseteq written
          BY <3>2, <4>4, <4>5 DEF CheckedInv
        <4>8. QED
          BY <2>1, <4>4, <4>6, <4>7 DEF CheckedInv, Sound
      <3>3. CASE view.step = "list" /\ ListRecords
        <4>1. /\ view'.step = "done" /\ view'.command = view.command /\ view'.rows = view.rows
              /\ view'.findings = view.findings
          BY <3>3 DEF ListRecords, Become, Base, ViewInv, ViewNames
        <4>2. view.command \in Checks
          BY <3>3 DEF CheckedInv
        <4>3. QED
          BY <2>1, <3>3, <4>1, <4>2 DEF CheckedInv
      <3>4. CASE view.step \notin {"rows", "sessions", "list"}
        <4>1. view.step \notin {"rows", "sessions", "list", "done"}
          BY <2>3, <3>4 DEF Continues
        <4>2. view'.command = view.command /\ view'.verdict = view.verdict
          BY <2>3, <3>4 DEF Continues, Changes, ViewNames
        <4>3. view.command \notin Checks /\ view.verdict = "none"
          BY <4>1 DEF CheckedInv
        <4>4. view'.command \notin Checks /\ view'.verdict = "none"
          BY <4>2, <4>3
        <4>5. view'.step \notin {"rows", "sessions", "list"}
          BY <2>3, <4>1 DEF Continues
        <4>6. QED
          BY <4>4, <4>5 DEF CheckedInv, Sound
      <3>5. QED
        BY <2>3, <3>1, <3>2, <3>3, <3>4 DEF Continues
    <2>4. CASE view' = Idle
      BY <2>4, IdleIs DEF CheckedInv, Checks, Sound
    <2>5. QED
      BY <1>2, <2>2, <2>3, <2>4, ReadsAre DEF Base
  <1>3. CASE UNCHANGED vars
    BY <1>3 DEF vars, CheckedInv
  <1>4. QED
    BY <1>1, <1>2, <1>3, TwoSides

\* A verdict that the trail is sound is about rows as they were stored, whatever
\* damage there is, as long as it is not to the columns of a session.
THEOREM VerifiedIsStored == Spec => [](view.verdict \in Sound => view.rows \subseteq written)
  <1>1. Init => CheckedInv
    BY IdleIs DEF Init, CheckedInv, Checks, Sound
  <1>2. Base /\ CheckedInv /\ [Next]_vars => CheckedInv'
    BY CheckedNext
  <1>3. CheckedInv => (view.verdict \in Sound => view.rows \subseteq written)
    BY DEF CheckedInv, Sound
  <1>4. QED
    BY <1>1, <1>2, <1>3, StoreIsSound, PTL DEF Spec

-----------------------------------------------------------------------------
\* The bill of materials

Exported == {record.row : record \in view.records}

\* A damaged row that was exported is still there when the chains are walked,
\* unless it is damaged again.
BomInv ==
    view.command = "bom" =>
      /\ view.scope = All
      /\ damages = 0 /\ view.step = "rows" => Exported \subseteq written
      /\ damages <= 1 /\ view.step = "rows" => Exported \subseteq written \/ log \ written # {}
      /\ damages <= 1 /\ view.step # "rows" => Exported \subseteq written \/ view.findings # {}

\* An export begins with records of rows of the table.
LEMMA BomStarts ==
    ASSUME Base, StartExport
    PROVE  BomInv'
  <1>1. view'.scope = All /\ view'.step = "rows" /\ view'.records = WindowRecords
    <2>1. Begin("bom").scope = All
      BY DEF Begin, Idle
    <2>2. QED
      BY <2>1, BeginIs DEF StartExport, Become, ViewNames
  <1>2. log' = log /\ written' = written /\ damages' = damages
    BY DEF StartExport, Become
  <1>3. \A record \in WindowRecords : record.row \in log
    BY DEF WindowRecords, Provenance, Those
  <1>4. Exported' \subseteq log
    BY <1>1, <1>3 DEF Exported
  <1>5. Exported' \subseteq written \/ log \ written # {}
    BY <1>4
  <1>6. damages = 0 => Exported' \subseteq written
    BY <1>4 DEF Base, StoreInv
  <1>7. QED
    BY <1>1, <1>2, <1>5, <1>6 DEF BomInv

\* The walk over the chains comes upon every row that is not as it was stored.
LEMMA BomVerifies ==
    ASSUME Base, BomInv, view.command = "bom", view.step = "rows", VerifyRows
    PROVE  BomInv'
  <1>1. /\ view'.step = "sessions" /\ view'.records = view.records /\ view'.scope = view.scope
        /\ view'.findings = Findings(RowsOf(Checked))
    BY DEF VerifyRows, Become, Base, ViewInv, ViewNames
  <1>2. log' = log /\ written' = written /\ damages' = damages
    BY DEF VerifyRows, Become
  <1>3. Checked = Sessions
    BY DEF Checked, BomInv
  <1>4. RowsOf(Checked) = log
    BY <1>3 DEF RowsOf, Base, StoreInv, IsRow
  <1>5. ASSUME NEW row \in log, row \notin written
        PROVE  Findings(RowsOf(Checked)) # {}
    <2>1. RowFindings(log, row) # {}
      BY <1>5, CleanRow DEF Base
    <2>2. QED
      BY <1>4, <2>1 DEF Findings
  <1>6. Exported' = Exported
    BY <1>1 DEF Exported
  <1>7. QED
    BY <1>1, <1>2, <1>5, <1>6 DEF BomInv

\* Every step keeps the invariant of the export.
LEMMA BomNext ==
    ASSUME Base, CheckedInv, BomInv, [Next]_vars
    PROVE  BomInv'
  <1>1. CASE Hooks
    <2>1. /\ view' = view /\ written \subseteq written' /\ damages' \in Nat /\ damages <= damages'
          /\ damages' = damages => log \ written \subseteq log' \ written'
      BY <1>1, HooksKeep DEF Base, Written
    <2>2. damages \in Nat
      BY DEF Base, StoreInv
    <2>3. damages' = 0 => damages = 0
      BY <2>1, <2>2
    <2>4. damages' <= 1 => damages <= 1
      BY <2>1, <2>2
    <2>5. damages' <= 1 => damages = 0 \/ damages' = damages
      BY <2>1, <2>2
    <2>6. Exported' = Exported
      BY <2>1 DEF Exported
    <2>7. ASSUME view.command = "bom", view.step = "rows", damages' <= 1
          PROVE  Exported \subseteq written' \/ log' \ written' # {}
      <3>1. CASE damages = 0
        BY <2>1, <2>7, <3>1 DEF BomInv
      <3>2. CASE damages' = damages
        <4>1. Exported \subseteq written \/ log \ written # {}
          BY <2>4, <2>7 DEF BomInv
        <4>2. QED
          BY <2>1, <3>2, <4>1
      <3>3. QED
        BY <2>5, <2>7, <3>1, <3>2
    <2>8. ASSUME view.command = "bom", view.step = "rows", damages' = 0
          PROVE  Exported \subseteq written'
      BY <2>1, <2>3, <2>8 DEF BomInv
    <2>9. ASSUME view.command = "bom", view.step # "rows", damages' <= 1
          PROVE  Exported \subseteq written' \/ view.findings # {}
      BY <2>1, <2>4, <2>9 DEF BomInv
    <2>10. view.command = "bom" => view.scope = All
      BY DEF BomInv
    <2>11. QED
      BY <2>1, <2>6, <2>7, <2>8, <2>9, <2>10 DEF BomInv
  <1>2. CASE Reads
    <2>1. log' = log /\ written' = written /\ damages' = damages
      BY <1>2, ReadsQuiet DEF Quiet
    <2>2. CASE Starts
      <3>1. CASE StartExport
        BY <3>1, BomStarts
      <3>2. CASE ~StartExport
        <4>1. view'.command # "bom"
          BY <2>2, <3>2, StartsAre
        <4>2. QED
          BY <4>1 DEF BomInv
      <3>3. QED
        BY <3>1, <3>2
    <2>3. CASE Continues
      <3>1. view'.command = view.command
        BY <2>3 DEF Continues, Changes, ViewNames
      <3>2. CASE view.command # "bom"
        BY <3>1, <3>2 DEF BomInv
      <3>3. CASE view.command = "bom" /\ view.step = "rows"
        <4>1. VerifyRows
          BY <2>3, <3>3 DEF Continues
        <4>2. QED
          BY <3>3, <4>1, BomVerifies
      <3>4. CASE view.command = "bom" /\ view.step = "sessions"
        <4>1. VerifySessions
          BY <2>3, <3>4 DEF Continues
        <4>2. /\ view'.step = "done" /\ view'.records = view.records /\ view'.scope = view.scope
              /\ view.findings \subseteq view'.findings
          <5>1. PICK findings : /\ view.findings \subseteq findings
                                /\ \E verdict : view' = [view EXCEPT !.step = "done", !.findings = findings, !.verdict = verdict]
            BY <3>4, <4>1 DEF VerifySessions, Become
          <5>2. QED
            BY <5>1 DEF Base, ViewInv, ViewNames
        <4>3. Exported' = Exported
          BY <4>2 DEF Exported
        <4>4. QED
          BY <2>1, <3>4, <4>2, <4>3 DEF BomInv
      <3>5. CASE view.command = "bom" /\ view.step = "list"
        BY <3>5 DEF CheckedInv
      <3>6. CASE view.command = "bom" /\ view.step \notin {"rows", "sessions", "list"}
        <4>1. view.step = "done"
          BY <3>6 DEF CheckedInv, Checks
        <4>2. QED
          BY <2>3, <4>1 DEF Continues
      <3>7. QED
        BY <3>2, <3>3, <3>4, <3>5, <3>6
    <2>4. CASE view' = Idle
      BY <2>4, IdleIs DEF BomInv
    <2>5. QED
      BY <1>2, <2>2, <2>3, <2>4, ReadsAre DEF Base
  <1>3. CASE UNCHANGED vars
    BY <1>3 DEF vars, BomInv, Exported
  <1>4. QED
    BY <1>1, <1>2, <1>3, TwoSides

\* With one damaged row, an exported bill of materials has no record of it either,
\* although the records were read first.  With two, the second may remove the row
\* of which a record has been read.
THEOREM VerdictIsSound == Spec => [](damages <= 1 => VerdictHolds)
  <1>1. Init => CheckedInv /\ BomInv
    BY IdleIs DEF Init, CheckedInv, BomInv, Checks, Sound
  <1>2. Base /\ CheckedInv /\ BomInv /\ [Next]_vars => CheckedInv' /\ BomInv'
    BY CheckedNext, BomNext
  <1>3. CheckedInv /\ BomInv => (damages <= 1 => VerdictHolds)
    <2> SUFFICES ASSUME CheckedInv, BomInv, damages <= 1, view.verdict \in Sound
                 PROVE  /\ view.rows \subseteq written
                        /\ view.command = "bom" => Exported \subseteq written
      BY DEF VerdictHolds, Sound, Exported
    <2>1. view.step = "done" /\ view.findings = {} /\ view.command \in Checks
      BY DEF CheckedInv, Sound
    <2>2. QED
      BY <2>1 DEF CheckedInv, BomInv
  <1>4. QED
    BY <1>1, <1>2, <1>3, StoreIsSound, PTL DEF Spec
==============================================================================
