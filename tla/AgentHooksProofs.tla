------------------------- MODULE AgentHooksProofs -------------------------
(***************************************************************************)
(* What becomes of the user's handlers, of ours and of config.toml, for    *)
(* any commands, files, seconds, edits and kills.                          *)
(***************************************************************************)
EXTENDS AgentHooks, FiniteSetTheorems, SequenceTheorems, WellFoundedInduction, TLAPS

-----------------------------------------------------------------------------
\* Numbers and sequences

\* A set of natural numbers has a least element.
LEMMA Least ==
    ASSUME NEW T \in SUBSET Nat, T # {}
    PROVE  \E x \in T : \A y \in T : x <= y
  <1>1. PICK x \in T : \A y \in T : <<y, x>> \notin OpToRel(<, Nat)
    BY NatLessThanWellFounded, WFMin
  <1>2. \A y \in T : ~(y < x)
    BY <1>1 DEF OpToRel
  <1>3. QED
    BY <1>2

\* A set that has the empty sequence, and every sequence with one element more than one
\* that it has, has all of them.
LEMMA SeqInduct ==
    ASSUME NEW X, NEW G, <<>> \in G, \A s \in Seq(X), e \in X : s \in G => Append(s, e) \in G
    PROVE  \A s \in Seq(X) : s \in G
  <1> SUFFICES ASSUME NEW z \in Seq(X), z \notin G PROVE FALSE
    OBVIOUS
  <1> DEFINE T == {m \in Nat : \E s \in Seq(X) : Len(s) = m /\ s \notin G}
  <1>1. Len(z) \in T
    OBVIOUS
  <1>2. PICK m \in T : \A k \in T : m <= k
    BY <1>1, Least
  <1>3. PICK s \in Seq(X) : Len(s) = m /\ s \notin G
    BY <1>2
  <1>4. m \in Nat /\ m # 0
    BY <1>2, <1>3
  <1>5. PICK t : t = SubSeq(s, 1, m - 1)
    OBVIOUS
  <1>6. t \in Seq(X) /\ Len(t) = m - 1 /\ s[m] \in X
    BY <1>3, <1>4, <1>5
  <1>7. s = Append(t, s[m])
    BY <1>3, <1>4, <1>5
  <1>8. m - 1 \in Nat /\ m - 1 < m
    BY <1>4
  <1>9. m - 1 \notin T
    BY <1>2, <1>8
  <1>10. t \in G
    BY <1>6, <1>8, <1>9
  <1>11. QED
    BY <1>3, <1>6, <1>7, <1>10

\* The function by which Filter is defined, for the first n elements.
Filters(f, s, S, n) ==
    f = [i \in 0 .. n |-> IF i = 0 THEN <<>>
                          ELSE IF s[i] \in S THEN Append(f[i - 1], s[i]) ELSE f[i - 1]]

\* It exists for every n.
LEMMA FilterExists ==
    ASSUME NEW s, NEW S, NEW n \in Nat
    PROVE  \E f : Filters(f, s, S, n)
  <1> DEFINE T == {m \in Nat : ~ \E f : Filters(f, s, S, m)}
  <1> SUFFICES ASSUME T # {} PROVE FALSE
    OBVIOUS
  <1>1. PICK m \in T : \A k \in T : m <= k
    BY Least
  <1>2. Filters([i \in 0 .. 0 |-> <<>>], s, S, 0)
    BY DEF Filters
  <1>3. m # 0 /\ m \in Nat
    BY <1>1, <1>2
  <1>4. PICK f : Filters(f, s, S, m - 1)
    BY <1>1, <1>3
  <1> DEFINE next(i) == IF i = 0 THEN <<>>
                        ELSE IF s[i] \in S THEN Append(f[i - 1], s[i]) ELSE f[i - 1]
  <1>5. PICK g : g = [i \in 0 .. m |-> next(i)]
    OBVIOUS
  <1>6. ASSUME NEW i \in 0 .. m - 1
        PROVE  g[i] = f[i]
    <2>1. f[i] = next(i)
      BY <1>4 DEF Filters
    <2>2. i \in 0 .. m
      BY <1>3
    <2>3. QED
      BY <1>5, <2>1, <2>2
  <1>7. \A i \in 0 .. m : i # 0 => i - 1 \in 0 .. m - 1
    BY <1>3
  <1>8. \A i \in 0 .. m : i # 0 => g[i - 1] = f[i - 1]
    BY <1>6, <1>7
  <1>9. g = [i \in 0 .. m |-> IF i = 0 THEN <<>>
                              ELSE IF s[i] \in S THEN Append(g[i - 1], s[i]) ELSE g[i - 1]]
    BY <1>5, <1>8
  <1>10. Filters(g, s, S, m)
    BY <1>9 DEF Filters
  <1>11. QED
    BY <1>1, <1>10

\* It only depends on those of the first n elements that are in S.
LEMMA FilterAgrees ==
    ASSUME NEW s, NEW t, NEW S, NEW n \in Nat, NEW m \in Nat, n <= m,
           NEW f, NEW g, Filters(f, s, S, n), Filters(g, t, S, m),
           \A i \in 1 .. n : s[i] = t[i] \/ (s[i] \notin S /\ t[i] \notin S)
    PROVE  f[n] = g[n]
  <1> DEFINE T == {i \in 0 .. n : f[i] # g[i]}
  <1> SUFFICES ASSUME T # {} PROVE FALSE
    OBVIOUS
  <1>1. PICK i \in T : \A k \in T : i <= k
    <2>1. T \in SUBSET Nat
      OBVIOUS
    <2>2. QED
      BY <2>1, Least
  <1>2. i \in 0 .. n /\ i \in 0 .. m
    OBVIOUS
  <1>3. f[i] = (IF i = 0 THEN <<>>
                ELSE IF s[i] \in S THEN Append(f[i - 1], s[i]) ELSE f[i - 1])
    BY <1>2 DEF Filters
  <1>4. g[i] = (IF i = 0 THEN <<>>
                ELSE IF t[i] \in S THEN Append(g[i - 1], t[i]) ELSE g[i - 1])
    BY <1>2 DEF Filters
  <1>5. i # 0
    BY <1>3, <1>4
  <1>6. i - 1 \in 0 .. n /\ i - 1 \notin T /\ i \in 1 .. n
    BY <1>1, <1>2, <1>5
  <1>7. f[i - 1] = g[i - 1] /\ (s[i] = t[i] \/ (s[i] \notin S /\ t[i] \notin S))
    BY <1>6
  <1>8. QED
    BY <1>3, <1>4, <1>7

\* Filter is one of its values.
LEMMA FilterIs ==
    ASSUME NEW s, NEW S, NEW n \in Nat, Len(s) = n
    PROVE  \E f : Filters(f, s, S, n) /\ Filter(s, S) = f[n]
  <1>1. PICK f : f = CHOOSE g : Filters(g, s, S, n)
    OBVIOUS
  <1>2. Filters(f, s, S, n)
    BY <1>1, FilterExists
  <1>3. Filter(s, S) = f[n]
    BY <1>1 DEF Filter, Filters
  <1>4. QED
    BY <1>2, <1>3

\* Nothing is left of nothing.
LEMMA FilterEmpty ==
    ASSUME NEW S
    PROVE  Filter(<<>>, S) = <<>>
  <1>1. PICK f : Filters(f, <<>>, S, 0) /\ Filter(<<>>, S) = f[0]
    BY FilterIs
  <1>2. QED
    BY <1>1 DEF Filters

\* The last element stays if it is in S.
LEMMA FilterAppend ==
    ASSUME NEW X, NEW s \in Seq(X), NEW e \in X, NEW S
    PROVE  Filter(Append(s, e), S) = IF e \in S THEN Append(Filter(s, S), e) ELSE Filter(s, S)
  <1>1. PICK n \in Nat : n = Len(s)
    OBVIOUS
  <1>2. PICK t : t = Append(s, e)
    OBVIOUS
  <1>3. Len(t) = n + 1 /\ t[n + 1] = e /\ \A i \in 1 .. n : s[i] = t[i]
    BY <1>1, <1>2
  <1>4. PICK f : Filters(f, s, S, n) /\ Filter(s, S) = f[n]
    BY <1>1, FilterIs
  <1>5. PICK g : Filters(g, t, S, n + 1) /\ Filter(t, S) = g[n + 1]
    BY <1>3, FilterIs
  <1>6. f[n] = g[n]
    BY <1>3, <1>4, <1>5, FilterAgrees
  <1>7. g[n + 1] = IF t[n + 1] \in S THEN Append(g[n], t[n + 1]) ELSE g[n]
    <2>1. PICK m : m = n + 1
      OBVIOUS
    <2>2. m \in 0 .. m /\ m # 0 /\ m - 1 = n
      BY <2>1
    <2>3. Filters(g, t, S, m)
      BY <1>5, <2>1
    <2>4. g[m] = IF m = 0 THEN <<>>
                 ELSE IF t[m] \in S THEN Append(g[m - 1], t[m]) ELSE g[m - 1]
      BY <2>2, <2>3 DEF Filters
    <2>5. QED
      BY <2>1, <2>2, <2>4
  <1>8. QED
    BY <1>2, <1>3, <1>4, <1>5, <1>6, <1>7

\* What stays was there, and is in S.
LEMMA FilterType ==
    ASSUME NEW X, NEW s \in Seq(X), NEW S
    PROVE  Filter(s, S) \in Seq(X \intersect S)
  <1>0. PICK Y : Y = X \intersect S
    OBVIOUS
  <1> DEFINE G == {q \in Seq(X) : Filter(q, S) \in Seq(Y)}
  <1>1. <<>> \in G
    <2>1. Filter(<<>>, S) = <<>>
      BY FilterEmpty
    <2>2. <<>> \in Seq(X) /\ <<>> \in Seq(Y)
      OBVIOUS
    <2>3. QED
      BY <2>1, <2>2
  <1>2. ASSUME NEW q \in Seq(X), NEW e \in X, q \in G
        PROVE  Append(q, e) \in G
    <2>1. Filter(q, S) \in Seq(Y) /\ (e \in S => e \in Y)
      BY <1>0, <1>2
    <2>2. Filter(Append(q, e), S) = IF e \in S THEN Append(Filter(q, S), e) ELSE Filter(q, S)
      BY FilterAppend
    <2>3. Filter(Append(q, e), S) \in Seq(Y)
      BY <2>1, <2>2
    <2>4. Append(q, e) \in Seq(X)
      OBVIOUS
    <2>5. QED
      BY <2>3, <2>4
  <1>3. \A q \in Seq(X) : q \in G
    <2> HIDE DEF G
    <2>1. QED
      BY <1>1, <1>2, SeqInduct
  <1>4. QED
    BY <1>0, <1>3

\* All stay, or none.
LEMMA FilterAll ==
    ASSUME NEW X, NEW s \in Seq(X), NEW S
    PROVE  /\ X \subseteq S => Filter(s, S) = s
           /\ X \intersect S = {} => Filter(s, S) = <<>>
  <1> DEFINE G == {q \in Seq(X) : /\ X \subseteq S => Filter(q, S) = q
                                  /\ X \intersect S = {} => Filter(q, S) = <<>>}
  <1>1. <<>> \in G
    BY FilterEmpty
  <1>2. ASSUME NEW q \in Seq(X), NEW e \in X, q \in G
        PROVE  Append(q, e) \in G
    <2>1. Filter(Append(q, e), S) = IF e \in S THEN Append(Filter(q, S), e) ELSE Filter(q, S)
      BY FilterAppend
    <2>2. QED
      BY <1>2, <2>1
  <1>3. \A q \in Seq(X) : q \in G
    <2> HIDE DEF G
    <2>1. QED
      BY <1>1, <1>2, SeqInduct
  <1>4. QED
    BY <1>3

\* None stay only if none is in S.
LEMMA FilterNothing ==
    ASSUME NEW X, NEW s \in Seq(X), NEW S, Filter(s, S) = <<>>
    PROVE  s \in Seq(X \ S)
  <1> DEFINE G == {q \in Seq(X) : Filter(q, S) = <<>> => q \in Seq(X \ S)}
  <1>1. <<>> \in G
    OBVIOUS
  <1>2. ASSUME NEW q \in Seq(X), NEW e \in X, q \in G
        PROVE  Append(q, e) \in G
    <2>1. Filter(Append(q, e), S) = IF e \in S THEN Append(Filter(q, S), e) ELSE Filter(q, S)
      BY FilterAppend
    <2>2. PICK Y : Filter(q, S) \in Seq(Y)
      BY FilterType
    <2>3. e \in S => Append(Filter(q, S), e) # <<>>
      BY <2>2
    <2>4. QED
      BY <1>2, <2>1, <2>3
  <1>3. \A q \in Seq(X) : q \in G
    <2> HIDE DEF G
    <2>1. QED
      BY <1>1, <1>2, SeqInduct
  <1>4. QED
    BY <1>3

\* Concatenation, under a name of its own.
Joined(a, b) == a \o b

\* Appending to the second part is appending.
LEMMA AppendJoined ==
    ASSUME NEW Y, NEW a \in Seq(Y), NEW b \in Seq(Y), NEW e \in Y,
           NEW ab, ab = Joined(a, b), NEW c, c = Append(b, e), NEW d, d = Append(ab, e)
    PROVE  d = Joined(a, c)
  <1>1. PICK o : o = <<e>> /\ o \in Seq(Y)
    <2>1. <<e>> \in Seq(Y)
      OBVIOUS
    <2>2. QED
      BY <2>1, Zenon
  <1>2. c = b \o o
    BY <1>1, AppendIsConcat, Zenon
  <1>3. ab = a \o b /\ ab \in Seq(Y)
    BY ConcatProperties, Zenon DEF Joined
  <1>4. d = ab \o o
    BY <1>1, <1>3, AppendIsConcat, Zenon
  <1>5. (a \o b) \o o = a \o (b \o o)
    BY <1>1, ConcatAssociative
  <1>6. QED
    BY <1>2, <1>3, <1>4, <1>5, Zenon DEF Joined

\* Two parts are filtered apart.
LEMMA FilterConcat ==
    ASSUME NEW X, NEW r \in Seq(X), NEW s \in Seq(X), NEW S
    PROVE  Filter(r \o s, S) = Filter(r, S) \o Filter(s, S)
  <1>0. PICK Y : Y = X \intersect S /\ Filter(r, S) \in Seq(Y)
    BY FilterType
  <1>1. PICK a : a = Filter(r, S)
    OBVIOUS
  <1> DEFINE G == {q \in Seq(X) : Filter(r \o q, S) = Joined(a, Filter(q, S))}
  <1>2. <<>> \in G
    <2>1. r \o <<>> = r /\ a \o <<>> = a /\ <<>> \in Seq(X)
      BY <1>0, <1>1
    <2>2. Filter(<<>>, S) = <<>>
      BY FilterEmpty
    <2>3. QED
      BY <1>1, <2>1, <2>2 DEF Joined
  <1>3. ASSUME NEW q \in Seq(X), NEW e \in X, q \in G
        PROVE  Append(q, e) \in G
    <2>1. PICK b : b = Filter(q, S)
      OBVIOUS
    <2>2. PICK c : c = Filter(Append(q, e), S)
      OBVIOUS
    <2>3. PICK d : d = Filter(Append(r \o q, e), S)
      OBVIOUS
    <2>4. r \o Append(q, e) = Append(r \o q, e) /\ r \o q \in Seq(X) /\ Append(q, e) \in Seq(X)
      OBVIOUS
    <2>5. Filter(r \o q, S) = Joined(a, b)
      BY <1>3, <2>1
    <2>6. c = IF e \in S THEN Append(b, e) ELSE b
      BY <2>1, <2>2, FilterAppend
    <2>7. d = IF e \in S THEN Append(Joined(a, b), e) ELSE Joined(a, b)
      <3>1. PICK u \in Seq(X) : u = r \o q
        BY <2>4
      <3>2. Filter(Append(u, e), S) = IF e \in S THEN Append(Filter(u, S), e) ELSE Filter(u, S)
        <4>1. \A v \in Seq(X) :
                Filter(Append(v, e), S) = IF e \in S THEN Append(Filter(v, S), e) ELSE Filter(v, S)
          BY FilterAppend, Zenon
        <4>2. QED
          BY <3>1, <4>1, Zenon
      <3>3. QED
        BY <2>3, <2>5, <3>1, <3>2, Zenon
    <2>8. b \in Seq(Y) /\ a \in Seq(Y) /\ (e \in S => e \in Y)
      BY <1>0, <1>1, <2>1, FilterType
    <2>9. d = Joined(a, c)
      <3>1. CASE e \in S
        <4>1. e \in Y /\ a \in Seq(Y) /\ b \in Seq(Y)
          BY <2>8, <3>1
        <4>2. PICK ab : ab = Joined(a, b)
          OBVIOUS
        <4>3. c = Append(b, e) /\ d = Append(ab, e)
          BY <2>6, <2>7, <3>1, <4>2
        <4>4. QED
          BY <4>1, <4>2, <4>3, AppendJoined, Zenon
      <3>2. CASE e \notin S
        BY <2>6, <2>7, <3>2
      <3>3. QED
        BY <3>1, <3>2
    <2>10. QED
      BY <2>2, <2>3, <2>4, <2>9
  <1>4. \A q \in Seq(X) : q \in G
    <2> HIDE DEF G
    <2>1. QED
      BY <1>2, <1>3, SeqInduct
  <1>5. QED
    BY <1>1, <1>4 DEF Joined

\* What is not in S may be anything else that is not.
LEMMA FilterSame ==
    ASSUME NEW X, NEW s \in Seq(X), NEW t \in Seq(X), NEW S, Len(s) = Len(t),
           \A i \in 1 .. Len(s) : s[i] = t[i] \/ (s[i] \notin S /\ t[i] \notin S)
    PROVE  Filter(s, S) = Filter(t, S)
  <1>1. PICK n \in Nat : n = Len(s) /\ n = Len(t)
    OBVIOUS
  <1>2. PICK f : Filters(f, s, S, n) /\ Filter(s, S) = f[n]
    BY <1>1, FilterIs
  <1>3. PICK g : Filters(g, t, S, n) /\ Filter(t, S) = g[n]
    BY <1>1, FilterIs
  <1>4. \A i \in 1 .. n : s[i] = t[i] \/ (s[i] \notin S /\ t[i] \notin S)
    BY <1>1
  <1>5. f[n] = g[n]
    BY <1>2, <1>3, <1>4, FilterAgrees
  <1>6. QED
    BY <1>2, <1>3, <1>5

-----------------------------------------------------------------------------
\* Groups

Foreign == Handlers \ Binaries
Group == Seq(Handlers)

\* What is left of a group are handlers that are not ours.
LEMMA TheirsType ==
    ASSUME NEW g \in Group
    PROVE  /\ Theirs(g) \in Seq(Foreign) /\ Theirs(g) \in Group
           /\ Theirs(Theirs(g)) = Theirs(g)
  <1>1. Handlers \intersect (Handlers \ Binaries) = Foreign
    BY DEF Foreign
  <1>2. Theirs(g) \in Seq(Foreign)
    BY <1>1, FilterType DEF Theirs, Group, Foreign
  <1>3. Theirs(g) \in Group
    BY <1>2 DEF Foreign, Group
  <1>4. \A t \in Seq(Foreign) : Filter(t, Foreign) = t
    BY FilterAll
  <1>5. QED
    BY <1>2, <1>3, <1>4 DEF Theirs, Foreign

\* A group that goes, and one of which nothing is left.
LEMMA GoesIfOurs ==
    ASSUME NEW g \in Group
    PROVE  /\ g \in Seq(Binaries) => Theirs(g) = <<>>
           /\ Theirs(g) = <<>> => g \in Seq(Binaries)
  <1>1. ASSUME g \in Seq(Binaries) PROVE Theirs(g) = <<>>
    <2>1. Binaries \intersect (Handlers \ Binaries) = {}
      OBVIOUS
    <2>2. QED
      BY <1>1, <2>1, FilterAll DEF Theirs
  <1>2. ASSUME Theirs(g) = <<>> PROVE g \in Seq(Binaries)
    <2>1. g \in Seq(Handlers \ (Handlers \ Binaries))
      BY <1>2, FilterNothing DEF Theirs, Group
    <2>2. Handlers \ (Handlers \ Binaries) \subseteq Binaries
      OBVIOUS
    <2>3. QED
      BY <2>1, <2>2
  <1>3. QED
    BY <1>1, <1>2

\* The groups without our handlers, one more group at a time.
Without(gs) == [i \in DOMAIN gs |-> Theirs(gs[i])]

\* It takes the groups one at a time.
LEMMA WithoutAppend ==
    ASSUME NEW gs \in Seq(Group), NEW g \in Group
    PROVE  /\ Without(gs) \in Seq(Group)
           /\ Without(<<>>) = <<>>
           /\ Without(Append(gs, g)) = Append(Without(gs), Theirs(g))
  <1>1. \A h \in Group : Theirs(h) \in Group
    BY TheirsType
  <1>2. PICK n \in Nat : n = Len(gs) /\ DOMAIN gs = 1 .. n
    OBVIOUS
  <1>3. PICK w : w = Without(gs)
    OBVIOUS
  <1>4. w = [i \in 1 .. n |-> Theirs(gs[i])]
    BY <1>2, <1>3 DEF Without
  <1>5. w \in Seq(Group) /\ Len(w) = n
    <2>1. \A i \in 1 .. n : gs[i] \in Group
      BY <1>2
    <2>2. \A i \in 1 .. n : Theirs(gs[i]) \in Group
      BY <1>1, <2>1
    <2>3. QED
      BY <1>4, <2>2
  <1>6. PICK t : t = Append(gs, g)
    OBVIOUS
  <1>7. DOMAIN t = 1 .. n + 1 /\ t[n + 1] = g /\ \A i \in 1 .. n : t[i] = gs[i]
    BY <1>2, <1>6
  <1>8. PICK x \in Group : x = Theirs(g)
    BY <1>1
  <1>9. PICK u : u = Without(t)
    OBVIOUS
  <1>10. u = Append(w, x)
    <2>1. u = [i \in 1 .. n + 1 |-> Theirs(t[i])]
      BY <1>7, <1>9 DEF Without
    <2>2. u[n + 1] = x /\ \A i \in 1 .. n : u[i] = w[i]
      BY <1>4, <1>7, <1>8, <2>1
    <2>3. \A i \in 1 .. n + 1 : u[i] \in Group
      BY <1>5, <2>2
    <2>4. u \in Seq(Group) /\ Len(u) = n + 1
      BY <2>1, <2>3
    <2>5. QED
      BY <1>5, <2>2, <2>4
  <1>11. Without(<<>>) = <<>>
    BY DEF Without
  <1>12. QED
    BY <1>3, <1>5, <1>6, <1>8, <1>9, <1>10, <1>11

\* TheirGroups, one more group at a time.
LEMMA TheirGroupsAppend ==
    ASSUME NEW gs \in Seq(Group), NEW g \in Group
    PROVE  /\ TheirGroups(gs) \in Seq(Group)
           /\ TheirGroups(<<>>) = <<>>
           /\ TheirGroups(Append(gs, g)) = IF Theirs(g) # <<>> THEN Append(TheirGroups(gs), Theirs(g))
                                           ELSE TheirGroups(gs)
  <1>1. PICK S : S = Seq(Handlers) \ {<<>>}
    OBVIOUS
  <1>2. \A hs : TheirGroups(hs) = Filter(Without(hs), S)
    BY <1>1 DEF TheirGroups, Without
  <1>3. Without(gs) \in Seq(Group) /\ Without(<<>>) = <<>>
           /\ Without(Append(gs, g)) = Append(Without(gs), Theirs(g))
    BY WithoutAppend
  <1>4. PICK w \in Seq(Group) : w = Without(gs)
    BY <1>3
  <1>5. PICK t \in Group : t = Theirs(g)
    BY TheirsType
  <1>6. Filter(Append(w, t), S) = IF t \in S THEN Append(Filter(w, S), t) ELSE Filter(w, S)
    BY FilterAppend
  <1>7. t \in S <=> t # <<>>
    BY <1>1, <1>5 DEF Group
  <1>8. Filter(w, S) \in Seq(Group)
    <2>1. Filter(w, S) \in Seq(Group \intersect S)
      BY FilterType
    <2>2. QED
      BY <2>1
  <1>9. Filter(<<>>, S) = <<>>
    BY FilterEmpty
  <1>10. TheirGroups(gs) = Filter(w, S) /\ TheirGroups(Append(gs, g)) = Filter(Append(w, t), S)
    BY <1>2, <1>3, <1>4, <1>5
  <1>11. TheirGroups(<<>>) = <<>>
    BY <1>2, <1>3, <1>9
  <1>12. QED
    BY <1>5, <1>6, <1>7, <1>8, <1>10, <1>11

\* RemoveEntries, one more group at a time.
LEMMA RemoveEntriesAppend ==
    ASSUME NEW gs \in Seq(Group), NEW g \in Group
    PROVE  /\ RemoveEntries(gs) \in Seq(Seq(Foreign)) /\ RemoveEntries(gs) \in Seq(Group)
           /\ RemoveEntries(<<>>) = <<>>
           /\ RemoveEntries(Append(gs, g)) =
                IF g = <<>> \/ Theirs(g) # <<>> THEN Append(RemoveEntries(gs), Theirs(g))
                ELSE RemoveEntries(gs)
  <1>1. PICK S : S = Seq(Handlers) \ (Seq(Binaries) \ {<<>>})
    OBVIOUS
  <1>2. \A hs : RemoveEntries(hs) = Without(Filter(hs, S))
    BY <1>1 DEF RemoveEntries, Without
  <1>3. PICK k \in Seq(Group) : k = Filter(gs, S)
    <2>1. Filter(gs, S) \in Seq(Group \intersect S)
      BY FilterType
    <2>2. QED
      BY <2>1
  <1>4. Filter(Append(gs, g), S) = IF g \in S THEN Append(k, g) ELSE k
    BY <1>3, FilterAppend
  <1>5. Without(k) \in Seq(Group) /\ Without(<<>>) = <<>>
           /\ Without(Append(k, g)) = Append(Without(k), Theirs(g))
    BY WithoutAppend
  <1>6. g \in S <=> g = <<>> \/ Theirs(g) # <<>>
    BY <1>1, GoesIfOurs DEF Group
  <1>7. RemoveEntries(<<>>) = <<>>
    BY <1>2, <1>5, FilterEmpty
  <1>8. RemoveEntries(gs) \in Seq(Seq(Foreign))
    <2>1. \A i \in DOMAIN k : Theirs(k[i]) \in Seq(Foreign)
      BY TheirsType
    <2>2. Without(k) \in Seq(Seq(Foreign))
      BY <2>1 DEF Without
    <2>3. QED
      BY <1>2, <1>3, <2>2
  <1>9. RemoveEntries(gs) = Without(k)
    BY <1>2, <1>3
  <1>10. RemoveEntries(Append(gs, g)) = IF g \in S THEN Without(Append(k, g)) ELSE Without(k)
    BY <1>2, <1>4
  <1>11. QED
    BY <1>5, <1>6, <1>7, <1>8, <1>9, <1>10

\* Nothing of ours is left, and what is not ours stays.
LEMMA RemoveEntriesKeeps ==
    ASSUME NEW gs \in Seq(Group)
    PROVE  TheirGroups(RemoveEntries(gs)) = TheirGroups(gs)
  <1> DEFINE G == {q \in Seq(Group) : TheirGroups(RemoveEntries(q)) = TheirGroups(q)}
  <1>1. <<>> \in G
    <2>1. RemoveEntries(<<>>) = <<>> /\ <<>> \in Seq(Group)
      <3>1. <<>> \in Seq(Group) /\ <<>> \in Group
        BY DEF Group
      <3>2. QED
        BY <3>1, RemoveEntriesAppend
    <2>2. QED
      BY <2>1
  <1>2. ASSUME NEW q \in Seq(Group), NEW g \in Group, q \in G
        PROVE  Append(q, g) \in G
    <2>0. Append(q, g) \in Seq(Group)
      OBVIOUS
    <2>1. TheirGroups(RemoveEntries(q)) = TheirGroups(q)
      BY <1>2
    <2>2. PICK r \in Seq(Group) : r = RemoveEntries(q)
      BY RemoveEntriesAppend
    <2>3. RemoveEntries(Append(q, g)) =
                IF g = <<>> \/ Theirs(g) # <<>> THEN Append(r, Theirs(g)) ELSE r
      BY <2>2, RemoveEntriesAppend
    <2>4. PICK t \in Group : t = Theirs(g) /\ Theirs(t) = t
      BY TheirsType
    <2>5. TheirGroups(Append(r, t)) = IF t # <<>> THEN Append(TheirGroups(r), t) ELSE TheirGroups(r)
      BY <2>4, TheirGroupsAppend
    <2>6. TheirGroups(Append(q, g)) = IF t # <<>> THEN Append(TheirGroups(q), t) ELSE TheirGroups(q)
      BY <2>4, TheirGroupsAppend
    <2>7. TheirGroups(r) = TheirGroups(q)
      BY <2>1, <2>2
    <2>8. TheirGroups(RemoveEntries(Append(q, g))) = TheirGroups(Append(q, g))
      BY <2>3, <2>4, <2>5, <2>6, <2>7
    <2>9. QED
      BY <2>0, <2>8
  <1>3. \A q \in Seq(Group) : q \in G
    <2> HIDE DEF G
    <2>1. QED
      BY <1>1, <1>2, SeqInduct
  <1>4. QED
    BY <1>3

-----------------------------------------------------------------------------
\* Hooks

\* Each event has groups.
LEMMA HooksAre ==
    /\ Hooks = [Events -> Seq(Group)] /\ Binaries \subseteq Handlers
    /\ \A h \in Handlers : <<h>> \in Group
    /\ \A h \in Foreign : h \in Handlers /\ <<h>> \in Seq(Foreign)
    /\ Observer \in Foreign /\ Others \subseteq Foreign
    /\ NoHooks \in Hooks
  BY HooksAssumption DEF Hooks, Group, Foreign, Handlers, NoHooks

\* What the commands make of hooks are hooks.
LEMMA HooksTyped ==
    ASSUME NEW a \in Agents, NEW h \in Hooks, NEW b \in Binaries
    PROVE  /\ Installed(a, h, b) \in Hooks /\ Removed(a, h) \in Hooks /\ Merged(h) \in Hooks
           /\ TheirPart(h) \in Hooks
  <1>1. \A e \in Events : h[e] \in Seq(Group)
    BY HooksAre
  <1>2. <<b>> \in Group /\ <<Observer>> \in Group
    BY HooksAre
  <1>3. PICK some \in Group : TRUE
    BY <1>2
  <1>4. \A gs \in Seq(Group) : RemoveEntries(gs) \in Seq(Group)
    BY <1>3, RemoveEntriesAppend
  <1>5. \A gs \in Seq(Group) : TheirGroups(gs) \in Seq(Group)
    BY <1>3, TheirGroupsAppend
  <1>6. \A gs \in Seq(Group), g \in Group : Append(gs, g) \in Seq(Group)
    OBVIOUS
  <1>7. Installed(a, h, b) \in [Events -> Seq(Group)]
    BY <1>1, <1>2, <1>4, <1>6 DEF Installed
  <1>8. Removed(a, h) \in [Events -> Seq(Group)]
    BY <1>1, <1>4 DEF Removed
  <1>9. Merged(h) \in [Events -> Seq(Group)]
    BY <1>1, <1>2, <1>6 DEF Merged
  <1>10. TheirPart(h) \in [Events -> Seq(Group)]
    BY <1>1, <1>5 DEF TheirPart
  <1>11. QED
    BY <1>7, <1>8, <1>9, <1>10, HooksAre

\* Installing and removing keep the handlers of others.
LEMMA TheirsKept ==
    ASSUME NEW a \in Agents, NEW h \in Hooks, NEW b \in Binaries
    PROVE  /\ TheirPart(Installed(a, h, b)) = TheirPart(h)
           /\ TheirPart(Removed(a, h)) = TheirPart(h)
  <1>1. \A e \in Events : h[e] \in Seq(Group)
    BY HooksAre
  <1>2. <<b>> \in Group /\ Theirs(<<b>>) = <<>>
    <2>1. <<b>> \in Group /\ <<b>> \in Seq(Binaries)
      BY HooksAre
    <2>2. QED
      BY <2>1, GoesIfOurs
  <1>3. ASSUME NEW gs \in Seq(Group)
        PROVE  TheirGroups(Append(RemoveEntries(gs), <<b>>)) = TheirGroups(gs)
    <2>1. PICK r \in Seq(Group) : r = RemoveEntries(gs)
      BY <1>2, RemoveEntriesAppend
    <2>2. PICK g \in Group : g = <<b>> /\ Theirs(g) = <<>>
      BY <1>2
    <2>3. TheirGroups(Append(r, g)) = TheirGroups(r)
      BY <2>2, TheirGroupsAppend
    <2>4. TheirGroups(r) = TheirGroups(gs)
      BY <2>1, RemoveEntriesKeeps
    <2>5. QED
      BY <2>1, <2>2, <2>3, <2>4
  <1>4. \A gs \in Seq(Group) : TheirGroups(RemoveEntries(gs)) = TheirGroups(gs)
    BY RemoveEntriesKeeps
  <1>5. \A e \in Events : TheirGroups(Installed(a, h, b)[e]) = TheirGroups(h[e])
    BY <1>1, <1>3 DEF Installed
  <1>6. \A e \in Events : TheirGroups(Removed(a, h)[e]) = TheirGroups(h[e])
    BY <1>1, <1>4 DEF Removed
  <1>7. QED
    BY <1>5, <1>6 DEF TheirPart

\* The observer's handler is added to what others have.
LEMMA TheirsMerged ==
    ASSUME NEW h \in Hooks
    PROVE  TheirPart(Merged(h)) = WithObserver(TheirPart(h), h)
  <1>1. \A e \in Events : h[e] \in Seq(Group)
    BY HooksAre
  <1>2. PICK g \in Group : g = <<Observer>> /\ g \in Seq(Foreign)
    BY HooksAre
  <1>3. Theirs(g) = g /\ g # <<>>
    <2>1. Foreign = Handlers \ Binaries
      BY DEF Foreign
    <2>2. Theirs(g) = g
      BY <1>2, <2>1, FilterAll DEF Theirs
    <2>3. QED
      BY <1>2, <2>2
  <1>4. \A gs \in Seq(Group) : TheirGroups(Append(gs, g)) = Append(TheirGroups(gs), g)
    BY <1>3, TheirGroupsAppend
  <1>5. PICK m : m = Merged(h)
    OBVIOUS
  <1>6. m = [e \in Events |-> IF e \in ObserverEvents /\ g \notin Members(h[e])
                             THEN Append(h[e], g) ELSE h[e]]
    BY <1>2, <1>5 DEF Merged
  <1>7. \A e \in Events :
          TheirGroups(m[e]) = IF e \in ObserverEvents /\ g \notin Members(h[e])
                              THEN Append(TheirGroups(h[e]), g) ELSE TheirGroups(h[e])
    BY <1>1, <1>4, <1>6
  <1>8. PICK t : t = TheirPart(h)
    OBVIOUS
  <1>12. \A e \in Events : t[e] = TheirGroups(h[e])
    BY <1>8 DEF TheirPart
  <1>9. TheirPart(m) = [e \in Events |-> IF e \in ObserverEvents /\ g \notin Members(h[e])
                                        THEN Append(t[e], g) ELSE t[e]]
    BY <1>7, <1>12 DEF TheirPart
  <1>10. WithObserver(t, h) = [e \in Events |-> IF e \in ObserverEvents /\ g \notin Members(h[e])
                                               THEN Append(t[e], g) ELSE t[e]]
    BY <1>2 DEF WithObserver
  <1>11. QED
    BY <1>5, <1>8, <1>9, <1>10

\* Where nobody has handlers, others have none.
LEMMA NobodysPart == TheirPart(NoHooks) = NoHooks
  <1>1. TheirGroups(<<>>) = <<>>
    <2>1. <<>> \in Seq(Group) /\ <<>> \in Group
      BY DEF Group
    <2>2. QED
      BY <2>1, TheirGroupsAppend
  <1>2. QED
    BY <1>1 DEF TheirPart, NoHooks

\* A sequence of one element.
LEMMA OneElement ==
    ASSUME NEW x
    PROVE  DOMAIN <<x>> = {1} /\ <<x>>[1] = x
  <1>1. DOMAIN <<x>> = 1 .. 1
    OBVIOUS
  <1>2. 1 .. 1 = {1}
    OBVIOUS
  <1>3. QED
    BY <1>1, <1>2

\* Where our handlers stand.
LEMMA OwnAtIs ==
    ASSUME NEW gs, NEW p
    PROVE  p \in OwnAt(gs) <=>
             \E i \in DOMAIN gs : \E j \in DOMAIN gs[i] : p = <<i, j>> /\ gs[i][j] \in Binaries
  BY DEF OwnAt, Own

\* Groups of others' handlers have none of ours, also when one more is added.
LEMMA OwnAtForeign ==
    ASSUME NEW gs \in Seq(Seq(Foreign)), NEW b \in Binaries
    PROVE  /\ OwnAt(gs) = {}
           /\ OwnAt(Append(gs, <<b>>)) = {<<Len(gs) + 1, 1>>}
           /\ Append(gs, <<b>>)[Len(gs) + 1][1] = b
  <1>1. PICK n \in Nat : n = Len(gs) /\ DOMAIN gs = 1 .. n
    OBVIOUS
  <1>2. \A i \in 1 .. n : \A j \in DOMAIN gs[i] : gs[i][j] \notin Binaries
    BY <1>1 DEF Foreign
  <1>3. OwnAt(gs) = {}
    BY <1>1, <1>2, OwnAtIs
  <1>4. PICK t : t = Append(gs, <<b>>)
    OBVIOUS
  <1>5. DOMAIN t = 1 .. n + 1 /\ t[n + 1] = <<b>> /\ \A i \in 1 .. n : t[i] = gs[i]
    BY <1>1, <1>4
  <1>6. PICK g : g = <<b>> /\ DOMAIN g = {1} /\ g[1] = b
    BY OneElement
  <1>7. ASSUME NEW p
        PROVE  p \in OwnAt(t) <=> p = <<n + 1, 1>>
    <2>1. p \in OwnAt(t) <=>
             \E i \in 1 .. n + 1 : \E j \in DOMAIN t[i] : p = <<i, j>> /\ t[i][j] \in Binaries
      BY <1>5, OwnAtIs
    <2>2. \A i \in 1 .. n + 1 : i = n + 1 \/ i \in 1 .. n
      OBVIOUS
    <2>3. \A i \in 1 .. n + 1 : \A j \in DOMAIN t[i] : t[i][j] \in Binaries => i = n + 1 /\ j = 1
      BY <1>2, <1>5, <1>6, <2>2
    <2>4. n + 1 \in 1 .. n + 1 /\ 1 \in DOMAIN t[n + 1] /\ t[n + 1][1] \in Binaries
      BY <1>5, <1>6
    <2>5. QED
      BY <2>1, <2>3, <2>4
  <1>8. QED
    BY <1>1, <1>3, <1>4, <1>5, <1>6, <1>7

\* Our handlers in hooks, as a command for binary b leaves them; b may be None.
OwnAs(a, h, b) ==
    \A e \in OurEvents[a] :
        LET groups == h[e]
        IN  IF b = None THEN OwnAt(groups) = {}
            ELSE \E p \in OwnAt(groups) :
                     OwnAt(groups) = {p} /\ groups[p[1]][p[2]] = b

\* They are after an installation and after a removal.
LEMMA OwnWritten ==
    ASSUME NEW a \in Agents, NEW h \in Hooks, NEW b \in Binaries
    PROVE  OwnAs(a, Installed(a, h, b), b) /\ OwnAs(a, Removed(a, h), None)
  <1>1. \A e \in Events : h[e] \in Seq(Group)
    BY HooksAre
  <1>2. OurEvents[a] \subseteq Events /\ b # None
    BY HooksAssumption DEF Handlers
  <1>3. <<b>> \in Group
    BY HooksAre
  <1>4. ASSUME NEW e \in OurEvents[a]
        PROVE  /\ OwnAt(Removed(a, h)[e]) = {}
               /\ \E p \in OwnAt(Installed(a, h, b)[e]) :
                     /\ OwnAt(Installed(a, h, b)[e]) = {p}
                     /\ Installed(a, h, b)[e][p[1]][p[2]] = b
    <2>1. PICK r \in Seq(Seq(Foreign)) : r = RemoveEntries(h[e])
      BY <1>1, <1>2, <1>3, RemoveEntriesAppend
    <2>2. Removed(a, h)[e] = r
      BY <1>2, <2>1 DEF Removed
    <2>3. PICK t : t = Append(r, <<b>>)
      OBVIOUS
    <2>4. Installed(a, h, b)[e] = t
      BY <1>2, <2>1, <2>3 DEF Installed
    <2>5. OwnAt(r) = {} /\ OwnAt(t) = {<<Len(r) + 1, 1>>} /\ t[Len(r) + 1][1] = b
      BY <2>3, OwnAtForeign
    <2>6. QED
      BY <2>2, <2>4, <2>5
  <1>5. QED
    BY <1>2, <1>4 DEF OwnAs

\* They stay what they are where others' groups or handlers are added.
LEMMA OwnStays ==
    ASSUME NEW a \in Agents, NEW h \in Hooks, NEW k, NEW b, OwnAs(a, h, b),
           \A e \in OurEvents[a] : \A i, j :
               i \in DOMAIN k[e] /\ j \in DOMAIN k[e][i] /\ k[e][i][j] \in Binaries <=>
               i \in DOMAIN h[e] /\ j \in DOMAIN h[e][i] /\ h[e][i][j] \in Binaries,
           \A e \in OurEvents[a] : \A i \in DOMAIN h[e] : \A j \in DOMAIN h[e][i] :
               h[e][i][j] \in Binaries => k[e][i][j] = h[e][i][j]
    PROVE  OwnAs(a, k, b)
  <1>1. ASSUME NEW e \in OurEvents[a]
        PROVE  /\ OwnAt(k[e]) = OwnAt(h[e])
               /\ \A p \in OwnAt(h[e]) : k[e][p[1]][p[2]] = h[e][p[1]][p[2]]
    <2>1. \A p : p \in OwnAt(k[e]) <=> p \in OwnAt(h[e])
      BY OwnAtIs
    <2>2. ASSUME NEW p \in OwnAt(h[e])
          PROVE  k[e][p[1]][p[2]] = h[e][p[1]][p[2]]
      BY OwnAtIs
    <2>3. QED
      BY <2>1, <2>2
  <1>2. ASSUME NEW e \in OurEvents[a]
        PROVE  IF b = None THEN OwnAt(k[e]) = {}
               ELSE \E p \in OwnAt(k[e]) : OwnAt(k[e]) = {p} /\ k[e][p[1]][p[2]] = b
    <2>1. IF b = None THEN OwnAt(h[e]) = {}
          ELSE \E p \in OwnAt(h[e]) : OwnAt(h[e]) = {p} /\ h[e][p[1]][p[2]] = b
      BY DEF OwnAs
    <2>2. CASE b = None
      BY <1>1, <2>1, <2>2
    <2>3. CASE b # None
      <3>1. PICK p \in OwnAt(h[e]) : OwnAt(h[e]) = {p} /\ h[e][p[1]][p[2]] = b
        BY <2>1, <2>3
      <3>2. OwnAt(k[e]) = {p} /\ k[e][p[1]][p[2]] = b
        BY <1>1, <3>1
      <3>3. QED
        BY <2>3, <3>2
    <2>4. QED
      BY <2>2, <2>3
  <1>3. QED
    BY <1>2 DEF OwnAs

\* A group of others at the end.
LEMMA OwnWithGroup ==
    ASSUME NEW gs \in Seq(Group), NEW f \in Foreign, NEW i, NEW j, NEW t, t = Append(gs, <<f>>)
    PROVE  /\ (i \in DOMAIN t /\ j \in DOMAIN t[i] /\ t[i][j] \in Binaries) <=>
              (i \in DOMAIN gs /\ j \in DOMAIN gs[i] /\ gs[i][j] \in Binaries)
           /\ i \in DOMAIN gs => t[i] = gs[i]
  <1>1. PICK n \in Nat : n = Len(gs) /\ DOMAIN gs = 1 .. n
    OBVIOUS
  <1>2. DOMAIN t = 1 .. n + 1 /\ t[n + 1] = <<f>> /\ \A x \in 1 .. n : t[x] = gs[x]
    BY <1>1
  <1>3. PICK g : g = <<f>> /\ DOMAIN g = {1} /\ g[1] = f
    BY OneElement
  <1>4. f \notin Binaries
    BY DEF Foreign
  <1>5. i \in 1 .. n + 1 <=> i = n + 1 \/ i \in 1 .. n
    OBVIOUS
  <1>6. n + 1 \notin 1 .. n
    OBVIOUS
  <1>7. QED
    BY <1>1, <1>2, <1>3, <1>4, <1>5, <1>6

\* A handler of others in the first group.
WithHandler(gs, f) == [gs EXCEPT ![1] = Append(@, f)]

\* Our handlers stay where they are.
LEMMA OwnWithHandler ==
    ASSUME NEW gs \in Seq(Group), gs # <<>>, NEW f \in Foreign, NEW i, NEW j,
           NEW t, t = WithHandler(gs, f)
    PROVE  /\ (i \in DOMAIN t /\ j \in DOMAIN t[i] /\ t[i][j] \in Binaries) <=>
              (i \in DOMAIN gs /\ j \in DOMAIN gs[i] /\ gs[i][j] \in Binaries)
           /\ i \in DOMAIN gs /\ j \in DOMAIN gs[i] => t[i][j] = gs[i][j]
           /\ t \in Seq(Group)
  <1>1. PICK g \in Group : g = gs[1] /\ 1 \in DOMAIN gs
    OBVIOUS
  <1>2. PICK m \in Nat : m = Len(g) /\ DOMAIN g = 1 .. m
    BY DEF Group
  <1>3. PICK u : u = Append(g, f)
    OBVIOUS
  <1>4. f \in Handlers /\ f \notin Binaries
    BY DEF Foreign
  <1>5. DOMAIN u = 1 .. m + 1 /\ u[m + 1] = f /\ \A x \in 1 .. m : u[x] = g[x]
    BY <1>2, <1>3, <1>4 DEF Group
  <1>6. u \in Group
    BY <1>3, <1>4 DEF Group
  <1>7. DOMAIN t = DOMAIN gs /\ t[1] = u /\ \A x \in DOMAIN gs : x # 1 => t[x] = gs[x]
    BY <1>1, <1>3 DEF WithHandler
  <1>8. j \in 1 .. m + 1 <=> j = m + 1 \/ j \in 1 .. m
    OBVIOUS
  <1>9. m + 1 \notin 1 .. m
    OBVIOUS
  <1>10. t \in Seq(Group)
    BY <1>1, <1>3, <1>6 DEF WithHandler
  <1>11. QED
    BY <1>1, <1>2, <1>4, <1>5, <1>7, <1>8, <1>9, <1>10

\* They stay what they are when the observer is merged in.
LEMMA OwnMerged ==
    ASSUME NEW a \in Agents, NEW h \in Hooks, NEW b, OwnAs(a, h, b)
    PROVE  OwnAs(a, Merged(h), b)
  <1>1. PICK k : k = Merged(h)
    OBVIOUS
  <1>2. OurEvents[a] \subseteq Events
    BY HooksAssumption
  <1>3. ASSUME NEW e \in OurEvents[a], NEW i, NEW j
        PROVE  /\ (i \in DOMAIN k[e] /\ j \in DOMAIN k[e][i] /\ k[e][i][j] \in Binaries) <=>
                  (i \in DOMAIN h[e] /\ j \in DOMAIN h[e][i] /\ h[e][i][j] \in Binaries)
               /\ i \in DOMAIN h[e] => k[e][i] = h[e][i]
    <2>1. PICK gs \in Seq(Group) : gs = h[e]
      BY <1>2, HooksAre
    <2>2. k[e] = gs \/ k[e] = Append(gs, <<Observer>>)
      BY <1>1, <1>2, <2>1 DEF Merged
    <2>3. PICK f \in Foreign : f = Observer
      BY HooksAre
    <2>4. CASE k[e] = gs
      BY <2>1, <2>4
    <2>5. CASE k[e] = Append(gs, <<Observer>>)
      <3>1. PICK t : t = k[e] /\ t = Append(gs, <<f>>)
        BY <2>3, <2>5
      <3>2. /\ (i \in DOMAIN t /\ j \in DOMAIN t[i] /\ t[i][j] \in Binaries) <=>
               (i \in DOMAIN gs /\ j \in DOMAIN gs[i] /\ gs[i][j] \in Binaries)
            /\ i \in DOMAIN gs => t[i] = gs[i]
        BY <3>1, OwnWithGroup
      <3>3. QED
        BY <2>1, <3>1, <3>2
    <2>6. QED
      BY <2>2, <2>4, <2>5
  <1>4. QED
    BY <1>1, <1>3, OwnStays

-----------------------------------------------------------------------------
\* config.toml

\* Two of the same are one.
LEMMA AtMostOne ==
    ASSUME NEW n \in Nat, NEW T \in SUBSET (1 .. n)
    PROVE  Cardinality(T) <= 1 <=> \A x, y \in T : x = y
  <1>1. IsFiniteSet(T)
    <2>1. IsFiniteSet(1 .. n)
      BY FS_Interval
    <2>2. QED
      BY <2>1, FS_Subset
  <1>2. ASSUME \A x, y \in T : x = y PROVE Cardinality(T) <= 1
    <2>1. CASE T = {}
      BY <2>1, FS_EmptySet
    <2>2. CASE T # {}
      <3>1. PICK x \in T : TRUE
        BY <2>2
      <3>2. T = {x}
        BY <1>2, <3>1
      <3>3. QED
        BY <3>2, FS_Singleton
    <2>3. QED
      BY <2>1, <2>2
  <1>3. ASSUME Cardinality(T) <= 1, NEW x \in T, NEW y \in T, x # y PROVE FALSE
    <2>1. {x, y} \subseteq T
      OBVIOUS
    <2>2. Cardinality({x, y}) <= Cardinality(T)
      BY <1>1, <2>1, FS_Subset
    <2>3. Cardinality({x}) = 1 /\ IsFiniteSet({x})
      BY FS_Singleton
    <2>4. Cardinality({x} \union {y}) = Cardinality({x}) + 1
      BY <1>3, <2>3, FS_AddElement
    <2>5. {x} \union {y} = {x, y}
      OBVIOUS
    <2>6. Cardinality(T) \in Nat
      BY <1>1, FS_CardinalityType
    <2>7. QED
      BY <1>3, <2>2, <2>3, <2>4, <2>5, <2>6
  <1>4. QED
    BY <1>2, <1>3

\* A key is set at most once.
Once(ls, feature) == \A i, j \in FeatureLines(ls, feature) : i = j

\* A text can be read if every key is set at most once.
LEMMA ParsesIs ==
    ASSUME NEW ls \in Seq(Line)
    PROVE  Parses(ls) <=> \A f \in FeatureKeys : Once(ls, f)
  <1>1. PICK n \in Nat : n = Len(ls) /\ DOMAIN ls = 1 .. n
    OBVIOUS
  <1>2. \A f \in FeatureKeys : FeatureLines(ls, f) \in SUBSET (1 .. n)
    BY <1>1 DEF FeatureLines
  <1>3. \A f \in FeatureKeys : Cardinality(FeatureLines(ls, f)) <= 1 <=> Once(ls, f)
    BY <1>2, AtMostOne DEF Once
  <1>4. QED
    BY <1>3 DEF Parses

\* Where the table begins is h; a line that stop stands before is not in it.
Begins(ls, h) == h \in DOMAIN ls /\ \A i \in DOMAIN ls : ls[i].text = "[features]" <=> i = h

\* The lines of the table follow its header, up to the next header.
LEMMA InTable ==
    ASSUME NEW ls \in Seq(Line), NEW h, Begins(ls, h), NEW i \in DOMAIN ls
    PROVE  InFeatures(ls, i) <=> h < i /\ \A k \in h + 1 .. i - 1 : ls[k].text # "[table]"
  <1>1. PICK n \in Nat : n = Len(ls) /\ DOMAIN ls = 1 .. n
    OBVIOUS
  <1>2. h \in 1 .. n /\ i \in 1 .. n /\ \A k \in 1 .. n : ls[k].text = "[features]" <=> k = h
    BY <1>1 DEF Begins
  <1>3. \A k \in h + 1 .. i - 1 : k \in 1 .. n /\ k # h
    BY <1>2
  <1>4. \A k \in h + 1 .. i - 1 : ls[k].text \in Headers <=> ls[k].text = "[table]"
    BY <1>2, <1>3 DEF Headers
  <1>5. \A k \in 1 .. i - 1 : k \in 1 .. n
    BY <1>2
  <1>6. h \in 1 .. i - 1 <=> h < i
    BY <1>2
  <1>7. QED
    BY <1>2, <1>4, <1>5, <1>6 DEF InFeatures

\* With one table, or none, of that name.
LEMMA TableIs ==
    ASSUME NEW ls \in Seq(Line), ~(Cardinality(Tables(ls)) > 1), Tables(ls) # {}
    PROVE  \E h \in DOMAIN ls : Begins(ls, h)
  <1>1. PICK n \in Nat : n = Len(ls) /\ DOMAIN ls = 1 .. n
    OBVIOUS
  <1>2. Tables(ls) \in SUBSET (1 .. n)
    BY <1>1 DEF Tables
  <1>3. Cardinality(Tables(ls)) <= 1
    <2>1. IsFiniteSet(Tables(ls))
      BY <1>2, FS_Interval, FS_Subset
    <2>2. QED
      BY <2>1, FS_CardinalityType
  <1>4. \A x, y \in Tables(ls) : x = y
    BY <1>2, <1>3, AtMostOne
  <1>5. PICK h : h \in Tables(ls)
    OBVIOUS
  <1>6. QED
    BY <1>4, <1>5 DEF Tables, Begins

\* The stops lie behind the header.
LEMMA StopsAre ==
    ASSUME NEW ls \in Seq(Line), NEW h, Begins(ls, h), NEW f \in FeatureKeys
    PROVE  /\ Stops(ls, f) \in SUBSET Nat
           /\ \A i \in DOMAIN ls : i \in Stops(ls, f) <=> h < i /\ ls[i].text \in {"[table]", f}
  <1>1. PICK n \in Nat : n = Len(ls) /\ DOMAIN ls = 1 .. n
    OBVIOUS
  <1>2. h \in 1 .. n /\ \A k \in 1 .. n : ls[k].text = "[features]" <=> k = h
    BY <1>1 DEF Begins
  <1>3. ASSUME NEW i \in 1 .. n
        PROVE  (\E x \in 1 .. i - 1 : ls[x].text = "[features]") <=> h < i
    <2>1. \A x \in 1 .. i - 1 : x \in 1 .. n
      OBVIOUS
    <2>2. h \in 1 .. i - 1 <=> h < i
      BY <1>2
    <2>3. QED
      BY <1>2, <2>1, <2>2
  <1>4. QED
    BY <1>1, <1>3 DEF Stops

\* What a text keeps of another, and how the feature stands in it.
Keeps(ls, t, f) ==
    /\ t \in Seq(Line)
    /\ OtherLines(t) = OtherLines(ls)
    /\ (\A g \in FeatureKeys : Once(ls, g)) => \A g \in FeatureKeys : Once(t, g)
    /\ On(t, f)

\* The lines that are not the feature's.
Plain == {l \in Line : l.text \notin {"[features]"} \union FeatureKeys}

\* The key, and a header of its own.
LEMMA KeyIs ==
    ASSUME NEW f \in FeatureKeys
    PROVE  /\ Key(f) \in Line /\ Key(f) \notin Plain /\ Key(f).text = f /\ Key(f).on
           /\ [text |-> "[features]", on |-> FALSE] \in Line
           /\ [text |-> "[features]", on |-> FALSE] \notin Plain
           /\ f \notin Headers
  BY DEF Key, Line, Plain, FeatureKeys, Headers

\* What is appended is not among the other lines.
LEMMA OthersAppended ==
    ASSUME NEW ls \in Seq(Line), NEW k \in Line, k \notin Plain, NEW t, t = Append(ls, k)
    PROVE  OtherLines(t) = OtherLines(ls)
  <1>1. Filter(t, Plain) = Filter(ls, Plain)
    BY FilterAppend
  <1>2. QED
    BY <1>1 DEF OtherLines, Plain

\* What is appended comes last.
LEMMA Appended ==
    ASSUME NEW X, NEW s \in Seq(X), NEW n \in Nat, n = Len(s), NEW k \in X,
           NEW t, t = Append(s, k)
    PROVE  t \in Seq(X) /\ Len(t) = n + 1 /\ t[n + 1] = k /\ \A i \in 1 .. n : t[i] = s[i]
  OBVIOUS

\* A table of its own at the end.
LEMMA KeepsNewTable ==
    ASSUME NEW ls \in Seq(Line), NEW n \in Nat, n = Len(ls),
           NEW f \in FeatureKeys, Tables(ls) = {},
           NEW b \in Line, b.text = "[features]",
           NEW k \in Line, k.text = f, k.on,
           NEW t \in Seq(Line), OtherLines(t) = OtherLines(ls), Len(t) = n + 2,
           \A i \in 1 .. n : t[i] = ls[i], t[n + 1] = b, t[n + 2] = k
    PROVE  Keeps(ls, t, f)
  <1>1. DOMAIN ls = 1 .. n
    OBVIOUS
  <1>5. /\ DOMAIN t = 1 .. n + 2
        /\ \A i \in 1 .. n : t[i] = ls[i]
        /\ t[n + 1] = b /\ t[n + 2] = k
    OBVIOUS
  <1>6. OtherLines(t) = OtherLines(ls)
    OBVIOUS
  <1>7. DOMAIN t = 1 .. n + 2 /\ t \in Seq(Line)
    BY <1>5
  <1>9. \A i \in 1 .. n + 2 : i \in 1 .. n \/ i = n + 1 \/ i = n + 2
    OBVIOUS
  <1>10. Begins(t, n + 1)
    <2>1. \A i \in 1 .. n : t[i].text # "[features]"
      BY <1>1, <1>5 DEF Tables
    <2>2. k.text # "[features]"
      BY KeyIs DEF Headers
    <2>3. n + 1 \in 1 .. n + 2 /\ n + 1 # n + 2 /\ \A i \in 1 .. n : i # n + 1
      OBVIOUS
    <2>4. QED
      BY <1>5, <1>9, <2>1, <2>2, <2>3 DEF Begins
  <1>11. ASSUME NEW i \in 1 .. n + 2
         PROVE  InFeatures(t, i) <=> i = n + 2
    <2>1. InFeatures(t, i) <=> n + 1 < i /\ \A x \in n + 1 + 1 .. i - 1 : t[x].text # "[table]"
      BY <1>7, <1>10, InTable
    <2>2. n + 1 < i <=> i = n + 2
      OBVIOUS
    <2>3. i = n + 2 => n + 1 + 1 .. i - 1 = {}
      OBVIOUS
    <2>4. QED
      BY <2>1, <2>2, <2>3
  <1>12. \A g \in FeatureKeys : \A i \in FeatureLines(t, g) : i = n + 2
    BY <1>7, <1>11 DEF FeatureLines
  <1>13. n + 2 \in FeatureLines(t, f) /\ t[n + 2].on
    <2>1. n + 2 \in 1 .. n + 2
      OBVIOUS
    <2>2. QED
      BY <1>5, <1>11, <2>1 DEF FeatureLines
  <1>14. QED
    BY <1>5, <1>6, <1>12, <1>13 DEF Keeps, Once, On

\* The key at the end of the text, where the table is the last one.
LEMMA KeepsAtEnd ==
    ASSUME NEW ls \in Seq(Line), NEW f \in FeatureKeys, NEW h \in DOMAIN ls, Begins(ls, h),
           Stops(ls, f) = {},
           NEW k \in Line, k \notin Plain, k.text = f, k.on,
           NEW t \in Seq(Line), t = Append(ls, k)
    PROVE  Keeps(ls, t, f)
  <1>1. PICK n \in Nat : n = Len(ls) /\ DOMAIN ls = 1 .. n
    OBVIOUS
  <1>2. /\ DOMAIN t = 1 .. n + 1
        /\ \A i \in 1 .. n : t[i] = ls[i]
        /\ t[n + 1] = k
    BY <1>1
  <1>3. OtherLines(t) = OtherLines(ls)
    BY FilterAppend DEF OtherLines, Plain
  <1>4. \A i \in 1 .. n + 1 : i \in 1 .. n \/ i = n + 1
    OBVIOUS
  <1>5. \A i \in 1 .. n : i \in 1 .. n + 1
    OBVIOUS
  <1>6. Begins(t, h)
    <2>1. f # "[features]"
      BY KeyIs DEF Headers
    <2>2. n + 1 \notin 1 .. n
      OBVIOUS
    <2>3. QED
      BY <1>1, <1>2, <1>4, <1>5, <2>1, <2>2 DEF Begins
  <1>7. ASSUME NEW i \in 1 .. n
        PROVE  InFeatures(t, i) <=> InFeatures(ls, i)
    <2>1. \A x \in h + 1 .. i - 1 : t[x] = ls[x]
      BY <1>1, <1>2
    <2>2. InFeatures(ls, i) <=> h < i /\ \A x \in h + 1 .. i - 1 : ls[x].text # "[table]"
      BY <1>1, InTable
    <2>3. InFeatures(t, i) <=> h < i /\ \A x \in h + 1 .. i - 1 : t[x].text # "[table]"
      <3>1. i \in DOMAIN t
        BY <1>2, <1>5
      <3>2. QED
        BY <1>6, <3>1, InTable, Zenon
    <2>4. QED
      BY <2>1, <2>2, <2>3
  <1>8. \A i \in 1 .. n : h < i => ls[i].text # f /\ ls[i].text # "[table]"
    BY <1>1, StopsAre
  <1>9. InFeatures(t, n + 1)
    <2>1. PICK m : m = n + 1
      OBVIOUS
    <2>2. m \in DOMAIN t /\ h < m
      BY <1>1, <1>2, <2>1
    <2>3. \A x \in h + 1 .. m - 1 : x \in 1 .. n /\ h < x
      BY <1>1, <2>1
    <2>4. \A x \in h + 1 .. m - 1 : t[x].text # "[table]"
      BY <1>2, <1>8, <2>3
    <2>5. InFeatures(t, m)
      BY <1>6, <2>2, <2>4, InTable
    <2>6. QED
      BY <2>1, <2>5
  <1>10. \A i \in 1 .. n : i \in FeatureLines(ls, f) => FALSE
    <2>1. ASSUME NEW i \in 1 .. n, InFeatures(ls, i) PROVE h < i
      BY <1>1, <2>1, InTable
    <2>2. QED
      BY <1>8, <2>1 DEF FeatureLines
  <1>11. ASSUME NEW g \in FeatureKeys, NEW i \in FeatureLines(t, g)
         PROVE  i \in FeatureLines(ls, g) \/ (i = n + 1 /\ g = f)
    <2>1. i \in 1 .. n + 1 /\ InFeatures(t, i) /\ t[i].text = g
      BY <1>2 DEF FeatureLines
    <2>2. CASE i \in 1 .. n
      BY <1>1, <1>2, <1>7, <2>1, <2>2 DEF FeatureLines
    <2>3. CASE i = n + 1
      BY <1>2, <2>1, <2>3
    <2>4. QED
      BY <1>4, <2>1, <2>2, <2>3
  <1>12. ASSUME \A g \in FeatureKeys : Once(ls, g), NEW g \in FeatureKeys
         PROVE  Once(t, g)
    <2>1. CASE g = f
      <3>1. \A i \in FeatureLines(t, f) : i = n + 1
        BY <1>1, <1>10, <1>11 DEF FeatureLines
      <3>2. QED
        BY <2>1, <3>1 DEF Once
    <2>2. CASE g # f
      BY <1>11, <1>12, <2>2 DEF Once
    <2>3. QED
      BY <2>1, <2>2
  <1>13. n + 1 \in FeatureLines(t, f) /\ t[n + 1].on
    <2>1. n + 1 \in 1 .. n + 1
      OBVIOUS
    <2>2. QED
      BY <1>2, <1>9, <2>1 DEF FeatureLines
  <1>14. QED
    BY <1>3, <1>12, <1>13 DEF Keeps, On

\* The key set where it is.
LEMMA KeepsInPlace ==
    ASSUME NEW ls \in Seq(Line), NEW f \in FeatureKeys, NEW h \in DOMAIN ls, Begins(ls, h),
           NEW at \in Stops(ls, f), \A i \in Stops(ls, f) : at <= i, ls[at].text = f,
           NEW k \in Line, k \notin Plain, k.text = f, k.on,
           NEW t \in Seq(Line), t = [ls EXCEPT ![at] = k]
    PROVE  Keeps(ls, t, f)
  <1>1. PICK n \in Nat : n = Len(ls) /\ DOMAIN ls = 1 .. n
    OBVIOUS
  <1>2. at \in 1 .. n
    BY <1>1 DEF Stops
  <1>3. /\ Len(t) = n /\ DOMAIN t = 1 .. n /\ t[at] = k
        /\ \A i \in 1 .. n : i # at => t[i] = ls[i]
        /\ \A i \in 1 .. n : t[i].text = ls[i].text
    BY <1>1, <1>2
  <1>4. OtherLines(t) = OtherLines(ls)
    <2>1. ls[at] \notin Plain
      BY DEF Plain
    <2>2. \A i \in 1 .. Len(t) : t[i] = ls[i] \/ (t[i] \notin Plain /\ ls[i] \notin Plain)
      BY <1>3, <2>1
    <2>3. Len(t) = Len(ls)
      BY <1>1, <1>3
    <2>4. Filter(t, Plain) = Filter(ls, Plain)
      BY <2>2, <2>3, FilterSame
    <2>5. QED
      BY <2>4 DEF OtherLines, Plain
  <1>5. \A i \in 1 .. n : InFeatures(t, i) <=> InFeatures(ls, i)
    <2>1. SUFFICES ASSUME NEW i \in 1 .. n PROVE InFeatures(t, i) <=> InFeatures(ls, i)
      OBVIOUS
    <2>2. \A x \in 1 .. i - 1 : x \in 1 .. n /\ \A y \in x + 1 .. i - 1 : y \in 1 .. n
      OBVIOUS
    <2>3. QED
      BY <1>3, <2>2 DEF InFeatures
  <1>6. \A g \in FeatureKeys : FeatureLines(t, g) = FeatureLines(ls, g)
    BY <1>1, <1>3, <1>5 DEF FeatureLines
  <1>7. at \in FeatureLines(t, f)
    <2>1. h < at
      BY <1>1, <1>2, StopsAre
    <2>2. ASSUME NEW x \in h + 1 .. at - 1 PROVE ls[x].text # "[table]"
      <3>1. x \in 1 .. n /\ h < x /\ x < at
        BY <1>1, <1>2
      <3>2. x \notin Stops(ls, f)
        BY <1>2, <3>1
      <3>3. QED
        BY <1>1, <3>1, <3>2, StopsAre
    <2>3. InFeatures(ls, at)
      BY <1>1, <1>2, <2>1, <2>2, InTable
    <2>4. QED
      BY <1>2, <1>3, <1>5, <2>3 DEF FeatureLines
  <1>8. On(t, f)
    BY <1>3, <1>7 DEF On
  <1>9. \A g \in FeatureKeys : Once(t, g) <=> Once(ls, g)
    BY <1>6 DEF Once
  <1>10. QED
    BY <1>4, <1>8, <1>9 DEF Keeps

\* The part before a position, that from it on, and one element.
Before(s, at) == SubSeq(s, 1, at - 1)
From(s, at) == SubSeq(s, at, Len(s))
Single(k) == <<k>>

\* The two parts make up the sequence.
LEMMA Parts ==
    ASSUME NEW X, NEW s \in Seq(X), NEW at \in 1 .. Len(s)
    PROVE  /\ Before(s, at) \in Seq(X) /\ Len(Before(s, at)) = at - 1
           /\ \A i \in 1 .. at - 1 : Before(s, at)[i] = s[i]
           /\ From(s, at) \in Seq(X) /\ Len(From(s, at)) = Len(s) - at + 1
           /\ \A i \in 1 .. Len(s) - at + 1 : From(s, at)[i] = s[at + i - 1]
           /\ s = Joined(Before(s, at), From(s, at))
  <1>1. PICK n \in Nat : n = Len(s) /\ at \in 1 .. n
    OBVIOUS
  <1>2. /\ Before(s, at) \in Seq(X) /\ Len(Before(s, at)) = at - 1
        /\ \A i \in 1 .. at - 1 : Before(s, at)[i] = s[i]
    BY <1>1 DEF Before
  <1>3. /\ From(s, at) \in Seq(X) /\ Len(From(s, at)) = n - at + 1
        /\ \A i \in 1 .. n - at + 1 : From(s, at)[i] = s[at + i - 1]
    BY <1>1 DEF From
  <1>4. s = Joined(Before(s, at), From(s, at))
    <2>1. PICK b \in Seq(X) : b = Before(s, at)
      BY <1>2
    <2>2. PICK f \in Seq(X) : f = From(s, at)
      BY <1>3
    <2>3. PICK l \in Nat, m \in Nat : l = Len(b) /\ m = Len(f)
      OBVIOUS
    <2>4. l = at - 1 /\ m = n - at + 1 /\ l + m = n /\ l \in 0 .. n
      BY <1>1, <1>2, <1>3, <2>1, <2>2, <2>3
    <2>5. PICK j : /\ j = b \o f /\ j \in Seq(X) /\ Len(j) = l + m
                   /\ \A i \in 1 .. l + m : j[i] = IF i <= l THEN b[i] ELSE f[i - l]
      <3>1. PICK j : j = b \o f
        OBVIOUS
      <3>2. /\ j \in Seq(X) /\ Len(j) = Len(b) + Len(f)
            /\ \A i \in 1 .. Len(b) + Len(f) : j[i] = IF i <= Len(b) THEN b[i] ELSE f[i - Len(b)]
        BY <2>1, <2>2, <3>1, ConcatProperties, Zenon
      <3>3. QED
        BY <2>3, <3>1, <3>2, Zenon
    <2>6. ASSUME NEW i \in 1 .. n PROVE j[i] = s[i]
      <3>1. j[i] = IF i <= l THEN b[i] ELSE f[i - l]
        BY <2>4, <2>5
      <3>2. CASE i <= l
        BY <1>1, <1>2, <2>1, <2>4, <3>1, <3>2
      <3>3. CASE i > l
        <4>1. PICK k \in 1 .. m : k = i - l /\ i = at + k - 1
          BY <1>1, <2>4, <3>3
        <4>2. j[i] = f[k]
          BY <2>4, <3>1, <3>3, <4>1
        <4>3. f[k] = s[at + k - 1]
          BY <1>3, <2>2, <2>4, <4>1
        <4>4. QED
          BY <4>1, <4>2, <4>3
      <3>4. QED
        BY <2>4, <3>2, <3>3
    <2>7. Len(j) = Len(s) /\ \A i \in 1 .. Len(s) : j[i] = s[i]
      BY <1>1, <2>4, <2>5, <2>6
    <2>8. j = s
      BY <2>5, <2>7, SeqEqual, Zenon
    <2>9. QED
      BY <2>1, <2>2, <2>5, <2>8 DEF Joined
  <1>5. QED
    BY <1>1, <1>2, <1>3, <1>4

\* One element.
LEMMA SingleIs ==
    ASSUME NEW X, NEW k \in X
    PROVE  Single(k) \in Seq(X) /\ Len(Single(k)) = 1 /\ Single(k)[1] = k
  BY DEF Single

\* Two sequences, one after the other.
IsJoin(c, r, s) ==
    /\ Len(c) = Len(r) + Len(s)
    /\ \A i \in 1 .. Len(r) : c[i] = r[i]
    /\ \A i \in 1 .. Len(s) : c[Len(r) + i] = s[i]

\* Its elements are those of the one and then those of the other.
LEMMA JoinedIs ==
    ASSUME NEW X, NEW r \in Seq(X), NEW s \in Seq(X)
    PROVE  Joined(r, s) \in Seq(X) /\ IsJoin(Joined(r, s), r, s)
  BY DEF Joined, IsJoin

\* FilterConcat under that name.
LEMMA FilterJoined ==
    ASSUME NEW X, NEW r \in Seq(X), NEW s \in Seq(X), NEW S
    PROVE  Filter(Joined(r, s), S) = Joined(Filter(r, S), Filter(s, S))
  BY FilterConcat DEF Joined

\* An element that is not in S goes.
LEMMA FilterSingle ==
    ASSUME NEW X, NEW r \in Seq(X), NEW k \in X, NEW S, k \notin S
    PROVE  Filter(Joined(r, Single(k)), S) = Filter(r, S)
  <1>1. Joined(r, Single(k)) = Append(r, k)
    BY DEF Joined, Single
  <1>2. Filter(Append(r, k), S) = Filter(r, S)
    BY FilterAppend
  <1>3. QED
    BY <1>1, <1>2

\* One element between two parts.
Insert(s, at, k) == Joined(Joined(Before(s, at), Single(k)), From(s, at))

IsInsert(t, s, n, at, k) ==
    /\ Len(t) = n + 1
    /\ \A i \in 1 .. n + 1 :
         t[i] = IF i < at THEN s[i] ELSE IF i = at THEN k ELSE s[i - 1]

\* The elements before it stay where they are, those behind it move by one.
LEMMA Inserted ==
    ASSUME NEW X, NEW s \in Seq(X), NEW n \in Nat, n = Len(s), NEW at \in 1 .. n, NEW k \in X,
           NEW t, t = Insert(s, at, k)
    PROVE  t \in Seq(X) /\ IsInsert(t, s, n, at, k)
  <1>1. PICK b : b = Before(s, at)
    OBVIOUS
  <1>2. PICK e : e = From(s, at)
    OBVIOUS
  <1>3. b \in Seq(X) /\ Len(b) = at - 1 /\ \A i \in 1 .. at - 1 : b[i] = s[i]
    BY <1>1, Parts
  <1>4. e \in Seq(X) /\ Len(e) = n - at + 1 /\ \A i \in 1 .. n - at + 1 : e[i] = s[at + i - 1]
    BY <1>2, Parts
  <1>5. PICK o : o = Single(k)
    OBVIOUS
  <1>6. o \in Seq(X) /\ Len(o) = 1 /\ o[1] = k
    BY <1>5, SingleIs
  <1>7. PICK m : m = Joined(b, o)
    OBVIOUS
  <1>8. t = Joined(m, e)
    BY <1>1, <1>2, <1>5, <1>7 DEF Insert
  <1>9. /\ m \in Seq(X) /\ Len(m) = Len(b) + Len(o)
        /\ \A i \in 1 .. Len(b) : m[i] = b[i]
        /\ \A i \in 1 .. Len(o) : m[Len(b) + i] = o[i]
    <2>1. b \in Seq(X) /\ o \in Seq(X)
      BY <1>3, <1>6
    <2>2. m \in Seq(X) /\ IsJoin(m, b, o)
      BY <1>7, <2>1, JoinedIs
    <2>3. QED
      BY <2>2 DEF IsJoin
  <1>10. m \in Seq(X) /\ Len(m) = at /\ m[at] = k /\ \A i \in 1 .. at - 1 : m[i] = s[i]
    <2>1. Len(b) + 1 = at
      BY <1>3
    <2>2. m[Len(b) + 1] = k
      BY <1>6, <1>9
    <2>3. Len(m) = at
      BY <1>6, <1>9, <2>1
    <2>4. \A i \in 1 .. at - 1 : m[i] = s[i]
      BY <1>3, <1>9
    <2>5. QED
      BY <1>9, <2>1, <2>2, <2>3, <2>4
  <1>11. /\ t \in Seq(X) /\ Len(t) = at + (n - at + 1)
         /\ \A i \in 1 .. at : t[i] = m[i]
         /\ \A i \in 1 .. n - at + 1 : t[at + i] = e[i]
    <2>1. /\ t \in Seq(X) /\ Len(t) = Len(m) + Len(e)
          /\ \A i \in 1 .. Len(m) : t[i] = m[i]
          /\ \A i \in 1 .. Len(e) : t[Len(m) + i] = e[i]
      <3>1. m \in Seq(X) /\ e \in Seq(X)
        BY <1>4, <1>10
      <3>2. t \in Seq(X) /\ IsJoin(t, m, e)
        BY <1>8, <3>1, JoinedIs
      <3>3. QED
        BY <3>2 DEF IsJoin
    <2>2. QED
      BY <1>4, <1>10, <2>1
  <1>12. ASSUME NEW i \in 1 .. n + 1
         PROVE  t[i] = IF i < at THEN s[i] ELSE IF i = at THEN k ELSE s[i - 1]
    <2>1. CASE i < at
      <3>1. i \in 1 .. at - 1 /\ i \in 1 .. at
        BY <2>1
      <3>2. QED
        BY <1>10, <1>11, <2>1, <3>1
    <2>2. CASE i = at
      BY <1>10, <1>11, <2>2
    <2>3. CASE i > at
      <3>1. PICK x : x = i - at
        OBVIOUS
      <3>2. x \in 1 .. n - at + 1 /\ at + x - 1 = i - 1 /\ at + x = i
        BY <2>3, <3>1
      <3>3. t[at + x] = e[x] /\ e[x] = s[at + x - 1]
        BY <1>4, <1>11, <3>2
      <3>4. t[i] = s[i - 1]
        BY <3>2, <3>3
      <3>5. QED
        BY <2>3, <3>4
    <2>4. QED
      BY <2>1, <2>2, <2>3
  <1>13. Len(t) = n + 1
    BY <1>11
  <1>14. QED
    BY <1>11, <1>12, <1>13 DEF IsInsert

\* The other lines, when the key is put before a line.
LEMMA OthersInserted ==
    ASSUME NEW ls \in Seq(Line), NEW at \in 1 .. Len(ls), NEW k \in Line, k \notin Plain
    PROVE  OtherLines(Insert(ls, at, k)) = OtherLines(ls)
  <1>1. PICK b : b = Before(ls, at)
    OBVIOUS
  <1>2. PICK e : e = From(ls, at)
    OBVIOUS
  <1>3. b \in Seq(Line) /\ e \in Seq(Line) /\ ls = Joined(b, e)
    BY <1>1, <1>2, Parts
  <1>4. PICK m \in Seq(Line) : m = Joined(b, Single(k))
    BY <1>3, SingleIs, JoinedIs
  <1>5. Filter(m, Plain) = Filter(b, Plain)
    BY <1>3, <1>4, FilterSingle
  <1>6. Filter(Joined(m, e), Plain) = Joined(Filter(m, Plain), Filter(e, Plain))
    BY <1>3, FilterJoined
  <1>7. Filter(Joined(b, e), Plain) = Joined(Filter(b, Plain), Filter(e, Plain))
    BY <1>3, FilterJoined
  <1>8. Filter(Insert(ls, at, k), Plain) = Filter(ls, Plain)
    BY <1>1, <1>2, <1>3, <1>4, <1>5, <1>6, <1>7 DEF Insert
  <1>9. QED
    BY <1>8 DEF OtherLines, Plain

\* One element replaced.
LEMMA Replaced ==
    ASSUME NEW X, NEW s \in Seq(X), NEW n \in Nat, n = Len(s), NEW at \in 1 .. n, NEW k \in X
    PROVE  [s EXCEPT ![at] = k] \in Seq(X)
  OBVIOUS

\* Appending once and twice.
LEMMA AppendIs ==
    ASSUME NEW X, NEW s \in Seq(X), NEW e \in X
    PROVE  Append(s, e) \in Seq(X)
  OBVIOUS

\* The key before the next header.
LEMMA KeepsBeforeHeader ==
    ASSUME NEW ls \in Seq(Line), NEW n \in Nat, n = Len(ls),
           NEW f \in FeatureKeys, NEW h \in DOMAIN ls, Begins(ls, h),
           NEW at \in Stops(ls, f), \A i \in Stops(ls, f) : at <= i, ls[at].text = "[table]",
           NEW k \in Line, k \notin Plain, k.text = f, k.on,
           NEW t \in Seq(Line), OtherLines(t) = OtherLines(ls), IsInsert(t, ls, n, at, k)
    PROVE  Keeps(ls, t, f)
  <1>0. \A i \in 1 .. n + 1 :
          t[i] = IF i < at THEN ls[i] ELSE IF i = at THEN k ELSE ls[i - 1]
    BY DEF IsInsert
  <1>1. DOMAIN ls = 1 .. n /\ DOMAIN t = 1 .. n + 1
    BY DEF IsInsert
  <1>2. at \in 1 .. n /\ h \in 1 .. n /\ h < at
    <2>1. at \in 1 .. n /\ h \in 1 .. n
      BY <1>1 DEF Stops
    <2>2. QED
      BY <1>1, <2>1, StopsAre
  <1>3. f # "[features]" /\ f # "[table]"
    BY KeyIs DEF Headers
  <1>4. \A i \in 1 .. n + 1 : i > at => t[i] = ls[i - 1] /\ i - 1 \in 1 .. n
    BY <1>0, <1>2
  <1>5. \A i \in 1 .. n + 1 : i < at => t[i] = ls[i] /\ i \in 1 .. n
    BY <1>0, <1>2
  <1>6. at \in 1 .. n + 1 /\ t[at] = k
    BY <1>0, <1>2
  <1>7. \A i \in 1 .. n + 1 : i < at \/ i = at \/ i > at
    BY <1>2
  <1>8. Begins(t, h)
    <2>1. \A i \in 1 .. n : ls[i].text = "[features]" <=> i = h
      BY <1>1 DEF Begins
    <2>2. ASSUME NEW i \in 1 .. n + 1
          PROVE  t[i].text = "[features]" <=> i = h
      <3>1. CASE i < at
        BY <1>5, <2>1, <3>1
      <3>2. CASE i = at
        BY <1>2, <1>3, <1>6, <3>2
      <3>3. CASE i > at
        <4>1. i - 1 \in 1 .. n /\ i - 1 # h /\ i # h
          BY <1>2, <3>3
        <4>2. QED
          BY <1>4, <2>1, <3>3, <4>1
      <3>4. QED
        BY <1>7, <3>1, <3>2, <3>3
    <2>3. h \in 1 .. n + 1
      BY <1>2
    <2>4. QED
      BY <1>1, <2>2, <2>3 DEF Begins
  <1>9. \A x \in 1 .. n : h < x /\ x < at => ls[x].text # "[table]" /\ ls[x].text # f
    <2>1. \A x \in 1 .. n : x < at => x \notin Stops(ls, f)
      BY <1>2
    <2>2. QED
      BY <1>1, <2>1, StopsAre
  <1>10. ASSUME NEW i \in 1 .. n + 1, i < at
         PROVE  InFeatures(t, i) <=> InFeatures(ls, i)
    <2>1. \A x \in h + 1 .. i - 1 : t[x] = ls[x]
      BY <1>2, <1>5, <1>10
    <2>2. i \in 1 .. n
      BY <1>2, <1>10
    <2>3. InFeatures(ls, i) <=> h < i /\ \A x \in h + 1 .. i - 1 : ls[x].text # "[table]"
      BY <1>1, <2>2, InTable
    <2>4. InFeatures(t, i) <=> h < i /\ \A x \in h + 1 .. i - 1 : t[x].text # "[table]"
      BY <1>1, <1>8, InTable
    <2>5. QED
      BY <2>1, <2>3, <2>4
  <1>11. InFeatures(t, at)
    <2>1. \A x \in h + 1 .. at - 1 : x \in 1 .. n /\ x \in 1 .. n + 1 /\ h < x /\ x < at
      BY <1>2
    <2>2. \A x \in h + 1 .. at - 1 : t[x].text # "[table]"
      BY <1>5, <1>9, <2>1
    <2>3. QED
      BY <1>1, <1>2, <1>6, <1>8, <2>2, InTable
  <1>12. ASSUME NEW i \in 1 .. n + 1, i > at, InFeatures(t, i)
         PROVE  i = at + 1
    <2>1. \A x \in h + 1 .. i - 1 : t[x].text # "[table]"
      BY <1>1, <1>8, <1>12, InTable
    <2>2. PICK m : m = at + 1
      OBVIOUS
    <2>3. m \in 1 .. n + 1 /\ m > at /\ m - 1 = at
      BY <1>2, <2>2
    <2>4. t[m].text = "[table]"
      BY <1>4, <2>3
    <2>5. at + 1 \notin h + 1 .. i - 1
      BY <2>1, <2>2, <2>4
    <2>6. QED
      BY <1>2, <1>12, <2>5
  <1>13. t[at + 1].text = "[table]"
    <2>1. PICK m : m = at + 1
      OBVIOUS
    <2>2. m \in 1 .. n + 1 /\ m > at /\ m - 1 = at
      BY <1>2, <2>1
    <2>3. t[m].text = "[table]"
      BY <1>4, <2>2
    <2>4. QED
      BY <2>1, <2>3
  <1>14. ASSUME NEW i \in 1 .. n, InFeatures(ls, i), ls[i].text = f
         PROVE  FALSE
    <2>1. h < i /\ \A x \in h + 1 .. i - 1 : ls[x].text # "[table]"
      BY <1>1, <1>14, InTable
    <2>2. ~(i < at)
      BY <1>9, <1>14, <2>1
    <2>3. i # at
      BY <1>3, <1>14
    <2>4. at \in h + 1 .. i - 1
      BY <1>2, <2>2, <2>3
    <2>5. QED
      BY <2>1, <2>4
  <1>15. ASSUME NEW g \in FeatureKeys, NEW i \in FeatureLines(t, g)
         PROVE  i \in FeatureLines(ls, g) \/ (i = at /\ g = f)
    <2>1. i \in 1 .. n + 1 /\ InFeatures(t, i) /\ t[i].text = g
      BY <1>1 DEF FeatureLines
    <2>2. CASE i < at
      <3>1. i \in 1 .. n /\ t[i] = ls[i]
        BY <1>5, <2>1, <2>2
      <3>2. QED
        BY <1>1, <1>10, <2>1, <2>2, <3>1 DEF FeatureLines
    <2>3. CASE i = at
      BY <1>6, <2>1, <2>3
    <2>4. CASE i > at
      BY <1>12, <1>13, <2>1, <2>4, KeyIs DEF Headers
    <2>5. QED
      BY <1>7, <2>1, <2>2, <2>3, <2>4
  <1>16. ASSUME \A g \in FeatureKeys : Once(ls, g), NEW g \in FeatureKeys
         PROVE  Once(t, g)
    <2>1. CASE g = f
      <3>1. \A i \in FeatureLines(t, f) : i = at
        BY <1>1, <1>14, <1>15 DEF FeatureLines
      <3>2. QED
        BY <2>1, <3>1 DEF Once
    <2>2. CASE g # f
      BY <1>15, <1>16, <2>2 DEF Once
    <2>3. QED
      BY <2>1, <2>2
  <1>17. On(t, f)
    BY <1>1, <1>6, <1>11 DEF On, FeatureLines
  <1>18. QED
    BY <1>16, <1>17 DEF Keeps

\* Enabling a feature in a text that can be read, with one table of that name and an
\* end to it, keeps the other lines, leaves a text that can be read, and turns it on.
LEMMA SetFeatureKeeps ==
    ASSUME NEW c \in Config, NEW f \in FeatureKeys, ~Unfit(c, f)
    PROVE  Keeps(c.lines, SetFeature(c, f).lines, f)
  <1>1. PICK ls \in Seq(Line) : ls = c.lines
    BY DEF Config
  <1>2. PICK n \in Nat : n = Len(ls) /\ DOMAIN ls = 1 .. n
    OBVIOUS
  <1>3. PICK k \in Line : k = Key(f) /\ k \notin Plain /\ k.text = f /\ k.on
    BY KeyIs
  <1>4. PICK b \in Line : b = [text |-> "[features]", on |-> FALSE] /\ b \notin Plain
    BY KeyIs
  <1>5. b.text = "[features]"
    BY <1>4
  <1>6. PICK d : d = SetFeature(c, f)
    OBVIOUS
  <1>7. ~(Cardinality(Tables(ls)) > 1) /\ (Tables(ls) # {} /\ Stops(ls, f) = {} => c.ended)
    BY <1>1 DEF Unfit
  <1>8. CASE Tables(ls) = {}
    <2>1. d.lines = ls \o <<b, k>>
      BY <1>1, <1>3, <1>4, <1>6, <1>8 DEF SetFeature, Config
    <2>2. PICK r \in Seq(Line) : r = Append(ls, b)
      BY AppendIs
    <2>3. PICK t \in Seq(Line) : t = Append(r, k)
      BY AppendIs
    <2>4. t = ls \o <<b, k>>
      <3>1. ls \in Seq(Line) /\ b \in Line /\ k \in Line /\ r \in Seq(Line)
        BY <1>1, <1>3, <1>4, <2>2
      <3>2. r = Append(ls, b) /\ t = Append(r, k)
        BY <2>2, <2>3
      <3>3. QED
        BY <3>1, <3>2
    <2>5. OtherLines(r) = OtherLines(ls)
      BY <1>4, <2>2, OthersAppended
    <2>6. OtherLines(t) = OtherLines(r)
      BY <1>3, <2>3, OthersAppended
    <2>7. Len(r) = n + 1 /\ r[n + 1] = b /\ \A i \in 1 .. n : r[i] = ls[i]
      BY <1>2, <2>2, Appended
    <2>8. PICK m \in Nat : m = n + 1
      OBVIOUS
    <2>9. Len(t) = m + 1 /\ t[m + 1] = k /\ \A i \in 1 .. m : t[i] = r[i]
      BY <2>3, <2>7, <2>8, Appended
    <2>10. Len(t) = n + 2 /\ t[n + 1] = b /\ t[n + 2] = k /\ \A i \in 1 .. n : t[i] = ls[i]
      <3>1. m + 1 = n + 2 /\ n + 1 \in 1 .. m /\ \A i \in 1 .. n : i \in 1 .. m
        BY <2>8
      <3>2. QED
        BY <2>7, <2>9, <3>1
    <2>11. OtherLines(t) = OtherLines(ls)
      BY <2>5, <2>6
    <2>12. Keeps(ls, t, f)
      <3>1. n = Len(ls) /\ k.text = f /\ k.on
        BY <1>2, <1>3
      <3>2. QED
        BY <1>5, <1>8, <2>10, <2>11, <3>1, KeepsNewTable
    <2>13. QED
      BY <1>1, <1>6, <2>1, <2>4, <2>12
  <1>9. CASE Tables(ls) # {}
    <2>1. PICK h \in DOMAIN ls : Begins(ls, h)
      BY <1>7, <1>9, TableIs
    <2>2. CASE Stops(ls, f) = {}
      <3>1. d.lines = Append(ls, k)
        BY <1>1, <1>3, <1>6, <1>7, <1>9, <2>2 DEF SetFeature, Config
      <3>2. PICK t \in Seq(Line) : t = Append(ls, k)
        BY AppendIs
      <3>3. Keeps(ls, t, f)
        BY <1>3, <2>1, <2>2, <3>2, KeepsAtEnd
      <3>4. QED
        BY <1>1, <1>6, <3>1, <3>2, <3>3
    <2>3. CASE Stops(ls, f) # {}
      <3>1. PICK at : at = First(Stops(ls, f))
        OBVIOUS
      <3>2. at \in Stops(ls, f) /\ \A i \in Stops(ls, f) : at <= i
        <4>1. Stops(ls, f) \in SUBSET Nat
          BY <2>1, StopsAre
        <4>2. \E x \in Stops(ls, f) : \A i \in Stops(ls, f) : x <= i
          BY <2>3, <4>1, Least
        <4>3. QED
          BY <3>1, <4>2 DEF First
      <3>3. ls[at].text \in {"[table]", f} /\ at \in 1 .. n
        BY <1>2, <3>2 DEF Stops
      <3>4. CASE ls[at].text = f
        <4>1. d.lines = [ls EXCEPT ![at] = k]
          BY <1>1, <1>3, <1>6, <1>9, <2>3, <3>1, <3>4 DEF SetFeature, Config
        <4>2. PICK t \in Seq(Line) : t = [ls EXCEPT ![at] = k]
          BY <1>2, <3>3, Replaced
        <4>3. Keeps(ls, t, f)
          BY <1>3, <2>1, <3>2, <3>4, <4>2, KeepsInPlace
        <4>4. QED
          BY <1>1, <1>6, <4>1, <4>2, <4>3
      <3>5. CASE ls[at].text = "[table]"
        <4>1. PICK t : t = Insert(ls, at, k)
          OBVIOUS
        <4>2. f # "[table]"
          BY KeyIs DEF Headers
        <4>3. d.lines = t
          <5>1. d.lines = (SubSeq(ls, 1, at - 1) \o <<k>>) \o SubSeq(ls, at, Len(ls))
            BY <1>1, <1>3, <1>6, <1>9, <2>3, <3>1, <3>5, <4>2 DEF SetFeature, Config
          <5>2. QED
            BY <4>1, <5>1 DEF Insert, Joined, Single, Before, From
        <4>4. n = Len(ls) /\ at \in 1 .. n
          BY <1>2, <3>3
        <4>5. t \in Seq(Line) /\ IsInsert(t, ls, n, at, k)
          BY <4>1, <4>4, Inserted
        <4>6. OtherLines(t) = OtherLines(ls)
          BY <1>3, <4>1, <4>4, OthersInserted
        <4>7. k \notin Plain /\ k.text = f /\ k.on
          BY <1>3
        <4>8. Keeps(ls, t, f)
          BY <2>1, <3>2, <3>5, <4>4, <4>5, <4>6, <4>7, KeepsBeforeHeader
        <4>9. QED
          BY <1>1, <1>6, <4>3, <4>8
      <3>6. QED
        BY <3>3, <3>4, <3>5
    <2>4. QED
      BY <2>2, <2>3
  <1>10. QED
    BY <1>8, <1>9

\* It leaves a configuration in any case.
LEMMA SetFeatureTyped ==
    ASSUME NEW c \in Config, NEW f \in FeatureKeys
    PROVE  SetFeature(c, f) \in Config
  <1>1. PICK ls \in Seq(Line) : ls = c.lines
    BY DEF Config
  <1>2. Key(f) \in Line /\ [text |-> "[features]", on |-> FALSE] \in Line
        /\ [text |-> "garbled", on |-> FALSE] \in Line
    BY KeyIs DEF Line
  <1>3. PICK k \in Line : k = Key(f)
    BY <1>2
  <1>4. PICK g \in Line : g = [text |-> "garbled", on |-> FALSE]
    BY <1>2
  <1>5. PICK b \in Line : b = [text |-> "[features]", on |-> FALSE]
    BY <1>2
  <1>6. PICK n \in Nat : n = Len(ls) /\ DOMAIN ls = 1 .. n
    OBVIOUS
  <1>7. PICK d : d = SetFeature(c, f)
    OBVIOUS
  <1>8. \A t \in Seq(Line) : /\ [c EXCEPT !.lines = t] \in Config
                             /\ [c EXCEPT !.lines = t, !.ended = TRUE] \in Config
    BY DEF Config
  <1>9. CASE Tables(ls) = {}
    <2>1. d = [c EXCEPT !.lines = ls \o <<b, k>>, !.ended = TRUE]
      BY <1>1, <1>3, <1>5, <1>7, <1>9 DEF SetFeature
    <2>2. ls \o <<b, k>> \in Seq(Line)
      OBVIOUS
    <2>3. QED
      BY <1>7, <1>8, <2>1, <2>2
  <1>10. CASE Tables(ls) # {} /\ Stops(ls, f) = {}
    <2>1. n \in 1 .. n
      BY <1>6, <1>10 DEF Tables
    <2>2. d = [c EXCEPT !.lines = Append(ls, k)]
            \/ d = [c EXCEPT !.lines = [ls EXCEPT ![n] = g], !.ended = TRUE]
      BY <1>1, <1>3, <1>4, <1>6, <1>7, <1>10 DEF SetFeature
    <2>3. Append(ls, k) \in Seq(Line) /\ [ls EXCEPT ![n] = g] \in Seq(Line)
      BY <1>6, <2>1, Replaced, AppendIs
    <2>4. QED
      BY <1>7, <1>8, <2>2, <2>3
  <1>11. CASE Tables(ls) # {} /\ Stops(ls, f) # {}
    <2>1. PICK at : at = First(Stops(ls, f))
      OBVIOUS
    <2>2. at \in 1 .. n
      <3>1. Stops(ls, f) \in SUBSET Nat /\ Stops(ls, f) \subseteq 1 .. n
        BY <1>6 DEF Stops
      <3>2. \E x \in Stops(ls, f) : \A i \in Stops(ls, f) : x <= i
        BY <1>11, <3>1, Least
      <3>3. at \in Stops(ls, f)
        BY <2>1, <3>2 DEF First
      <3>4. QED
        BY <3>1, <3>3
    <2>3. PICK t : t = Insert(ls, at, k)
      OBVIOUS
    <2>7. t \in Seq(Line)
      <3>1. n = Len(ls)
        BY <1>6
      <3>2. QED
        BY <2>2, <2>3, <3>1, Inserted
    <2>8. d = [c EXCEPT !.lines = [ls EXCEPT ![at] = k]] \/ d = [c EXCEPT !.lines = t]
      <3>1. PICK u : u = (SubSeq(ls, 1, at - 1) \o <<k>>) \o SubSeq(ls, at, Len(ls))
        OBVIOUS
      <3>2. u = t
        BY <2>3, <3>1 DEF Insert, Joined, Single, Before, From
      <3>3. d = [c EXCEPT !.lines = [ls EXCEPT ![at] = k]] \/ d = [c EXCEPT !.lines = u]
        BY <1>1, <1>3, <1>7, <1>11, <2>1, <3>1 DEF SetFeature
      <3>4. QED
        BY <3>2, <3>3
    <2>9. [ls EXCEPT ![at] = k] \in Seq(Line)
      BY <1>6, <2>2, Replaced
    <2>10. QED
      BY <1>7, <1>8, <2>7, <2>8, <2>9
  <1>12. QED
    BY <1>9, <1>10, <1>11

-----------------------------------------------------------------------------
\* The types

\* A file that may be enabled in has a feature to enable.
FeatureKnown == \A c \in Commands : pc[c] = "enable" \/ state[c] = "disabled" => CodexFeature # "unsupported"
TypeInv == TypeOK /\ FeatureKnown

\* The agent at hand is one of those not done yet.
LEMMA CurrentIs ==
    ASSUME TypeOK, NEW c \in Commands
    PROVE  Current(c) \in Agents /\ (todo[c] # {} => Current(c) \in todo[c])
  BY DEF TypeOK, Current, Agents

\* Some contents.
LEMMA ContentsAre ==
    /\ Absent \in Content /\ Empty \in Content
    /\ \A h \in Hooks : Whole(h) \in Content
    /\ \A content \in Content : /\ content.hooks \in Hooks
                                /\ [content EXCEPT !.state = "broken"] \in Content
                                /\ [content EXCEPT !.state = "whole"] \in Content
  BY HooksAre DEF Content, Absent, Empty, Whole

\* What the commands write is a content.
LEMMA WrittenTyped ==
    ASSUME TypeOK, NEW c \in Commands
    PROVE  Written(c) \in Content
  <1>1. Current(c) \in Agents /\ copy[c] \in Content /\ Wanted[c].binary \in Binaries
    BY CurrentIs, HooksAssumption DEF TypeOK, Command
  <1>2. copy[c].hooks \in Hooks
    BY <1>1, ContentsAre
  <1>3. QED
    BY <1>1, <1>2, HooksTyped, ContentsAre DEF Written

\* Of the backups there are, one is the last.
LEMMA LastTyped ==
    ASSUME TypeOK, NEW a \in Agents, Backups(a) # {}
    PROVE  LastBackup(a) \in Content /\ \E s \in Seconds : LastBackup(a) = backup[a][s]
  <1>1. \E s \in Backups(a) : \A t \in Backups(a) : t <= s
    <2>1. PICK T : T = {n \in Nat : MaxSecond - n \in Backups(a)}
      OBVIOUS
    <2>2. PICK x \in Backups(a) : TRUE
      OBVIOUS
    <2>3. \A s \in Backups(a) : s \in 0 .. MaxSecond
      BY DEF Backups, Seconds
    <2>4. MaxSecond \in Nat
      BY HooksAssumption
    <2>5. MaxSecond - x \in T
      <3>1. MaxSecond - x \in Nat /\ MaxSecond - (MaxSecond - x) = x
        BY <2>2, <2>3, <2>4
      <3>2. QED
        BY <2>1, <3>1
    <2>6. PICK n \in T : \A m \in T : n <= m
      <3>1. T \in SUBSET Nat
        BY <2>1
      <3>2. QED
        BY <2>5, <3>1, Least
    <2>7. MaxSecond - n \in Backups(a) /\ n \in Nat
      BY <2>1, <2>6
    <2>8. ASSUME NEW t \in Backups(a) PROVE t <= MaxSecond - n
      <3>1. MaxSecond - t \in Nat /\ MaxSecond - (MaxSecond - t) = t
        BY <2>3, <2>4
      <3>2. MaxSecond - t \in T
        BY <2>1, <3>1
      <3>3. n <= MaxSecond - t /\ t \in Nat
        BY <2>3, <2>6, <3>2
      <3>4. QED
        BY <2>4, <2>7, <3>3
    <2>9. QED
      BY <2>7, <2>8
  <1>2. PICK s \in Backups(a) : LastBackup(a) = backup[a][s]
    BY <1>1 DEF LastBackup
  <1>3. s \in Seconds
    BY DEF Backups
  <1>4. backup[a][s] \in Content
    BY <1>3 DEF TypeOK
  <1>5. QED
    BY <1>2, <1>3, <1>4

\* A restore writes a backup.
LEMMA LatestTyped ==
    ASSUME TypeOK, NEW a \in Agents, Backups(a) # {}
    PROVE  Latest \in Content
  <1>1. PICK b \in Agents : Latest = LastBackup(b) /\ Backups(b) # {}
    <2>1. CASE Backups("claude-code") # {}
      BY <2>1 DEF Latest, Agents
    <2>2. CASE Backups("claude-code") = {}
      BY <2>2 DEF Latest, Agents
    <2>3. QED
      BY <2>1, <2>2
  <1>2. QED
    BY <1>1, LastTyped

\* The feature that is enabled.
LEMMA FeatureTyped ==
    ASSUME CodexFeature # "unsupported"
    PROVE  Feature \in FeatureKeys
  BY HooksAssumption DEF Feature, HasCLI, FeatureKeys

\* The next agent.
LEMMA AdvanceTyped ==
    ASSUME TypeInv, NEW c \in Commands, Advance(c)
    PROVE  /\ todo' \in [Commands -> SUBSET Agents]
           /\ \E l \in {"read", "look", "purge", "done"} :
                pc' = [pc EXCEPT ![c] = l] /\ (l \in {"read", "look"} => todo'[c] # {})
           /\ \A d \in Commands \ {c} : todo'[d] = todo[d]
  BY CurrentIs DEF TypeInv, TypeOK, Advance, Goto

\* One label changes, and the agents are those that the label needs.
LEMMA GotoTyped ==
    ASSUME TypeInv, NEW c \in Commands,
           NEW l \in {"idle", "enable", "truncate_config", "fill_config", "select", "decide",
                      "look", "read", "backup", "truncate", "fill", "merge", "purge", "done",
                      "failed", "killed"},
           pc' = [pc EXCEPT ![c] = l],
           \A d \in Commands \ {c} : todo'[d] = todo[d],
           l \in {"look", "read", "backup", "truncate", "fill", "merge"} => todo'[c] # {}
    PROVE  /\ pc' \in [Commands -> {"idle", "enable", "truncate_config", "fill_config", "select",
                            "decide", "look", "read", "backup", "truncate", "fill", "merge",
                            "purge", "done", "failed", "killed"}]
           /\ \A d \in Commands :
                pc'[d] \in {"look", "read", "backup", "truncate", "fill", "merge"} => todo'[d] # {}
           /\ \A d \in Commands \ {c} : pc'[d] = pc[d]
           /\ pc'[c] = l
  BY DEF TypeInv, TypeOK

\* What happens to truncated files.
LEMMA OverwriteTyped ==
    ASSUME TypeInv, NEW c, NEW a, NEW how \in {"written", "replaced"}, Overwrite(c, a, how)
    PROVE  over' \in [Commands -> {"no", "written", "replaced"}]
  BY DEF TypeInv, TypeOK, Overwrite

\* The part of the others in hooks are hooks.
LEMMA TheirPartTyped ==
    ASSUME NEW h \in Hooks
    PROVE  TheirPart(h) \in Hooks
  <1>1. \A e \in Events : h[e] \in Seq(Group)
    BY HooksAre
  <1>2. \A e \in Events : TheirGroups(h[e]) \in Seq(Group)
    <2>1. <<Observer>> \in Group
      BY HooksAre
    <2>2. QED
      BY <1>1, <2>1, TheirGroupsAppend
  <1>3. QED
    BY <1>1, <1>2, HooksAre DEF TheirPart

\* What the user adds is saved as a whole file, and does not touch our handlers.
LEMMA UserAddsSaves ==
    ASSUME TypeOK, NEW a \in Edited, NEW e \in Events, NEW h \in Others, UserAdds(a, e, h)
    PROVE  \E content \in Content :
             /\ UserSaves(a, content) /\ content.state = "whole" /\ a \in Agents
             /\ file[a].state # "broken"
             /\ \A b : OwnAs(a, file[a].hooks, b) => OwnAs(a, content.hooks, b)
  <1>1. a \in Agents /\ h \in Foreign
    BY HooksAssumption, HooksAre
  <1>2. PICK k \in Hooks : k = file[a].hooks
    BY <1>1, ContentsAre DEF TypeOK
  <1>3. PICK gs \in Seq(Group) : gs = k[e]
    BY HooksAre
  <1>4. PICK t \in Seq(Group) :
          /\ UserSaves(a, Whole([k EXCEPT ![e] = t]))
          /\ \A i, j : /\ (i \in DOMAIN t /\ j \in DOMAIN t[i] /\ t[i][j] \in Binaries) <=>
                            (i \in DOMAIN gs /\ j \in DOMAIN gs[i] /\ gs[i][j] \in Binaries)
                       /\ i \in DOMAIN gs /\ j \in DOMAIN gs[i] => t[i][j] = gs[i][j]
    <2>1. CASE UserSaves(a, Whole([k EXCEPT ![e] = Append(@, <<h>>)]))
      <3>1. PICK t : t = Append(gs, <<h>>)
        OBVIOUS
      <3>2. t \in Seq(Group)
        <4>1. <<h>> \in Group
          BY <1>1, HooksAre
        <4>2. QED
          BY <3>1, <4>1, AppendIs
      <3>3. UserSaves(a, Whole([k EXCEPT ![e] = t]))
        BY <1>3, <2>1, <3>1
      <3>4. \A i, j : /\ (i \in DOMAIN t /\ j \in DOMAIN t[i] /\ t[i][j] \in Binaries) <=>
                           (i \in DOMAIN gs /\ j \in DOMAIN gs[i] /\ gs[i][j] \in Binaries)
                      /\ i \in DOMAIN gs => t[i] = gs[i]
        BY <1>1, <3>1, OwnWithGroup
      <3>5. QED
        BY <3>2, <3>3, <3>4
    <2>2. CASE gs # <<>> /\ UserSaves(a, Whole([k EXCEPT ![e][1] = Append(@, h)]))
      <3>1. PICK t : t = WithHandler(gs, h)
        OBVIOUS
      <3>2. UserSaves(a, Whole([k EXCEPT ![e] = t]))
        <4>1. [k EXCEPT ![e][1] = Append(@, h)] = [k EXCEPT ![e] = t]
          BY <1>3, <3>1 DEF WithHandler
        <4>2. QED
          BY <2>2, <4>1
      <3>3. t \in Seq(Group) /\
            \A i, j : /\ (i \in DOMAIN t /\ j \in DOMAIN t[i] /\ t[i][j] \in Binaries) <=>
                           (i \in DOMAIN gs /\ j \in DOMAIN gs[i] /\ gs[i][j] \in Binaries)
                      /\ i \in DOMAIN gs /\ j \in DOMAIN gs[i] => t[i][j] = gs[i][j]
        <4>1. ASSUME NEW i, NEW j
              PROVE  /\ (i \in DOMAIN t /\ j \in DOMAIN t[i] /\ t[i][j] \in Binaries) <=>
                          (i \in DOMAIN gs /\ j \in DOMAIN gs[i] /\ gs[i][j] \in Binaries)
                     /\ i \in DOMAIN gs /\ j \in DOMAIN gs[i] => t[i][j] = gs[i][j]
                     /\ t \in Seq(Group)
          <5>1. gs # <<>> /\ h \in Foreign
            BY <1>1, <2>2
          <5>2. QED
            BY <3>1, <5>1, OwnWithHandler
        <4>2. QED
          BY <4>1
      <3>4. QED
        BY <3>2, <3>3
    <2>3. QED
      BY <1>2, <1>3, <2>1, <2>2 DEF UserAdds
  <1>5. PICK m : m = [k EXCEPT ![e] = t]
    OBVIOUS
  <1>6. m \in Hooks /\ m[e] = t /\ \A x \in Events \ {e} : m[x] = k[x]
    BY <1>5, HooksAre
  <1>7. ASSUME NEW b, OwnAs(a, k, b)
        PROVE  OwnAs(a, m, b)
    <2>1. OurEvents[a] \subseteq Events
      BY <1>1, HooksAssumption
    <2>2. \A x \in OurEvents[a] : \A i, j :
            (i \in DOMAIN m[x] /\ j \in DOMAIN m[x][i] /\ m[x][i][j] \in Binaries) <=>
            (i \in DOMAIN k[x] /\ j \in DOMAIN k[x][i] /\ k[x][i][j] \in Binaries)
      BY <1>3, <1>4, <1>6, <2>1
    <2>3. \A x \in OurEvents[a] : \A i \in DOMAIN k[x] : \A j \in DOMAIN k[x][i] :
            k[x][i][j] \in Binaries => m[x][i][j] = k[x][i][j]
      BY <1>3, <1>4, <1>6, <2>1
    <2>4. QED
      BY <1>1, <1>7, <2>2, <2>3, OwnStays
  <1>8. Whole(m) \in Content /\ Whole(m).hooks = m /\ Whole(m).state = "whole"
    BY <1>6, ContentsAre DEF Whole
  <1>9. file[a].state # "broken"
    BY DEF UserAdds
  <1>10. QED
    BY <1>1, <1>2, <1>4, <1>5, <1>7, <1>8, <1>9

\* Every step keeps the types.
LEMMA TypeStep ==
    ASSUME TypeInv, [Next]_vars
    PROVE  TypeInv'
  <1> USE DEF TypeInv, FilesOnly, fileVars, localVars, ghostVars
  <1>1. CASE UNCHANGED vars
    BY <1>1 DEF vars, TypeOK, FeatureKnown
  <1>2. ASSUME NEW c \in Commands, StartInit(c)
        PROVE  TypeInv'
    <2>1. /\ CodexState \in {"unavailable", "unsupported", "untrusted", "disabled", "enabled"}
          /\ CodexState = "disabled" => CodexFeature # "unsupported"
      BY DEF CodexState, HasCLI
    <2>2. ClaudeFound \in BOOLEAN
      BY HooksAssumption DEF ClaudeFound
    <2>3. PICK l \in {"enable", "select"} :
            pc' = [pc EXCEPT ![c] = l] /\ (l = "enable" => CodexState = "disabled")
      BY <1>2 DEF StartInit, Goto
    <2>4. todo' = todo
      BY <1>2 DEF StartInit
    <2>5. TypeOK'
      BY <1>2, <2>1, <2>2, <2>3, <2>4, GotoTyped DEF StartInit, TypeOK
    <2>6. FeatureKnown'
      BY <1>2, <2>1, <2>3 DEF StartInit, TypeOK, FeatureKnown
    <2>7. QED
      BY <2>5, <2>6
  <1>3. ASSUME NEW c \in Commands, Select(c)
        PROVE  TypeInv'
    <2>1. PICK l \in {"failed", "enable", "decide"} :
            pc' = [pc EXCEPT ![c] = l] /\ (l = "enable" => state[c] = "disabled")
      BY <1>3 DEF Select, Goto
    <2>2. todo' \in [Commands -> SUBSET Agents] /\ \A d \in Commands \ {c} : todo'[d] = todo[d]
      BY <1>3 DEF Select, TypeOK
    <2>3. TypeOK'
      BY <1>3, <2>1, <2>2, GotoTyped DEF Select, TypeOK
    <2>4. FeatureKnown'
      BY <1>3, <2>1 DEF Select, TypeOK, FeatureKnown
    <2>5. QED
      BY <2>3, <2>4
  <1>4. ASSUME NEW c \in Commands, Decide(c)
        PROVE  TypeInv'
    <2>1. PICK l \in {"failed", "read"} :
            pc' = [pc EXCEPT ![c] = l] /\ (l = "read" => todo[c] # {})
      BY <1>4 DEF Decide, Goto
    <2>2. todo' = todo
      BY <1>4 DEF Decide
    <2>3. refused' \subseteq Commands
      BY <1>4 DEF Decide, TypeOK
    <2>4. TypeOK'
      BY <1>4, <2>1, <2>2, <2>3, GotoTyped DEF Decide, TypeOK
    <2>5. FeatureKnown'
      BY <1>4, <2>1 DEF Decide, TypeOK, FeatureKnown
    <2>6. QED
      BY <2>4, <2>5
  <1>5. ASSUME NEW c \in Commands, ReadConfig(c)
        PROVE  TypeInv'
    <2>1. PICK l \in {"failed", "truncate_config"} : pc' = [pc EXCEPT ![c] = l]
      BY <1>5 DEF ReadConfig, Goto
    <2>2. Feature \in FeatureKeys /\ toml \in Config
      BY <1>5, FeatureTyped DEF ReadConfig, TypeOK, FeatureKnown
    <2>3. PICK d \in Config : d = SetFeature(toml, Feature)
      BY <2>2, SetFeatureTyped
    <2>4. config' \in [Commands -> Config]
      BY <1>5, <2>3 DEF ReadConfig, TypeOK
    <2>5. excused' \subseteq Agents \union {ConfigFile}
      BY <1>5 DEF ReadConfig, TypeOK
    <2>6. todo' = todo
      BY <1>5 DEF ReadConfig
    <2>7. TypeOK'
      BY <1>5, <2>1, <2>4, <2>5, <2>6, GotoTyped DEF ReadConfig, TypeOK
    <2>8. FeatureKnown'
      BY <1>5, <2>1 DEF ReadConfig, TypeOK, FeatureKnown
    <2>9. QED
      BY <2>7, <2>8
  <1>6. ASSUME NEW c \in Commands, TruncateConfig(c)
        PROVE  TypeInv'
    <2>1. pc' = [pc EXCEPT ![c] = "fill_config"] /\ todo' = todo
      BY <1>6 DEF TruncateConfig, Goto
    <2>2. toml' \in Config
      BY <1>6 DEF TruncateConfig, Config, NoConfig
    <2>3. TypeOK'
      BY <1>6, <2>1, <2>2, GotoTyped DEF TruncateConfig, TypeOK
    <2>4. FeatureKnown'
      BY <1>6, <2>1 DEF TruncateConfig, TypeOK, FeatureKnown
    <2>5. QED
      BY <2>3, <2>4
  <1>7. ASSUME NEW c \in Commands, FillConfig(c)
        PROVE  TypeInv'
    <2>1. PICK l \in {"decide", "select"} : pc' = [pc EXCEPT ![c] = l]
      BY <1>7 DEF FillConfig, Goto
    <2>2. PICK s : s = CodexState'
      OBVIOUS
    <2>3. /\ s \in {"unavailable", "unsupported", "untrusted", "disabled", "enabled"}
          /\ s = "disabled" => CodexFeature # "unsupported"
      BY <2>2 DEF CodexState, HasCLI
    <2>4. state' = [state EXCEPT ![c] = s] /\ todo' = todo
      BY <1>7, <2>2 DEF FillConfig
    <2>5. NoConfig \in Config
      BY DEF Config, NoConfig
    <2>6. TypeOK'
      <3>1. toml' \in Config /\ config' \in [Commands -> Config]
        BY <1>7, <2>5 DEF FillConfig, TypeOK
      <3>2. state' \in [Commands -> {"none", "unavailable", "unsupported", "untrusted", "disabled",
                                      "enabled"}]
        BY <2>3, <2>4 DEF TypeOK
      <3>3. /\ UNCHANGED <<file, backup, second, edits, kills, found, todo, copy, over>>
            /\ UNCHANGED <<unrelated, rest, expected, excused, refused>>
        BY <1>7 DEF FillConfig
      <3>4. QED
        BY <2>1, <3>1, <3>2, <3>3, GotoTyped DEF TypeOK
    <2>7. FeatureKnown'
      BY <1>7, <2>1, <2>3, <2>4 DEF TypeOK, FeatureKnown
    <2>8. QED
      BY <2>6, <2>7
  <1>8. ASSUME NEW c \in Commands, StartBoth(c)
        PROVE  TypeInv'
    <2>1. pc' = [pc EXCEPT ![c] = "look"] /\ todo' = [todo EXCEPT ![c] = Agents]
      BY <1>8 DEF StartBoth, Goto
    <2>2. /\ todo' \in [Commands -> SUBSET Agents] /\ todo'[c] # {}
          /\ \A d \in Commands \ {c} : todo'[d] = todo[d]
      BY <2>1 DEF TypeOK, Agents
    <2>3. TypeOK'
      BY <1>8, <2>1, <2>2, GotoTyped DEF StartBoth, TypeOK
    <2>4. FeatureKnown'
      BY <1>8, <2>1 DEF StartBoth, TypeOK, FeatureKnown
    <2>5. QED
      BY <2>3, <2>4
  <1>9. ASSUME NEW c \in Commands, Look(c)
        PROVE  TypeInv'
    <2>1. todo' \in [Commands -> SUBSET Agents] /\ \A d \in Commands \ {c} : todo'[d] = todo[d]
      BY <1>9, AdvanceTyped DEF Look, TypeOK
    <2>2. PICK l \in {"read", "look", "purge", "done"} :
            pc' = [pc EXCEPT ![c] = l] /\ (l \in {"read", "look"} => todo'[c] # {})
      BY <1>9, AdvanceTyped DEF Look, TypeOK, Goto
    <2>3. TypeOK'
      BY <1>9, <2>1, <2>2, GotoTyped DEF Look, TypeOK
    <2>4. FeatureKnown'
      BY <1>9, <2>2 DEF Look, TypeOK, FeatureKnown
    <2>5. QED
      BY <2>3, <2>4
  <1>10. ASSUME NEW c \in Commands, ReadSettings(c)
         PROVE  TypeInv'
    <2>0. Current(c) \in Agents /\ todo[c] # {}
      BY <1>10, CurrentIs DEF ReadSettings, TypeOK
    <2>1. todo' \in [Commands -> SUBSET Agents] /\ \A d \in Commands \ {c} : todo'[d] = todo[d]
      BY <1>10, AdvanceTyped DEF ReadSettings, TypeOK
    <2>2. PICK l \in {"read", "look", "purge", "done", "failed", "truncate", "backup"} :
            pc' = [pc EXCEPT ![c] = l]
            /\ (l \in {"read", "look", "truncate", "backup"} => todo'[c] # {})
      BY <1>10, <2>0, AdvanceTyped DEF ReadSettings, Goto
    <2>3. copy' \in [Commands -> Content] /\ excused' \subseteq Agents \union {ConfigFile}
      BY <1>10, <2>0 DEF ReadSettings, TypeOK
    <2>4. TypeOK'
      BY <1>10, <2>1, <2>2, <2>3, GotoTyped DEF ReadSettings, TypeOK
    <2>5. FeatureKnown'
      BY <1>10, <2>2 DEF ReadSettings, TypeOK, FeatureKnown
    <2>6. QED
      BY <2>4, <2>5
  <1>11. ASSUME NEW c \in Commands, Backup(c)
         PROVE  TypeInv'
    <2>0. Current(c) \in Agents /\ todo[c] # {}
      BY <1>11, CurrentIs DEF Backup, TypeOK
    <2>1. pc' = [pc EXCEPT ![c] = "truncate"] /\ todo' = todo
      BY <1>11 DEF Backup, Goto
    <2>2. backup' \in [Agents -> [Seconds -> Content]]
      BY <1>11, <2>0 DEF Backup, TypeOK
    <2>3. excused' \subseteq Agents \union {ConfigFile}
      BY <1>11, <2>0 DEF Backup, TypeOK
    <2>4. TypeOK'
      BY <1>11, <2>0, <2>1, <2>2, <2>3, GotoTyped DEF Backup, TypeOK
    <2>5. FeatureKnown'
      BY <1>11, <2>1 DEF Backup, TypeOK, FeatureKnown
    <2>6. QED
      BY <2>4, <2>5
  <1>12. ASSUME NEW c \in Commands, Truncate(c)
         PROVE  TypeInv'
    <2>0. Current(c) \in Agents /\ todo[c] # {}
      BY <1>12, CurrentIs DEF Truncate, TypeOK
    <2>1. pc' = [pc EXCEPT ![c] = "fill"] /\ todo' = todo
      BY <1>12 DEF Truncate, Goto
    <2>2. TypeOK'
      BY <1>12, <2>0, <2>1, GotoTyped, ContentsAre DEF Truncate, TypeOK
    <2>3. FeatureKnown'
      BY <1>12, <2>1 DEF Truncate, TypeOK, FeatureKnown
    <2>4. QED
      BY <2>2, <2>3
  <1>13. ASSUME NEW c \in Commands, Fill(c)
         PROVE  TypeInv'
    <2>0. Current(c) \in Agents /\ todo[c] # {}
      BY <1>13, CurrentIs DEF Fill, TypeOK
    <2>1. todo' \in [Commands -> SUBSET Agents] /\ \A d \in Commands \ {c} : todo'[d] = todo[d]
      BY <1>13, AdvanceTyped DEF Fill
    <2>2. PICK l \in {"read", "look", "purge", "done"} :
            pc' = [pc EXCEPT ![c] = l] /\ (l \in {"read", "look"} => todo'[c] # {})
      BY <1>13, AdvanceTyped DEF Fill
    <2>3. PICK w \in Content : w = Written(c) /\ [w EXCEPT !.state = "broken"] \in Content
      BY WrittenTyped, ContentsAre
    <2>4. file' \in [Agents -> Content]
      BY <1>13, <2>3 DEF Fill, TypeOK
    <2>5. over' \in [Commands -> {"no", "written", "replaced"}]
      BY <1>13, OverwriteTyped DEF Fill
    <2>6. expected' \in [Agents -> Binaries \union {None, Unknown}]
      <3>1. Wanted[c].binary \in Binaries
        BY HooksAssumption DEF Command
      <3>2. PICK x \in Binaries \union {None, Unknown} : expected' = [expected EXCEPT ![Current(c)] = x]
        <4>1. CASE Is(c, {"restore"})
          BY <1>13, <4>1 DEF Fill
        <4>2. CASE ~Is(c, {"restore"}) /\ Is(c, {"uninstall"})
          BY <1>13, <4>2 DEF Fill
        <4>3. CASE ~Is(c, {"restore"}) /\ ~Is(c, {"uninstall"})
          BY <1>13, <3>1, <4>3 DEF Fill
        <4>4. QED
          BY <4>1, <4>2, <4>3
      <3>3. QED
        BY <3>2 DEF TypeOK
    <2>7. unrelated' \in [Agents -> Hooks]
      BY <1>13 DEF Fill, TypeOK
    <2>8. copy' \in [Commands -> Content]
      BY <1>13, ContentsAre DEF Fill, TypeOK
    <2>9. TypeOK'
      BY <1>13, <2>1, <2>2, <2>4, <2>5, <2>6, <2>7, <2>8, GotoTyped DEF Fill, TypeOK
    <2>10. FeatureKnown'
      BY <1>13, <2>2 DEF Fill, TypeOK, FeatureKnown
    <2>11. QED
      BY <2>9, <2>10
  <1>14. ASSUME NEW c \in Commands, Purge(c)
         PROVE  TypeInv'
    <2>1. pc' = [pc EXCEPT ![c] = "done"] /\ todo' = todo
      BY <1>14 DEF Purge, Goto
    <2>2. backup' \in [Agents -> [Seconds -> Content]] /\ excused' \subseteq Agents \union {ConfigFile}
      BY <1>14, ContentsAre DEF Purge, TypeOK
    <2>3. TypeOK'
      BY <1>14, <2>1, <2>2, GotoTyped DEF Purge, TypeOK
    <2>4. FeatureKnown'
      BY <1>14, <2>1 DEF Purge, TypeOK, FeatureKnown
    <2>5. QED
      BY <2>3, <2>4
  <1>15. ASSUME NEW c \in Commands, StartRestore(c)
         PROVE  TypeInv'
    <2>1. PICK l \in {"truncate", "failed"} :
            pc' = [pc EXCEPT ![c] = l] /\ (l = "truncate" => todo' = [todo EXCEPT ![c] = {"claude-code"}])
      BY <1>15 DEF StartRestore, Goto
    <2>2. /\ todo' \in [Commands -> SUBSET Agents]
          /\ \A d \in Commands \ {c} : todo'[d] = todo[d]
          /\ l = "truncate" => todo'[c] # {}
      <3>1. todo' = todo \/ todo' = [todo EXCEPT ![c] = {"claude-code"}]
        BY <1>15 DEF StartRestore
      <3>2. {"claude-code"} \in SUBSET Agents
        BY DEF Agents
      <3>3. todo \in [Commands -> SUBSET Agents]
        BY DEF TypeOK
      <3>4. todo' \in [Commands -> SUBSET Agents] /\ \A d \in Commands \ {c} : todo'[d] = todo[d]
        BY <3>1, <3>2, <3>3
      <3>5. l = "truncate" => todo'[c] # {}
        BY <2>1, <3>3
      <3>6. QED
        BY <3>4, <3>5
    <2>3. copy' \in [Commands -> Content] /\ excused' \subseteq Agents \union {ConfigFile}
      <3>1. \/ copy' = copy
            \/ copy' = [copy EXCEPT ![c] = Latest] /\ Latest \in Content
        <4>1. \/ (\E a \in Agents : Backups(a) # {}) /\ copy' = [copy EXCEPT ![c] = Latest]
              \/ copy' = copy
          BY <1>15, Zenon DEF StartRestore
        <4>2. (\E a \in Agents : Backups(a) # {}) => Latest \in Content
          BY LatestTyped
        <4>3. QED
          BY <4>1, <4>2, Zenon
      <3>2. excused' \subseteq excused \union {"claude-code"}
        BY <1>15 DEF StartRestore
      <3>3. copy \in [Commands -> Content] /\ excused \subseteq Agents \union {ConfigFile}
        BY DEF TypeOK
      <3>4. copy' \in [Commands -> Content]
        BY <3>1, <3>3
      <3>5. QED
        BY <3>2, <3>3, <3>4 DEF Agents
    <2>4. TypeOK'
      BY <1>15, <2>1, <2>2, <2>3, GotoTyped DEF StartRestore, TypeOK
    <2>5. FeatureKnown'
      BY <1>15, <2>1 DEF StartRestore, TypeOK, FeatureKnown
    <2>6. QED
      BY <2>4, <2>5
  <1>16. ASSUME NEW c \in Commands, StartMerge(c)
         PROVE  TypeInv'
    <2>1. PICK l \in {"merge", "failed"} :
            pc' = [pc EXCEPT ![c] = l] /\ (l = "merge" => todo' = [todo EXCEPT ![c] = {"codex"}])
      BY <1>16 DEF StartMerge, Goto
    <2>2. /\ todo' \in [Commands -> SUBSET Agents]
          /\ \A d \in Commands \ {c} : todo'[d] = todo[d]
          /\ l = "merge" => todo'[c] # {}
      <3>1. todo' = todo \/ todo' = [todo EXCEPT ![c] = {"codex"}]
        BY <1>16 DEF StartMerge
      <3>2. {"codex"} \in SUBSET Agents
        BY DEF Agents
      <3>3. todo \in [Commands -> SUBSET Agents]
        BY DEF TypeOK
      <3>4. todo' \in [Commands -> SUBSET Agents] /\ \A d \in Commands \ {c} : todo'[d] = todo[d]
        BY <3>1, <3>2, <3>3
      <3>5. l = "merge" => todo'[c] # {}
        BY <2>1, <3>3
      <3>6. QED
        BY <3>4, <3>5
    <2>3. copy' \in [Commands -> Content] /\ excused' \subseteq Agents \union {ConfigFile}
      BY <1>16 DEF StartMerge, TypeOK, Agents
    <2>4. TypeOK'
      BY <1>16, <2>1, <2>2, <2>3, GotoTyped DEF StartMerge, TypeOK
    <2>5. FeatureKnown'
      BY <1>16, <2>1 DEF StartMerge, TypeOK, FeatureKnown
    <2>6. QED
      BY <2>4, <2>5
  <1>17. ASSUME NEW c \in Commands, Merge(c)
         PROVE  TypeInv'
    <2>1. todo' \in [Commands -> SUBSET Agents] /\ \A d \in Commands \ {c} : todo'[d] = todo[d]
      BY <1>17, AdvanceTyped DEF Merge
    <2>2. PICK l \in {"read", "look", "purge", "done"} :
            pc' = [pc EXCEPT ![c] = l] /\ (l \in {"read", "look"} => todo'[c] # {})
      BY <1>17, AdvanceTyped DEF Merge
    <2>3. PICK m \in Hooks, left \in Hooks :
             m = Merged(copy[c].hooks) /\ left = WithObserver(unrelated["codex"], copy[c].hooks)
      <3>1. copy[c].hooks \in Hooks /\ Wanted[c].binary \in Binaries
        BY ContentsAre, HooksAssumption DEF TypeOK, Command
      <3>2. "codex" \in Agents
        BY DEF Agents
      <3>3. Merged(copy[c].hooks) \in Hooks
        BY <3>1, <3>2, HooksTyped
      <3>4. unrelated["codex"] \in Hooks
        BY <3>2 DEF TypeOK
      <3>5. WithObserver(unrelated["codex"], copy[c].hooks) \in Hooks
        <4>1. \A e \in Events : unrelated["codex"][e] \in Seq(Group)
          BY <3>4, HooksAre
        <4>2. \A gs \in Seq(Group), g \in Group : Append(gs, g) \in Seq(Group)
          OBVIOUS
        <4>3. <<Observer>> \in Group
          BY HooksAre
        <4>4. QED
          BY <4>1, <4>2, <4>3, HooksAre DEF WithObserver
      <3>6. QED
        BY <3>3, <3>5
    <2>4. file' \in [Agents -> Content] /\ unrelated' \in [Agents -> Hooks]
      BY <1>17, <2>3, ContentsAre DEF Merge, TypeOK
    <2>10. excused' \subseteq Agents \union {ConfigFile}
      BY <1>17 DEF Merge, TypeOK, Agents
    <2>5. over' \in [Commands -> {"no", "written", "replaced"}]
      BY <1>17, OverwriteTyped DEF Merge
    <2>6. copy' \in [Commands -> Content]
      BY <1>17, ContentsAre DEF Merge, TypeOK
    <2>7. TypeOK'
      BY <1>17, <2>1, <2>2, <2>4, <2>5, <2>6, <2>10, GotoTyped DEF Merge, TypeOK
    <2>8. FeatureKnown'
      BY <1>17, <2>2 DEF Merge, TypeOK, FeatureKnown
    <2>9. QED
      BY <2>7, <2>8
  <1>18. ASSUME NEW c \in Commands, Kill(c)
         PROVE  TypeInv'
    <2>1. pc' = [pc EXCEPT ![c] = "killed"] /\ todo' = [todo EXCEPT ![c] = {}]
      BY <1>18 DEF Kill, Goto
    <2>2. todo' \in [Commands -> SUBSET Agents] /\ \A d \in Commands \ {c} : todo'[d] = todo[d]
      BY <2>1 DEF TypeOK
    <2>3. kills' \in 0 .. MaxKills
      BY <1>18, HooksAssumption DEF Kill, TypeOK
    <2>4. Current(c) \in Agents
      BY CurrentIs
    <2>5. backup' \in [Agents -> [Seconds -> Content]] /\ excused' \subseteq Agents \union {ConfigFile}
      <3>1. backup' = backup \/ backup' = [backup EXCEPT ![Current(c)][second] = Empty]
        BY <1>18 DEF Kill
      <3>2. backup' \in [Agents -> [Seconds -> Content]]
        <4>1. PICK e \in Content : e = Empty
          BY ContentsAre
        <4>2. PICK a \in Agents : a = Current(c)
          BY <2>4
        <4>3. backup' = backup \/ backup' = [backup EXCEPT ![a][second] = e]
          BY <3>1, <4>1, <4>2
        <4>4. backup \in [Agents -> [Seconds -> Content]]
          BY DEF TypeOK
        <4>5. QED
          BY <4>3, <4>4
      <3>3. excused' \subseteq Agents \union {ConfigFile}
        BY <1>18, <2>4 DEF Kill, TypeOK
      <3>4. QED
        BY <3>2, <3>3
    <2>6. NoConfig \in Config /\ Absent \in Content
      BY ContentsAre DEF Config, NoConfig
    <2>7. TypeOK'
      BY <1>18, <2>1, <2>2, <2>3, <2>5, <2>6, GotoTyped DEF Kill, TypeOK
    <2>8. FeatureKnown'
      BY <1>18, <2>1 DEF Kill, TypeOK, FeatureKnown
    <2>9. QED
      BY <2>7, <2>8
  <1>19. CASE Tick
    <2>1. second' \in Seconds
      BY <1>19, HooksAssumption DEF Tick, TypeOK, Seconds
    <2>2. QED
      BY <1>19, <2>1 DEF Tick, TypeOK, FeatureKnown
  <1>20. ASSUME NEW a \in Agents, NEW content \in Content, UserSaves(a, content)
         PROVE  TypeInv'
    <2>1. edits' \in 0 .. MaxEdits
      BY <1>20, HooksAssumption DEF UserSaves, TypeOK
    <2>2. over' \in [Commands -> {"no", "written", "replaced"}]
      BY <1>20, OverwriteTyped DEF UserSaves
    <2>3. unrelated' \in [Agents -> Hooks]
      <3>1. content.hooks \in Hooks
        BY ContentsAre
      <3>2. TheirPart(content.hooks) \in Hooks
        BY <3>1, TheirPartTyped
      <3>3. QED
        BY <1>20, <3>2 DEF UserSaves, TypeOK
    <2>4. excused' \subseteq Agents \union {ConfigFile}
      BY <1>20 DEF UserSaves, TypeOK
    <2>5. expected' \in [Agents -> Binaries \union {None, Unknown}]
      BY <1>20 DEF UserSaves, TypeOK
    <2>6. TypeOK'
      BY <1>20, <2>1, <2>2, <2>3, <2>4, <2>5 DEF UserSaves, TypeOK
    <2>7. FeatureKnown'
      BY <1>20 DEF UserSaves, FeatureKnown
    <2>8. QED
      BY <2>6, <2>7
  <1>21. ASSUME NEW a \in Edited, NEW e \in Events, NEW h \in Others, UserAdds(a, e, h)
         PROVE  TypeInv'
    BY <1>20, <1>21, UserAddsSaves
  <1>22. ASSUME NEW a \in Edited, UserBreaks(a) \/ UserRepairs(a)
         PROVE  TypeInv'
    <2>1. a \in Agents /\ file[a] \in Content
      BY HooksAssumption DEF TypeOK
    <2>2. QED
      BY <1>20, <1>22, <2>1, ContentsAre DEF UserBreaks, UserRepairs
  <1>23. ASSUME NEW e \in Events, NEW i \in 1 .. 2, NEW j \in 1 .. 2, UserDisables(e, i, j)
         PROVE  TypeInv'
    <2>1. edits' \in 0 .. MaxEdits
      BY <1>23, HooksAssumption DEF UserDisables, TypeOK
    <2>2. toml' \in Config
      <3>1. toml' = [toml EXCEPT !.off = @ \union {<<e, i, j>>}]
        BY <1>23 DEF UserDisables
      <3>2. <<e, i, j>> \in Events \X Nat \X Nat
        OBVIOUS
      <3>3. PICK off \in SUBSET (Events \X Nat \X Nat) : off = toml.off \union {<<e, i, j>>}
        <4>1. toml.off \in SUBSET (Events \X Nat \X Nat)
          BY DEF TypeOK, Config
        <4>2. QED
          BY <3>2, <4>1
      <3>4. toml' = [toml EXCEPT !.off = off]
        BY <3>1, <3>3
      <3>5. QED
        BY <3>3, <3>4 DEF TypeOK, Config
    <2>3. TypeOK'
      BY <1>23, <2>1, <2>2 DEF UserDisables, TypeOK
    <2>4. QED
      BY <1>23, <2>3 DEF UserDisables, FeatureKnown
  <1>24. QED
    BY <1>1, <1>2, <1>3, <1>4, <1>5, <1>6, <1>7, <1>8, <1>9, <1>10, <1>11, <1>12, <1>13, <1>14,
       <1>15, <1>16, <1>17, <1>18, <1>19, <1>21, <1>22, <1>23 DEF Next

-----------------------------------------------------------------------------
\* The invariant

\* Which commands stand where, and what they have read.
SettledAt(c) ==
    /\ pc[c] \in {"enable", "truncate_config", "fill_config", "select", "decide"} => Is(c, {"init"})
    /\ pc[c] \in {"look", "read"} => Is(c, {"init", "refresh", "uninstall"})
    /\ pc[c] = "backup" => Is(c, {"init", "refresh"}) /\ Readable(copy[c])
    /\ pc[c] \in {"truncate", "fill"} =>
         /\ Is(c, {"init", "refresh", "uninstall", "restore"})
         /\ Is(c, {"restore"}) => todo[c] = {"claude-code"}
         /\ Is(c, {"uninstall"}) => copy[c].state = "whole"
    /\ pc[c] = "merge" =>
         Is(c, {"observe"}) /\ todo[c] = {"codex"} /\ copy[c].state \in {"absent", "whole"}
Settled == \A c \in Commands : SettledAt(c)

\* There is no backup of a second to come.
NoneAhead == \A a \in Agents, s \in Seconds : s > second => backup[a][s] = Absent

\* The handlers that are not ours are as they were left.
Good(a, content) == TheirPart(content.hooks) = unrelated[a]
Filling(a) == {c \in Holding(a) : pc[c] = "fill"}
Earlier(a) == \E s \in Seconds : s < second /\ Good(a, backup[a][s])

\* Or there are none of them, and a backup has them.
Bare(content) == TheirPart(content.hooks) = NoHooks
Held(a, content) == Good(a, content) \/ (Bare(content) /\ Earlier(a))
Stored(a) == \/ Held(a, file[a])
             \/ Bare(file[a]) /\ Good(a, backup[a][second]) /\ file[a].state # "whole"

\* One command at a time is about to write a file.
OneHolder(a) == \A c, d \in Holding(a) : c = d

\* What it has in memory is what the file has, until it has truncated it.
CopyCurrent(a) ==
    \A c \in Holding(a) :
        IF pc[c] = "fill" THEN over[c] = "no" /\ file[a] = Empty
        ELSE Is(c, {"restore"}) \/ copy[c] = file[a]

\* The handlers that are not ours are where a kill of that command does not lose them.
TheirsSomewhere(a) ==
    /\ Filling(a) = {} => Stored(a)
    /\ \A c \in Holding(a) :
         /\ pc[c] \in {"truncate", "fill"} /\ Is(c, {"init", "refresh"}) =>
              /\ Good(a, Empty) \/ \E s \in Seconds : Good(a, backup[a][s])
              /\ Held(a, copy[c])
         /\ pc[c] = "fill" /\ Is(c, {"uninstall"}) => Held(a, copy[c])
         /\ pc[c] \in {"truncate", "fill"} /\ Is(c, {"restore"}) => Good(a, copy[c])

\* Our handlers are what they should be, also while the file is no JSON.
OwnKnown(a) ==
    /\ file[a].state = "absent" => expected[a] = Unknown
    /\ file[a].state \in {"whole", "broken"} /\ expected[a] # Unknown =>
         OwnAs(a, file[a].hooks, expected[a])

AgentInv(a) == OneHolder(a) /\ CopyCurrent(a) /\ TheirsSomewhere(a) /\ OwnKnown(a)
AgentsInv == \A a \in Agents \ excused : AgentInv(a)

\* One command at a time is about to write config.toml, what it writes has the other
\* lines, and so has the file until it is truncated.
RestHeld ==
    ConfigFile \notin excused =>
        /\ \A c, d \in HoldingConfig : c = d
        /\ \A c \in HoldingConfig : Rest(config[c].lines) = rest
        /\ (\A c \in HoldingConfig : pc[c] = "truncate_config") => Rest(toml.lines) = rest

Inv == TypeInv /\ Settled /\ NoneAhead /\ AgentsInv /\ RestHeld

\* A step of one command leaves the others where they are.
OnlyOf(c) ==
    \A d \in Commands \ {c} : /\ pc'[d] = pc[d] /\ todo'[d] = todo[d]
                              /\ copy'[d] = copy[d] /\ config'[d] = config[d]

\* Every action of a command is one.
LEMMA StepsOfOne ==
    ASSUME TypeInv, NEW c \in Commands,
           \/ StartInit(c) \/ Select(c) \/ Decide(c)
           \/ ReadConfig(c) \/ TruncateConfig(c) \/ FillConfig(c)
           \/ StartBoth(c) \/ Look(c) \/ ReadSettings(c) \/ Backup(c)
           \/ Truncate(c) \/ Fill(c) \/ Purge(c)
           \/ StartRestore(c) \/ StartMerge(c) \/ Merge(c) \/ Kill(c)
    PROVE  OnlyOf(c)
  <1> USE DEF TypeInv, TypeOK, OnlyOf, Goto
  <1>1. CASE StartInit(c) \/ Select(c) \/ Decide(c)
    BY <1>1 DEF StartInit, Select, Decide, localVars
  <1>2. CASE ReadConfig(c) \/ TruncateConfig(c) \/ FillConfig(c)
    BY <1>2 DEF ReadConfig, TruncateConfig, FillConfig, localVars
  <1>3. CASE StartBoth(c) \/ Look(c)
    BY <1>3 DEF StartBoth, Look, Advance
  <1>4. CASE ReadSettings(c)
    BY <1>4 DEF ReadSettings, Advance
  <1>5. CASE Backup(c) \/ Truncate(c) \/ Purge(c)
    BY <1>5 DEF Backup, Truncate, Purge, localVars
  <1>6. CASE Fill(c)
    BY <1>6 DEF Fill, Advance
  <1>7. CASE StartRestore(c) \/ StartMerge(c)
    BY <1>7 DEF StartRestore, StartMerge
  <1>8. CASE Merge(c) \/ Kill(c)
    BY <1>8 DEF Merge, Kill, Advance
  <1>9. QED
    BY <1>1, <1>2, <1>3, <1>4, <1>5, <1>6, <1>7, <1>8

\* The agent at hand is the same as long as the agents are.
LEMMA CurrentStays ==
    ASSUME NEW c \in Commands, todo'[c] = todo[c]
    PROVE  Current(c)' = Current(c)
  BY DEF Current

\* Another command holds what it held.
LEMMA HoldingStays ==
    ASSUME NEW d \in Commands, pc'[d] = pc[d], todo'[d] = todo[d], NEW a
    PROVE  d \in Holding(a)' <=> d \in Holding(a)
  BY CurrentStays DEF Holding

\* Where the commands stand.
LEMMA SettledStep ==
    ASSUME TypeInv, TypeInv', Settled, [Next]_vars
    PROVE  Settled'
  <1> USE DEF TypeInv, Is
  <1>1. ASSUME NEW d \in Commands, pc'[d] = pc[d], todo'[d] = todo[d], copy'[d] = copy[d]
        PROVE  SettledAt(d)'
    BY <1>1 DEF Settled, SettledAt, Readable
  <1>2. ASSUME NEW c \in Commands, OnlyOf(c), SettledAt(c)'
        PROVE  Settled'
    BY <1>1, <1>2 DEF OnlyOf, Settled
  <1>3. CASE UNCHANGED vars
    BY <1>1, <1>3 DEF Settled, vars, localVars
  <1>4. ASSUME NEW c \in Commands, StartInit(c)
        PROVE  Settled'
    <2>1. Is(c, {"init"}) /\ pc'[c] \in {"enable", "select"}
      BY <1>4 DEF StartInit, Goto, TypeOK
    <2>2. QED
      BY <1>2, <1>4, <2>1, StepsOfOne DEF SettledAt
  <1>5. ASSUME NEW c \in Commands, Select(c)
        PROVE  Settled'
    <2>1. Is(c, {"init"}) /\ pc'[c] \in {"failed", "enable", "decide"}
      BY <1>5 DEF Select, Goto, TypeOK, Settled, SettledAt
    <2>2. QED
      BY <1>2, <1>5, <2>1, StepsOfOne DEF SettledAt
  <1>6. ASSUME NEW c \in Commands, Decide(c)
        PROVE  Settled'
    <2>1. Is(c, {"init"}) /\ pc'[c] \in {"failed", "read"}
      BY <1>6 DEF Decide, Goto, TypeOK, Settled, SettledAt
    <2>2. QED
      BY <1>2, <1>6, <2>1, StepsOfOne DEF SettledAt
  <1>7. ASSUME NEW c \in Commands, ReadConfig(c) \/ TruncateConfig(c) \/ FillConfig(c)
        PROVE  Settled'
    <2>1. Is(c, {"init"}) /\ pc'[c] \in {"failed", "truncate_config", "fill_config", "decide", "select"}
      BY <1>7 DEF ReadConfig, TruncateConfig, FillConfig, Goto, TypeOK, Settled, SettledAt
    <2>2. QED
      BY <1>2, <1>7, <2>1, StepsOfOne DEF SettledAt
  <1>8. ASSUME NEW c \in Commands, StartBoth(c)
        PROVE  Settled'
    <2>1. Is(c, {"refresh", "uninstall"}) /\ pc'[c] = "look"
      BY <1>8 DEF StartBoth, Goto, TypeOK
    <2>2. QED
      BY <1>2, <1>8, <2>1, StepsOfOne DEF SettledAt
  <1>9. ASSUME NEW c \in Commands, Look(c)
        PROVE  Settled'
    <2>1. Is(c, {"init", "refresh", "uninstall"}) /\ pc'[c] \in {"look", "read", "purge", "done"}
      BY <1>9 DEF Look, Advance, Goto, TypeOK, Settled, SettledAt
    <2>2. QED
      BY <1>2, <1>9, <2>1, StepsOfOne DEF SettledAt
  <1>10. ASSUME NEW c \in Commands, ReadSettings(c)
         PROVE  Settled'
    <2>1. Is(c, {"init", "refresh", "uninstall"}) /\ pc[c] = "read" /\ todo[c] # {}
      BY <1>10 DEF ReadSettings, TypeOK, Settled, SettledAt
    <2>2. PICK content \in Content : content = file[Current(c)]
      BY <2>1, CurrentIs DEF TypeOK
    <2>3. CASE ~Readable(content)
      <3>1. pc' = [pc EXCEPT ![c] = "failed"]
        BY <1>10, <2>2, <2>3 DEF ReadSettings, Goto
      <3>2. pc'[c] = "failed"
        BY <3>1 DEF TypeOK
      <3>3. QED
        BY <1>2, <1>10, <3>2, StepsOfOne DEF SettledAt
    <2>4. CASE Readable(content) /\ Is(c, {"uninstall"}) /\ content.hooks = NoHooks
      <3>1. Advance(c)
        BY <1>10, <2>2, <2>4 DEF ReadSettings
      <3>2. pc'[c] \in {"look", "read", "purge", "done"}
        BY <3>1 DEF Advance, Goto, TypeOK
      <3>3. QED
        BY <1>2, <1>10, <2>1, <3>2, StepsOfOne DEF SettledAt
    <2>5. CASE Readable(content) /\ ~(Is(c, {"uninstall"}) /\ content.hooks = NoHooks)
      <3>1. /\ copy'[c] = content
            /\ pc'[c] = IF Is(c, {"uninstall"}) THEN "truncate" ELSE "backup"
        BY <1>10, <2>2, <2>5 DEF ReadSettings, Goto, TypeOK
      <3>2. Is(c, {"uninstall"}) => content.state = "whole"
        BY <2>5 DEF Content, Readable
      <3>3. QED
        BY <1>2, <1>10, <2>1, <2>5, <3>1, <3>2, StepsOfOne DEF SettledAt, Readable
    <2>6. QED
      BY <2>3, <2>4, <2>5
  <1>11. ASSUME NEW c \in Commands, Backup(c)
         PROVE  Settled'
    <2>1. Is(c, {"init", "refresh"}) /\ pc'[c] = "truncate"
      BY <1>11 DEF Backup, Goto, TypeOK, Settled, SettledAt
    <2>2. QED
      BY <1>2, <1>11, <2>1, StepsOfOne DEF SettledAt
  <1>12. ASSUME NEW c \in Commands, Truncate(c)
         PROVE  Settled'
    <2>1. pc[c] = "truncate" /\ pc'[c] = "fill" /\ todo'[c] = todo[c] /\ copy'[c] = copy[c]
      BY <1>12 DEF Truncate, Goto, TypeOK
    <2>2. SettledAt(c)'
      BY <2>1 DEF Settled, SettledAt
    <2>3. QED
      BY <1>2, <1>12, <2>2, StepsOfOne
  <1>13. ASSUME NEW c \in Commands, Fill(c) \/ Merge(c)
         PROVE  Settled'
    <2>1. pc'[c] \in {"purge", "done"}
            \/ (pc'[c] \in {"read", "look"} /\ todo[c] \ {Current(c)} # {})
      BY <1>13 DEF Fill, Merge, Advance, Goto, TypeOK
    <2>2. pc[c] \in {"fill", "merge"} /\ (pc[c] = "merge" <=> Merge(c))
      BY <1>13 DEF Fill, Merge
    <2>3. todo[c] \ {Current(c)} # {} => Is(c, {"init", "refresh", "uninstall"})
      BY <2>2 DEF Settled, SettledAt, Current
    <2>4. QED
      BY <1>2, <1>13, <2>1, <2>3, StepsOfOne DEF SettledAt
  <1>14. ASSUME NEW c \in Commands, Purge(c) \/ Kill(c)
         PROVE  Settled'
    <2>1. pc'[c] \in {"done", "killed"}
      BY <1>14 DEF Purge, Kill, Goto, TypeOK
    <2>2. QED
      BY <1>2, <1>14, <2>1, StepsOfOne DEF SettledAt
  <1>15. ASSUME NEW c \in Commands, StartRestore(c)
         PROVE  Settled'
    <2>1. Is(c, {"restore"}) /\ (pc'[c] = "failed" \/ (pc'[c] = "truncate" /\ todo'[c] = {"claude-code"}))
      BY <1>15 DEF StartRestore, Goto, TypeOK
    <2>2. QED
      BY <1>2, <1>15, <2>1, StepsOfOne DEF SettledAt
  <1>16. ASSUME NEW c \in Commands, StartMerge(c)
         PROVE  Settled'
    <2>1. /\ Is(c, {"observe"})
          /\ \/ pc'[c] = "failed"
             \/ pc'[c] = "merge" /\ todo'[c] = {"codex"} /\ copy'[c].state \in {"absent", "whole"}
      BY <1>16 DEF StartMerge, Goto, TypeOK
    <2>2. QED
      BY <1>2, <1>16, <2>1, StepsOfOne DEF SettledAt
  <1>17. CASE Tick
    BY <1>1, <1>17 DEF Settled, Tick, localVars
  <1>18. ASSUME NEW a, NEW content, UserSaves(a, content)
         PROVE  Settled'
    BY <1>1, <1>18 DEF Settled, UserSaves
  <1>19. ASSUME NEW e, NEW i, NEW j, UserDisables(e, i, j)
         PROVE  Settled'
    BY <1>1, <1>19 DEF Settled, UserDisables, localVars
  <1>20. ASSUME NEW a \in Edited, NEW e \in Events, NEW h \in Others, UserAdds(a, e, h)
         PROVE  Settled'
    BY <1>18, <1>20 DEF UserAdds
  <1>21. ASSUME NEW a \in Edited, UserBreaks(a) \/ UserRepairs(a)
         PROVE  Settled'
    BY <1>18, <1>21 DEF UserBreaks, UserRepairs
  <1>22. QED
    BY <1>3, <1>4, <1>5, <1>6, <1>7, <1>8, <1>9, <1>10, <1>11, <1>12, <1>13, <1>14, <1>15,
       <1>16, <1>17, <1>19, <1>20, <1>21 DEF Next

\* No backup is made ahead of its second.
LEMMA NoneAheadStep ==
    ASSUME TypeInv, NoneAhead, [Next]_vars
    PROVE  NoneAhead'
  <1> USE DEF TypeInv, FilesOnly, fileVars
  <1>1. second \in Nat
    BY HooksAssumption DEF TypeOK, Seconds
  <1>2. CASE UNCHANGED <<backup, second>>
    BY <1>2 DEF NoneAhead
  <1>3. ASSUME NEW c \in Commands, Backup(c)
        PROVE  NoneAhead'
    <2>1. PICK a \in Agents : a = Current(c)
      BY CurrentIs
    <2>2. backup' = backup \/ backup' = [backup EXCEPT ![a][second] = file[a]]
      BY <1>3, <2>1 DEF Backup
    <2>3. \A b \in Agents, s \in Seconds : s # second => backup'[b][s] = backup[b][s]
      BY <2>2 DEF TypeOK
    <2>4. second' = second
      BY <1>3 DEF Backup
    <2>5. QED
      BY <1>1, <2>3, <2>4 DEF NoneAhead, Seconds
  <1>4. ASSUME NEW c \in Commands, Purge(c)
        PROVE  NoneAhead'
    BY <1>4 DEF Purge, NoneAhead
  <1>5. ASSUME NEW c \in Commands, Kill(c)
        PROVE  NoneAhead'
    <2>1. PICK a \in Agents : a = Current(c)
      BY CurrentIs
    <2>2. backup' = backup \/ backup' = [backup EXCEPT ![a][second] = Empty]
      BY <1>5, <2>1 DEF Kill
    <2>3. \A b \in Agents, s \in Seconds : s # second => backup'[b][s] = backup[b][s]
      BY <2>2 DEF TypeOK
    <2>4. second' = second
      BY <1>5 DEF Kill
    <2>5. QED
      BY <1>1, <2>3, <2>4 DEF NoneAhead, Seconds
  <1>6. CASE Tick
    <2>1. second' = second + 1 /\ backup' = backup
      BY <1>6 DEF Tick
    <2>2. QED
      BY <1>1, <2>1 DEF NoneAhead, Seconds
  <1>7. ASSUME NEW c \in Commands,
               \/ StartInit(c) \/ Select(c) \/ Decide(c)
               \/ ReadConfig(c) \/ TruncateConfig(c) \/ FillConfig(c)
               \/ StartBoth(c) \/ Look(c) \/ ReadSettings(c)
               \/ Truncate(c) \/ Fill(c) \/ StartRestore(c) \/ StartMerge(c) \/ Merge(c)
        PROVE  UNCHANGED <<backup, second>>
    <2>1. CASE StartInit(c) \/ Select(c) \/ Decide(c) \/ ReadConfig(c)
      BY <2>1 DEF StartInit, Select, Decide, ReadConfig
    <2>2. CASE TruncateConfig(c) \/ FillConfig(c) \/ StartBoth(c) \/ Look(c) \/ ReadSettings(c)
      BY <2>2 DEF TruncateConfig, FillConfig, StartBoth, Look, ReadSettings
    <2>3. CASE Truncate(c) \/ Fill(c) \/ StartRestore(c) \/ StartMerge(c) \/ Merge(c)
      BY <2>3 DEF Truncate, Fill, StartRestore, StartMerge, Merge
    <2>4. QED
      BY <1>7, <2>1, <2>2, <2>3
  <1>8. ASSUME NEW a, NEW content, UserSaves(a, content)
        PROVE  UNCHANGED <<backup, second>>
    BY <1>8 DEF UserSaves
  <1>9. ASSUME NEW a \in Edited, NEW e \in Events, NEW h \in Others, UserAdds(a, e, h)
        PROVE  UNCHANGED <<backup, second>>
    BY <1>8, <1>9 DEF UserAdds
  <1>10. ASSUME NEW a \in Edited, UserBreaks(a) \/ UserRepairs(a)
         PROVE  UNCHANGED <<backup, second>>
    BY <1>8, <1>10 DEF UserBreaks, UserRepairs
  <1>11. ASSUME NEW e, NEW i, NEW j, UserDisables(e, i, j)
         PROVE  UNCHANGED <<backup, second>>
    BY <1>11 DEF UserDisables
  <1>12. QED
    BY <1>2, <1>3, <1>4, <1>5, <1>6, <1>7, <1>9, <1>10, <1>11 DEF Next, vars

-----------------------------------------------------------------------------
\* config.toml stays what it was

\* Nothing happens to it, nor to those that are about to write it.
ConfigSame ==
    /\ HoldingConfig' = HoldingConfig
    /\ \A c \in HoldingConfig : config'[c] = config[c] /\ pc'[c] = pc[c]
    /\ Rest(toml.lines)' = Rest(toml.lines) /\ rest' = rest
    /\ ConfigFile \in excused => ConfigFile \in excused'

\* Then what is known of config.toml stays known.
LEMMA ConfigFrame ==
    ASSUME RestHeld, ConfigSame
    PROVE  RestHeld'
  <1>1. PICK r : r = Rest(toml.lines) /\ r = Rest(toml.lines)'
    BY DEF ConfigSame
  <1>2. SUFFICES ASSUME ConfigFile \notin excused'
        PROVE  /\ \A c, d \in HoldingConfig' : c = d
               /\ \A c \in HoldingConfig' : Rest(config'[c].lines) = rest'
               /\ (\A c \in HoldingConfig' : pc'[c] = "truncate_config") => r = rest'
    BY <1>1 DEF RestHeld, Rest, OtherLines, Parses
  <1>3. /\ \A c, d \in HoldingConfig : c = d
        /\ \A c \in HoldingConfig : Rest(config[c].lines) = rest
        /\ (\A c \in HoldingConfig : pc[c] = "truncate_config") => r = rest
    BY <1>1, <1>2 DEF RestHeld, ConfigSame
  <1>4. \A c \in HoldingConfig : Rest(config'[c].lines) = Rest(config[c].lines)
    BY DEF ConfigSame
  <1>5. QED
    BY <1>3, <1>4 DEF ConfigSame

\* A command that is not about to write it.
LEMMA ConfigElsewhere ==
    ASSUME NEW c \in Commands, OnlyOf(c), c \notin HoldingConfig, c \notin HoldingConfig',
           toml' = toml, rest' = rest, ConfigFile \in excused => ConfigFile \in excused'
    PROVE  ConfigSame
  <1>1. HoldingConfig' = HoldingConfig
    BY DEF OnlyOf, HoldingConfig
  <1>2. \A d \in HoldingConfig : config'[d] = config[d] /\ pc'[d] = pc[d]
    BY DEF OnlyOf, HoldingConfig
  <1>3. QED
    BY <1>1, <1>2 DEF ConfigSame

\* What is written is what the text was, but for the feature.
LEMMA RestKept ==
    ASSUME NEW f \in FeatureKeys, NEW c \in Config, Parses(c.lines), ~Unfit(c, f)
    PROVE  Rest(SetFeature(c, f).lines) = Rest(c.lines)
  <1>1. PICK t : t = SetFeature(c, f).lines
    OBVIOUS
  <1>2. PICK ls \in Seq(Line) : ls = c.lines
    BY DEF Config
  <1>3. Keeps(ls, t, f)
    BY <1>1, <1>2, SetFeatureKeeps
  <1>4. t \in Seq(Line) /\ OtherLines(t) = OtherLines(ls)
    BY <1>3 DEF Keeps
  <1>5. \A g \in FeatureKeys : Once(ls, g)
    BY <1>2, ParsesIs
  <1>6. \A g \in FeatureKeys : Once(t, g)
    BY <1>3, <1>5 DEF Keeps
  <1>7. Parses(t)
    BY <1>4, <1>6, ParsesIs
  <1>8. Parses(t) = Parses(ls)
    <2>1. Parses(ls) \in BOOLEAN /\ Parses(t) \in BOOLEAN
      BY DEF Parses
    <2>2. QED
      BY <1>2, <1>7, <2>1
  <1>9. Rest(t) = Rest(ls)
    BY <1>4, <1>8 DEF Rest
  <1>10. QED
    BY <1>1, <1>2, <1>9

\* Every step keeps the other lines of config.toml in the file or in memory.
LEMMA RestStep ==
    ASSUME TypeInv, RestHeld, [Next]_vars
    PROVE  RestHeld'
  <1> USE DEF TypeInv, FilesOnly, fileVars, localVars, ghostVars
  <1>1. CASE UNCHANGED vars
    BY <1>1, ConfigFrame DEF vars, ConfigSame, HoldingConfig
  <1>2. ASSUME NEW c \in Commands, StartInit(c) \/ Select(c) \/ Decide(c) \/ StartBoth(c) \/ Look(c)
        PROVE  RestHeld'
    <2>1. toml' = toml /\ rest' = rest /\ excused' = excused
      BY <1>2 DEF StartInit, Select, Decide, StartBoth, Look
    <2>2. c \notin HoldingConfig /\ c \notin HoldingConfig'
      BY <1>2 DEF StartInit, Select, Decide, StartBoth, Look, Goto, Advance, TypeOK, HoldingConfig
    <2>3. QED
      BY <1>2, <2>1, <2>2, ConfigFrame, ConfigElsewhere, StepsOfOne
  <1>3. ASSUME NEW c \in Commands, ReadConfig(c)
        PROVE  RestHeld'
    <2>1. CASE ~Parses(toml.lines)
      <3>1. toml' = toml /\ rest' = rest /\ excused' = excused
        BY <1>3, <2>1 DEF ReadConfig
      <3>2. c \notin HoldingConfig /\ c \notin HoldingConfig'
        BY <1>3, <2>1 DEF ReadConfig, Goto, TypeOK, HoldingConfig
      <3>3. QED
        BY <1>3, <3>1, <3>2, ConfigFrame, ConfigElsewhere, StepsOfOne
    <2>2. CASE Parses(toml.lines)
      <3>1. SUFFICES ASSUME ConfigFile \notin excused'
            PROVE  RestHeld'
        BY DEF RestHeld
      <3>2. HoldingConfig = {} /\ ~Unfit(toml, Feature) /\ ConfigFile \notin excused
        BY <1>3, <2>2, <3>1 DEF ReadConfig
      <3>3. Rest(toml.lines) = rest
        BY <3>2 DEF RestHeld
      <3>4. Feature \in FeatureKeys /\ toml \in Config
        BY <1>3, FeatureTyped DEF ReadConfig, TypeOK, FeatureKnown
      <3>5. PICK d \in Config : d = SetFeature(toml, Feature)
        BY <3>4, SetFeatureTyped
      <3>6. Rest(d.lines) = rest
        BY <2>2, <3>2, <3>3, <3>4, <3>5, RestKept
      <3>7. config'[c] = d /\ pc'[c] = "truncate_config" /\ toml' = toml /\ rest' = rest
        BY <1>3, <2>2, <3>5 DEF ReadConfig, Goto, TypeOK
      <3>8. HoldingConfig' = {c}
        <4>1. \A e \in Commands \ {c} : pc'[e] = pc[e]
          BY <1>3, StepsOfOne DEF OnlyOf
        <4>2. QED
          BY <3>2, <3>7, <4>1 DEF HoldingConfig
      <3>9. Rest(config'[c].lines) = rest'
        BY <3>6, <3>7
      <3>10. Rest(toml.lines)' = rest'
        BY <3>3, <3>7 DEF Rest, OtherLines, Parses
      <3>11. QED
        BY <3>8, <3>9, <3>10 DEF RestHeld
    <2>3. QED
      BY <2>1, <2>2
  <1>4. ASSUME NEW c \in Commands, TruncateConfig(c)
        PROVE  RestHeld'
    <2>1. /\ pc[c] = "truncate_config" /\ pc'[c] = "fill_config" /\ config' = config
          /\ rest' = rest /\ excused' = excused
      BY <1>4 DEF TruncateConfig, Goto, TypeOK
    <2>2. HoldingConfig' = HoldingConfig /\ c \in HoldingConfig'
      <3>1. \A e \in Commands \ {c} : pc'[e] = pc[e]
        BY <1>4, StepsOfOne DEF OnlyOf
      <3>2. QED
        BY <2>1, <3>1 DEF HoldingConfig
    <2>3. \A d \in HoldingConfig : Rest(config'[d].lines) = Rest(config[d].lines)
      BY <2>1
    <2>4. QED
      BY <2>1, <2>2, <2>3 DEF RestHeld
  <1>5. ASSUME NEW c \in Commands, FillConfig(c)
        PROVE  RestHeld'
    <2>1. SUFFICES ASSUME ConfigFile \notin excused'
          PROVE  RestHeld'
      BY DEF RestHeld
    <2>2. /\ pc[c] = "fill_config" /\ pc'[c] \in {"decide", "select"}
          /\ toml' = config[c] /\ rest' = rest /\ excused' = excused
      BY <1>5 DEF FillConfig, Goto, TypeOK
    <2>3. c \in HoldingConfig
      BY <2>2 DEF HoldingConfig
    <2>4. /\ \A d \in HoldingConfig : d = c
          /\ Rest(config[c].lines) = rest
      BY <2>1, <2>2, <2>3 DEF RestHeld
    <2>5. HoldingConfig' = {}
      <3>1. \A e \in Commands \ {c} : pc'[e] = pc[e]
        BY <1>5, StepsOfOne DEF OnlyOf
      <3>2. QED
        BY <2>2, <2>4, <3>1 DEF HoldingConfig
    <2>6. Rest(toml.lines)' = rest'
      BY <2>2, <2>4 DEF Rest, OtherLines, Parses
    <2>7. QED
      BY <2>5, <2>6 DEF RestHeld
  <1>6. ASSUME NEW c \in Commands, ReadSettings(c) \/ Backup(c) \/ Truncate(c)
        PROVE  RestHeld'
    <2>1. toml' = toml /\ rest' = rest /\ excused \subseteq excused'
      BY <1>6 DEF ReadSettings, Backup, Truncate
    <2>2. c \notin HoldingConfig /\ c \notin HoldingConfig'
      BY <1>6 DEF ReadSettings, Backup, Truncate, Goto, Advance, TypeOK, HoldingConfig
    <2>3. QED
      BY <1>6, <2>1, <2>2, ConfigFrame, ConfigElsewhere, StepsOfOne
  <1>7. ASSUME NEW c \in Commands, Fill(c) \/ Purge(c) \/ Merge(c)
        PROVE  RestHeld'
    <2>1. toml' = toml /\ rest' = rest /\ excused \subseteq excused'
      BY <1>7 DEF Fill, Purge, Merge
    <2>2. c \notin HoldingConfig /\ c \notin HoldingConfig'
      BY <1>7 DEF Fill, Purge, Merge, Goto, Advance, TypeOK, HoldingConfig
    <2>3. QED
      BY <1>7, <2>1, <2>2, ConfigFrame, ConfigElsewhere, StepsOfOne
  <1>8. ASSUME NEW c \in Commands, StartRestore(c) \/ StartMerge(c)
        PROVE  RestHeld'
    <2>1. toml' = toml /\ rest' = rest /\ excused \subseteq excused'
      BY <1>8 DEF StartRestore, StartMerge
    <2>2. c \notin HoldingConfig /\ c \notin HoldingConfig'
      BY <1>8 DEF StartRestore, StartMerge, Goto, TypeOK, HoldingConfig
    <2>3. QED
      BY <1>8, <2>1, <2>2, ConfigFrame, ConfigElsewhere, StepsOfOne
  <1>9. ASSUME NEW c \in Commands, Kill(c)
        PROVE  RestHeld'
    <2>1. SUFFICES ASSUME ConfigFile \notin excused'
          PROVE  RestHeld'
      BY DEF RestHeld
    <2>2. /\ pc[c] # "fill_config" /\ ConfigFile \notin excused /\ pc'[c] = "killed"
          /\ toml' = toml /\ rest' = rest
      BY <1>9, <2>1 DEF Kill, Goto, TypeOK
    <2>3. HoldingConfig' = HoldingConfig \ {c}
          /\ \A d \in HoldingConfig' : pc'[d] = pc[d] /\ config'[d] = config[d]
      <3>1. \A e \in Commands \ {c} : pc'[e] = pc[e] /\ config'[e] = config[e]
        BY <1>9, StepsOfOne DEF OnlyOf
      <3>2. QED
        BY <2>2, <3>1 DEF HoldingConfig
    <2>4. /\ \A d, e \in HoldingConfig : d = e
          /\ \A d \in HoldingConfig : Rest(config[d].lines) = rest
          /\ (\A d \in HoldingConfig : pc[d] = "truncate_config") => Rest(toml.lines) = rest
      BY <2>2 DEF RestHeld
    <2>5. \A d \in HoldingConfig' : Rest(config'[d].lines) = rest'
      <3>1. \A d \in HoldingConfig' : Rest(config'[d].lines) = Rest(config[d].lines)
        BY <2>3
      <3>2. QED
        BY <2>2, <2>3, <2>4, <3>1
    <2>6. c \in HoldingConfig => pc[c] = "truncate_config"
      BY <2>2 DEF HoldingConfig
    <2>7. (\A d \in HoldingConfig' : pc'[d] = "truncate_config") => Rest(toml.lines) = rest
      BY <2>3, <2>4, <2>6
    <2>8. Rest(toml.lines)' = Rest(toml.lines)
      BY <2>2 DEF Rest, OtherLines, Parses
    <2>9. QED
      BY <2>2, <2>3, <2>4, <2>5, <2>7, <2>8 DEF RestHeld
  <1>10. CASE Tick
    BY <1>10, ConfigFrame DEF Tick, ConfigSame, HoldingConfig
  <1>11. ASSUME NEW a \in Agents, NEW content, UserSaves(a, content)
         PROVE  RestHeld'
    <2>1. ConfigFile \in excused => ConfigFile \in excused'
      BY <1>11, HooksAssumption DEF UserSaves
    <2>2. QED
      BY <1>11, <2>1, ConfigFrame DEF UserSaves, ConfigSame, HoldingConfig
  <1>12. ASSUME NEW a \in Edited, NEW e \in Events, NEW h \in Others, UserAdds(a, e, h)
         PROVE  RestHeld'
    BY <1>11, <1>12, UserAddsSaves
  <1>13. ASSUME NEW a \in Edited, UserBreaks(a) \/ UserRepairs(a)
         PROVE  RestHeld'
    BY <1>11, <1>13, HooksAssumption DEF UserBreaks, UserRepairs
  <1>14. ASSUME NEW e, NEW i, NEW j, UserDisables(e, i, j)
         PROVE  RestHeld'
    <2>1. toml'.lines = toml.lines
      BY <1>14 DEF UserDisables, TypeOK, Config
    <2>2. Rest(toml.lines)' = Rest(toml.lines)
      BY <2>1 DEF Rest, OtherLines, Parses
    <2>3. QED
      BY <1>14, <2>2, ConfigFrame DEF UserDisables, ConfigSame, HoldingConfig
  <1>15. QED
    BY <1>1, <1>2, <1>3, <1>4, <1>5, <1>6, <1>7, <1>8, <1>9, <1>10, <1>12, <1>13, <1>14 DEF Next

-----------------------------------------------------------------------------
\* The hooks files stay what they were, or become what they should

\* Nothing happens to a file, nor to those that are about to write it.
AgentSame(a) ==
    /\ Holding(a)' = Holding(a)
    /\ \A c \in Holding(a) : pc'[c] = pc[c] /\ copy'[c] = copy[c] /\ over'[c] \in {over[c], "no"}
    /\ file'[a] = file[a] /\ backup'[a] = backup[a]
    /\ unrelated'[a] = unrelated[a] /\ expected'[a] = expected[a]
    /\ second' = second

\* Then what is known of the file stays known.
LEMMA AgentFrame ==
    ASSUME NEW a \in Agents, AgentInv(a), AgentSame(a)
    PROVE  AgentInv(a)'
  <1> USE DEF AgentSame
  <1>1. OneHolder(a)'
    BY DEF AgentInv, OneHolder
  <1>2. CopyCurrent(a)'
    BY DEF AgentInv, CopyCurrent, Is
  <1>3. Filling(a)' = Filling(a)
    BY DEF Filling
  <1>4. Stored(a)' <=> Stored(a)
    BY DEF Stored, Held, Bare, Good, Earlier
  <1>5. Earlier(a)' <=> Earlier(a)
    BY DEF Good, Earlier
  <1>6. TheirsSomewhere(a)'
    <2>1. TheirsSomewhere(a)
      BY DEF AgentInv
    <2>2. (\E s \in Seconds : Good(a, backup[a][s]))' <=> \E s \in Seconds : Good(a, backup[a][s])
      BY DEF Good
    <2>3. Good(a, Empty)' <=> Good(a, Empty)
      BY DEF Good, Empty
    <2>4. (Filling(a) = {} => Stored(a))'
      BY <1>3, <1>4, <2>1 DEF TheirsSomewhere
    <2>5. ASSUME NEW c \in Holding(a)
          PROVE  /\ pc'[c] \in {"truncate", "fill"} /\ Is(c, {"init", "refresh"}) =>
                      /\ Good(a, Empty)' \/ (\E s \in Seconds : Good(a, backup[a][s]))'
                      /\ Held(a, copy[c])'
                 /\ pc'[c] = "fill" /\ Is(c, {"uninstall"}) => Held(a, copy[c])'
                 /\ pc'[c] \in {"truncate", "fill"} /\ Is(c, {"restore"}) => Good(a, copy[c])'
      <3>1. pc'[c] = pc[c]
        OBVIOUS
      <3>2. Good(a, copy[c])' <=> Good(a, copy[c])
        BY DEF Good
      <3>3. Held(a, copy[c])' <=> Held(a, copy[c])
        BY <1>5, <3>2 DEF Held, Bare
      <3>4. QED
        BY <2>1, <2>2, <2>3, <3>1, <3>2, <3>3 DEF TheirsSomewhere
    <2>6. QED
      BY <2>4, <2>5 DEF TheirsSomewhere, Is
  <1>7. OwnKnown(a)'
    BY DEF AgentInv, OwnKnown, OwnAs
  <1>8. QED
    BY <1>1, <1>2, <1>6, <1>7 DEF AgentInv

\* A command that is not about to write a file.
LEMMA AgentElsewhere ==
    ASSUME NEW c \in Commands, OnlyOf(c), NEW a \in Agents, c \notin Holding(a), c \notin Holding(a)',
           \A d \in Holding(a) : over'[d] \in {over[d], "no"},
           file'[a] = file[a], backup'[a] = backup[a],
           unrelated'[a] = unrelated[a], expected'[a] = expected[a], second' = second
    PROVE  AgentSame(a)
  <1>1. \A d \in Commands \ {c} : d \in Holding(a)' <=> d \in Holding(a)
    BY HoldingStays DEF OnlyOf
  <1>2. Holding(a)' = Holding(a)
    <2>1. Holding(a) \subseteq Commands \ {c}
      BY DEF Holding
    <2>2. Holding(a)' \subseteq Commands \ {c}
      BY DEF Holding
    <2>3. QED
      BY <1>1, <2>1, <2>2
  <1>3. \A d \in Holding(a) : pc'[d] = pc[d] /\ copy'[d] = copy[d]
    BY DEF OnlyOf, Holding
  <1>4. QED
    BY <1>2, <1>3 DEF AgentSame

\* All the files but one, of a step of one command.
LEMMA OtherAgents ==
    ASSUME AgentsInv, NEW c \in Commands, OnlyOf(c), NEW a \in Agents, second' = second,
           excused \ {a} \subseteq excused',
           \A b \in Agents \ {a} :
             /\ c \notin Holding(b) /\ c \notin Holding(b)'
             /\ \A d \in Holding(b) : over'[d] \in {over[d], "no"}
             /\ file'[b] = file[b] /\ backup'[b] = backup[b]
             /\ unrelated'[b] = unrelated[b] /\ expected'[b] = expected[b],
           a \notin excused' => AgentInv(a)'
    PROVE  AgentsInv'
  <1>1. ASSUME NEW b \in Agents \ {a}, b \notin excused'
        PROVE  AgentInv(b)'
    <2>1. b \in Agents /\ b \notin excused
      BY <1>1
    <2>2. AgentInv(b)
      BY <2>1 DEF AgentsInv
    <2>3. AgentSame(b)
      BY <2>1, AgentElsewhere
    <2>4. QED
      BY <2>1, <2>2, <2>3, AgentFrame
  <1>2. QED
    BY <1>1 DEF AgentsInv

\* No file, of a step of a command that reads and writes none of them.
LEMMA QuietStep ==
    ASSUME AgentsInv, NEW c \in Commands, OnlyOf(c), second' = second,
           excused \intersect Agents \subseteq excused',
           pc[c] \notin {"backup", "truncate", "fill", "merge"},
           pc'[c] \notin {"backup", "truncate", "fill", "merge"},
           UNCHANGED <<file, backup, unrelated, expected, over>>
    PROVE  AgentsInv'
  <1>1. ASSUME NEW a \in Agents, a \notin excused'
        PROVE  AgentInv(a)'
    <2>1. a \notin excused
      BY <1>1
    <2>2. AgentInv(a)
      BY <2>1 DEF AgentsInv
    <2>3. c \notin Holding(a) /\ c \notin Holding(a)'
      BY DEF Holding
    <2>4. AgentSame(a)
      BY <2>3, AgentElsewhere
    <2>5. QED
      BY <2>2, <2>4, AgentFrame
  <1>2. QED
    BY <1>1 DEF AgentsInv

\* The others that hold no file when the only one that does leaves.
LEMMA NobodyLeft ==
    ASSUME NEW c \in Commands, OnlyOf(c), NEW a, OneHolder(a), c \in Holding(a), c \notin Holding(a)'
    PROVE  Holding(a)' = {} /\ Filling(a)' = {}
  <1>1. \A d \in Commands \ {c} : d \in Holding(a)' <=> d \in Holding(a)
    BY HoldingStays DEF OnlyOf
  <1>2. \A d \in Holding(a) : d = c
    BY DEF OneHolder
  <1>3. \A d \in Holding(a)' : d \in Commands
    BY DEF Holding
  <1>4. Holding(a)' = {}
    BY <1>1, <1>2, <1>3
  <1>5. QED
    BY <1>4 DEF Filling

\* One that has nobody about to write it, and has the handlers that are not ours.
LEMMA FreeFile ==
    ASSUME NEW a \in Agents, Holding(a)' = {}, Stored(a)', OwnKnown(a)'
    PROVE  AgentInv(a)'
  <1>1. OneHolder(a)' /\ CopyCurrent(a)'
    BY DEF OneHolder, CopyCurrent
  <1>2. TheirsSomewhere(a)'
    BY DEF TheirsSomewhere
  <1>3. QED
    BY <1>1, <1>2 DEF AgentInv

\* A command takes a file, to write it.
LEMMA TakesFile ==
    ASSUME TypeInv, AgentsInv, NEW c \in Commands, OnlyOf(c), NEW a \in Agents,
           pc[c] \notin {"backup", "truncate", "fill", "merge"},
           pc'[c] \in {"backup", "truncate", "merge"}, Current(c)' = a,
           UNCHANGED <<file, backup, unrelated, expected, over, second>>,
           excused \subseteq excused', Holding(a) # {} => a \in excused',
           Is(c, {"restore"}) \/ copy'[c] = file[a],
           a \notin excused' /\ Is(c, {"restore"}) => Good(a, copy'[c]),
           pc'[c] = "truncate" => ~Is(c, {"init", "refresh"})
    PROVE  AgentsInv'
  <1>1. \A b \in Agents \ {a} : c \notin Holding(b) /\ c \notin Holding(b)'
    BY DEF Holding
  <1>2. ASSUME a \notin excused'
        PROVE  AgentInv(a)'
    <2>1. Holding(a) = {} /\ a \notin excused
      BY <1>2
    <2>2. AgentInv(a)
      BY <2>1 DEF AgentsInv
    <2>3. Holding(a)' = {c}
      <3>1. \A d \in Commands \ {c} : d \notin Holding(a)'
        BY <2>1, HoldingStays DEF OnlyOf
      <3>2. Holding(a)' \subseteq Commands /\ c \in Holding(a)'
        BY DEF Holding
      <3>3. QED
        BY <3>1, <3>2
    <2>4. OneHolder(a)'
      BY <2>3 DEF OneHolder
    <2>5. CopyCurrent(a)'
      BY <2>3 DEF CopyCurrent, Is
    <2>6. Stored(a)'
      <3>1. Stored(a)
        BY <2>1, <2>2 DEF AgentInv, TheirsSomewhere, Filling
      <3>2. QED
        BY <3>1 DEF Stored, Held, Bare, Good, Earlier
    <2>10. Is(c, {"restore"}) => Good(a, copy[c])'
      BY <1>2 DEF Good
    <2>7. TheirsSomewhere(a)'
      BY <2>3, <2>6, <2>10 DEF TheirsSomewhere, Is
    <2>8. OwnKnown(a)'
      BY <2>2 DEF AgentInv, OwnKnown, OwnAs
    <2>9. QED
      BY <2>4, <2>5, <2>7, <2>8 DEF AgentInv
  <1>3. QED
    BY <1>1, <1>2, OtherAgents

\* readSettings: the command has the file as it is in memory, or ends.
LEMMA ReadSettingsAgents ==
    ASSUME TypeInv, TypeInv', Settled, AgentsInv, NEW c \in Commands, ReadSettings(c)
    PROVE  AgentsInv'
  <1>1. OnlyOf(c)
    BY StepsOfOne
  <1>2. PICK a \in Agents : a = Current(c)
    BY CurrentIs DEF TypeInv
  <1>3. PICK content : content = file[a]
    OBVIOUS
  <1>4. /\ pc[c] = "read"
        /\ UNCHANGED <<file, backup, unrelated, expected, over, second>>
    BY DEF ReadSettings, fileVars, FilesOnly
  <1>5. CASE ~Readable(content) \/ (Is(c, {"uninstall"}) /\ content.hooks = NoHooks)
    <2>1. excused' = excused
      BY <1>2, <1>3, <1>5 DEF ReadSettings
    <2>2. pc'[c] \in {"failed", "look", "read", "purge", "done"}
      BY <1>2, <1>3, <1>5 DEF ReadSettings, Goto, Advance, TypeInv, TypeOK
    <2>3. QED
      BY <1>1, <1>4, <2>1, <2>2, QuietStep
  <1>6. CASE Readable(content) /\ ~(Is(c, {"uninstall"}) /\ content.hooks = NoHooks)
    <2>1. /\ copy'[c] = content /\ todo' = todo
          /\ excused' = IF Holding(a) # {} THEN excused \union {a} ELSE excused
          /\ pc'[c] = IF Is(c, {"uninstall"}) THEN "truncate" ELSE "backup"
          /\ ~Is(c, {"restore"})
      BY <1>2, <1>3, <1>4, <1>6 DEF ReadSettings, Goto, Settled, SettledAt, Is, TypeInv, TypeOK
    <2>2. Current(c)' = a
      BY <1>2, <2>1, CurrentStays
    <2>3. pc'[c] = "truncate" => ~Is(c, {"init", "refresh"})
      BY <2>1 DEF Is
    <2>4. QED
      BY <1>1, <1>3, <1>4, <2>1, <2>2, <2>3, TakesFile
  <1>7. QED
    BY <1>5, <1>6

\* restoreBackup and MergeHooks take a file as they begin.
LEMMA StartsAgents ==
    ASSUME TypeInv, TypeInv', Settled, AgentsInv, NEW c \in Commands,
           StartRestore(c) \/ StartMerge(c)
    PROVE  AgentsInv'
  <1>1. OnlyOf(c)
    BY StepsOfOne
  <1>2. PICK a \in Agents : a = IF StartRestore(c) THEN "claude-code" ELSE "codex"
    BY DEF Agents
  <1>3. /\ pc[c] = "idle"
        /\ UNCHANGED <<file, backup, unrelated, expected, over, second>>
    BY DEF StartRestore, StartMerge, fileVars, FilesOnly
  <1>4. CASE pc'[c] = "failed"
    <2>1. excused \subseteq excused'
      BY DEF StartRestore, StartMerge
    <2>2. QED
      BY <1>1, <1>3, <1>4, <2>1, QuietStep
  <1>5. CASE pc'[c] # "failed"
    <2>1. /\ todo'[c] = {a}
          /\ excused \subseteq excused' /\ (Holding(a) # {} => a \in excused')
          /\ Is(c, {"restore"}) \/ copy'[c] = file[a]
          /\ a \notin excused' /\ Is(c, {"restore"}) => Good(a, copy'[c])
          /\ pc'[c] \in {"truncate", "merge"} /\ (pc'[c] = "truncate" => Is(c, {"restore"}))
      <3>1. CASE StartRestore(c)
        <4>1. a = "claude-code"
          BY <1>2, <3>1
        <4>2. todo' = [todo EXCEPT ![c] = {a}] /\ pc' = [pc EXCEPT ![c] = "truncate"]
          BY <1>5, <3>1, <4>1 DEF StartRestore, Goto, TypeInv, TypeOK
        <4>3. /\ excused' = IF Holding(a) # {} \/ ~WorthRestoring THEN excused \union {a} ELSE excused
              /\ copy' = [copy EXCEPT ![c] = Latest]
          BY <1>5, <3>1, <4>1 DEF StartRestore, Goto, TypeInv, TypeOK
        <4>4. Is(c, {"restore"})
          BY <3>1 DEF StartRestore
        <4>6. WorthRestoring => Good(a, Latest)
          BY <4>1 DEF WorthRestoring, Latest, Good
        <4>7. a \notin excused' => WorthRestoring
          BY <4>3
        <4>8. copy'[c] = Latest
          BY <4>3 DEF TypeInv, TypeOK
        <4>9. a \notin excused' => Good(a, copy'[c])
          BY <4>6, <4>7, <4>8
        <4>10. excused \subseteq excused' /\ (Holding(a) # {} => a \in excused')
          BY <4>3
        <4>5. QED
          BY <4>2, <4>4, <4>9, <4>10 DEF TypeInv, TypeOK
      <3>2. CASE StartMerge(c) /\ ~StartRestore(c)
        <4>1. a = "codex"
          BY <1>2, <3>2
        <4>2. /\ todo' = [todo EXCEPT ![c] = {a}] /\ pc' = [pc EXCEPT ![c] = "merge"]
              /\ copy' = [copy EXCEPT ![c] = file[a]]
          BY <1>5, <3>2, <4>1 DEF StartMerge, Goto, TypeInv, TypeOK
        <4>3. excused' = IF Holding(a) # {} THEN excused \union {a} ELSE excused
          BY <1>5, <3>2, <4>1 DEF StartMerge, Goto, TypeInv, TypeOK
        <4>4. ~Is(c, {"restore"})
          BY <3>2 DEF StartMerge, Is
        <4>5. QED
          BY <4>2, <4>3, <4>4 DEF TypeInv, TypeOK
      <3>3. QED
        BY <3>1, <3>2
    <2>2. Current(c)' = a
      BY <1>2, <2>1 DEF Current
    <2>3. pc'[c] = "truncate" => ~Is(c, {"init", "refresh"})
      BY <2>1 DEF Is
    <2>4. QED
      BY <1>1, <1>3, <2>1, <2>2, <2>3, TakesFile
  <1>6. QED
    BY <1>4, <1>5

\* In a file that is not there, or empty, there are no handlers.
LEMMA NothingThere ==
    ASSUME NEW a, NEW content \in Content, content.state \in {"absent", "empty"}
    PROVE  Good(a, content) <=> Good(a, Empty)
  BY DEF Good, Content, Empty

\* backupSettings and backupCodexHooks: then the others' handlers are in a backup.
LEMMA BackupAgents ==
    ASSUME TypeInv, TypeInv', Settled, AgentsInv, NEW c \in Commands, Backup(c)
    PROVE  AgentsInv'
  <1>1. OnlyOf(c)
    BY StepsOfOne
  <1>2. PICK a \in Agents : a = Current(c)
    BY CurrentIs DEF TypeInv
  <1>3. /\ pc[c] = "backup" /\ pc'[c] = "truncate" /\ todo' = todo /\ copy' = copy /\ over' = over
        /\ UNCHANGED <<file, unrelated, expected, second>>
    BY DEF Backup, Goto, TypeInv, TypeOK, localVars, FilesOnly
  <1>4. /\ backup' = IF file[a].state = "absent" THEN backup
                     ELSE [backup EXCEPT ![a][second] = file[a]]
        /\ excused' = IF Clash(a) THEN excused \union {a} ELSE excused
    BY <1>2 DEF Backup
  <1>5. Current(c)' = a
    BY <1>2, <1>3, CurrentStays
  <1>6. \A b \in Agents \ {a} : /\ c \notin Holding(b) /\ c \notin Holding(b)'
                                /\ backup'[b] = backup[b]
    BY <1>2, <1>4, <1>5 DEF Holding, TypeInv, TypeOK
  <1>7. ASSUME a \notin excused'
        PROVE  AgentInv(a)'
    <2>1. a \notin excused /\ (backup[a][second] = Absent \/ file[a].state = "whole")
      BY <1>4, <1>7 DEF Clash
    <2>2. OneHolder(a) /\ CopyCurrent(a) /\ TheirsSomewhere(a) /\ OwnKnown(a)
      BY <2>1 DEF AgentsInv, AgentInv
    <2>3. c \in Holding(a)
      BY <1>2, <1>3 DEF Holding
    <2>4. Holding(a) = {c}
      BY <2>2, <2>3 DEF OneHolder
    <2>5. Holding(a)' = {c}
      <3>1. \A d \in Commands \ {c} : d \notin Holding(a)'
        BY <1>1, <2>4, HoldingStays DEF OnlyOf
      <3>2. Holding(a)' \subseteq Commands /\ c \in Holding(a)'
        BY <1>3, <1>5 DEF Holding
      <3>3. QED
        BY <3>1, <3>2
    <2>6. /\ Is(c, {"init", "refresh"}) /\ ~Is(c, {"uninstall"}) /\ ~Is(c, {"restore"})
          /\ Readable(copy[c])
      BY <1>3 DEF Settled, SettledAt, Is
    <2>7. copy[c] = file[a]
      BY <1>3, <2>2, <2>3, <2>6 DEF CopyCurrent
    <2>8. file[a] \in Content /\ second \in Seconds /\ backup[a] \in [Seconds -> Content]
      BY DEF TypeInv, TypeOK
    <2>9. file[a].state \in {"absent", "empty", "whole"}
      BY <2>6, <2>7, <2>8 DEF Readable, Content
    <2>10. Filling(a) = {}
      BY <1>3, <2>4 DEF Filling
    <2>11. Held(a, file[a])
      <3>1. Stored(a)
        BY <2>2, <2>10 DEF TheirsSomewhere
      <3>2. Good(a, backup[a][second]) /\ file[a].state # "whole" => Good(a, file[a])
        <4>1. ASSUME Good(a, backup[a][second]), file[a].state # "whole" PROVE Good(a, file[a])
          <5>1. Good(a, Absent)
            BY <2>1, <4>1
          <5>2. Good(a, Empty)
            BY <5>1 DEF Good, Absent, Empty
          <5>3. QED
            BY <2>8, <2>9, <4>1, <5>2, NothingThere
        <4>2. QED
          BY <4>1
      <3>3. QED
        BY <3>1, <3>2 DEF Stored, Held
    <2>12. Earlier(a) => Earlier(a)'
      <3>1. \A s \in Seconds : s < second => backup'[a][s] = backup[a][s]
        BY <1>4, <2>8 DEF TypeInv, TypeOK, Seconds
      <3>2. QED
        BY <1>3, <3>1 DEF Earlier, Good
    <2>13. Good(a, file[a]) => Good(a, file[a])'
      BY <1>3 DEF Good
    <2>14. (Good(a, Empty) \/ \E s \in Seconds : Good(a, backup[a][s]))'
      <3>1. CASE Earlier(a)
        BY <2>12, <3>1 DEF Earlier
      <3>2. CASE Good(a, file[a]) /\ file[a].state = "absent"
        <4>1. Good(a, Empty)
          BY <2>8, <3>2, NothingThere
        <4>2. QED
          BY <1>3, <4>1 DEF Good, Empty
      <3>3. CASE Good(a, file[a]) /\ file[a].state # "absent"
        <4>1. backup'[a][second] = file[a]
          BY <1>4, <2>8, <3>3 DEF TypeInv, TypeOK
        <4>2. TheirPart(backup'[a][second].hooks) = unrelated'[a]
          BY <1>3, <3>3, <4>1 DEF Good
        <4>3. QED
          BY <2>8, <4>2 DEF Good
      <3>4. QED
        BY <2>11, <3>1, <3>2, <3>3 DEF Held
    <2>15. Held(a, file[a])'
      <3>1. Bare(file[a]) => Bare(file[a])'
        BY <1>3 DEF Bare
      <3>2. QED
        BY <2>11, <2>12, <2>13, <3>1 DEF Held
    <2>22. Held(a, copy[c])'
      <3>1. copy'[c] = file'[a]
        BY <1>3, <2>7
      <3>2. QED
        BY <2>15, <3>1 DEF Held, Good, Bare
    <2>16. Stored(a)'
      BY <2>15 DEF Stored
    <2>17. TheirsSomewhere(a)'
      <3>1. pc'[c] # "fill"
        BY <1>3
      <3>2. QED
        BY <2>5, <2>6, <2>14, <2>16, <2>22, <3>1 DEF TheirsSomewhere, Is
    <2>18. OneHolder(a)'
      BY <2>5 DEF OneHolder
    <2>19. CopyCurrent(a)'
      BY <1>3, <2>5, <2>7 DEF CopyCurrent
    <2>20. OwnKnown(a)'
      BY <1>3, <2>2 DEF OwnKnown, OwnAs
    <2>21. QED
      BY <2>17, <2>18, <2>19, <2>20 DEF AgentInv
  <1>8. QED
    <2>1. excused \ {a} \subseteq excused'
      BY <1>4
    <2>2. QED
      BY <1>1, <1>3, <1>6, <1>7, <2>1, OtherAgents

\* os.WriteFile, up to the write: the others' handlers are in memory and in a backup.
LEMMA TruncateAgents ==
    ASSUME TypeInv, TypeInv', Settled, AgentsInv, NEW c \in Commands, Truncate(c)
    PROVE  AgentsInv'
  <1>1. OnlyOf(c)
    BY StepsOfOne
  <1>2. PICK a \in Agents : a = Current(c)
    BY CurrentIs DEF TypeInv
  <1>3. /\ pc[c] = "truncate" /\ pc'[c] = "fill" /\ todo' = todo /\ copy' = copy
        /\ over' = [over EXCEPT ![c] = "no"] /\ file' = [file EXCEPT ![a] = Empty]
        /\ UNCHANGED <<backup, unrelated, expected, excused, second>>
    BY <1>2 DEF Truncate, Goto, TypeInv, TypeOK, ghostVars, FilesOnly
  <1>4. Current(c)' = a
    BY <1>2, <1>3, CurrentStays
  <1>5. file'[a] = Empty /\ over'[c] = "no" /\ \A d \in Commands : over'[d] \in {over[d], "no"}
    BY <1>3 DEF TypeInv, TypeOK
  <1>6. \A b \in Agents \ {a} : /\ c \notin Holding(b) /\ c \notin Holding(b)'
                                /\ file'[b] = file[b]
                                /\ \A d \in Holding(b) : over'[d] \in {over[d], "no"}
    BY <1>2, <1>3, <1>4, <1>5 DEF Holding, TypeInv, TypeOK
  <1>7. ASSUME a \notin excused'
        PROVE  AgentInv(a)'
    <2>1. OneHolder(a) /\ CopyCurrent(a) /\ TheirsSomewhere(a) /\ OwnKnown(a)
      BY <1>3, <1>7 DEF AgentsInv, AgentInv
    <2>2. c \in Holding(a)
      BY <1>2, <1>3 DEF Holding
    <2>3. Holding(a) = {c}
      BY <2>1, <2>2 DEF OneHolder
    <2>4. Holding(a)' = {c}
      <3>1. \A d \in Commands \ {c} : d \notin Holding(a)'
        BY <1>1, <2>3, HoldingStays DEF OnlyOf
      <3>2. Holding(a)' \subseteq Commands /\ c \in Holding(a)'
        BY <1>3, <1>4 DEF Holding
      <3>3. QED
        BY <3>1, <3>2
    <2>5. Filling(a) = {} /\ Filling(a)' # {}
      BY <1>3, <2>3, <2>4 DEF Filling
    <2>6. Stored(a)
      BY <2>1, <2>5 DEF TheirsSomewhere
    <2>7. Is(c, {"uninstall"}) => Held(a, copy[c])
      <3>1. ASSUME Is(c, {"uninstall"}) PROVE Held(a, copy[c])
        <4>1. copy[c].state = "whole"
          BY <1>3, <3>1 DEF Settled, SettledAt
        <4>2. copy[c] = file[a]
          BY <1>3, <2>1, <2>2, <3>1 DEF CopyCurrent, Is
        <4>3. QED
          BY <2>6, <4>1, <4>2 DEF Stored
      <3>2. QED
        BY <3>1
    <2>8. Is(c, {"init", "refresh"}) =>
            /\ Good(a, Empty) \/ \E s \in Seconds : Good(a, backup[a][s])
            /\ Held(a, copy[c])
      BY <1>3, <2>1, <2>2 DEF TheirsSomewhere
    <2>15. Is(c, {"restore"}) => Good(a, copy[c])
      BY <1>3, <2>1, <2>2 DEF TheirsSomewhere
    <2>9. /\ Good(a, copy[c])' <=> Good(a, copy[c])
          /\ Good(a, Empty)' <=> Good(a, Empty)
          /\ Held(a, copy[c])' <=> Held(a, copy[c])
          /\ (\E s \in Seconds : Good(a, backup[a][s]))' <=> \E s \in Seconds : Good(a, backup[a][s])
      BY <1>3 DEF Good, Held, Bare, Earlier, Empty
    <2>10. TheirsSomewhere(a)'
      BY <2>4, <2>5, <2>7, <2>8, <2>9, <2>15 DEF TheirsSomewhere, Is
    <2>11. OneHolder(a)'
      BY <2>4 DEF OneHolder
    <2>12. CopyCurrent(a)'
      BY <1>3, <1>5, <2>4 DEF CopyCurrent, Empty
    <2>13. OwnKnown(a)'
      BY <1>5 DEF OwnKnown, Empty
    <2>14. QED
      BY <2>10, <2>11, <2>12, <2>13 DEF AgentInv
  <1>8. QED
    <2>1. excused \ {a} \subseteq excused'
      BY <1>3
    <2>2. QED
      BY <1>1, <1>3, <1>6, <1>7, <2>1, OtherAgents

\* Whom a write concerns.
LEMMA OverwriteOthers ==
    ASSUME TypeInv, NEW c, NEW a, NEW how, Overwrite(c, a, how), NEW b, b # a
    PROVE  \A d \in Holding(b) : over'[d] \in {over[d], "no"}
  BY DEF Overwrite, Holding, TypeInv, TypeOK

\* os.WriteFile, the write: nobody else is about to write the file.
LEMMA FillAgents ==
    ASSUME TypeInv, TypeInv', Settled, AgentsInv, NEW c \in Commands, Fill(c)
    PROVE  AgentsInv'
  <1>1. OnlyOf(c)
    BY StepsOfOne
  <1>2. PICK a \in Agents : a = Current(c)
    BY CurrentIs DEF TypeInv
  <1>3. PICK w \in Content : w = Written(c)
    BY WrittenTyped DEF TypeInv
  <1>4. /\ pc[c] = "fill" /\ pc'[c] \in {"read", "look", "purge", "done"}
        /\ UNCHANGED <<backup, excused, second, unrelated>>
    BY DEF Fill, Advance, Goto, TypeInv, TypeOK, FilesOnly
  <1>5. /\ over[c] = "no" => file' = [file EXCEPT ![a] = w]
        /\ \A b \in Agents \ {a} : file'[b] = file[b]
    BY <1>2, <1>3 DEF Fill, TypeInv, TypeOK
  <1>6. \A b \in Agents \ {a} : unrelated'[b] = unrelated[b] /\ expected'[b] = expected[b]
    BY <1>2, <1>4 DEF Fill, TypeInv, TypeOK
  <1>7. \A b \in Agents \ {a} : \A d \in Holding(b) : over'[d] \in {over[d], "no"}
    BY <1>2, OverwriteOthers DEF Fill
  <1>8. \A b \in Agents : c \notin Holding(b)' /\ (b # a => c \notin Holding(b))
    BY <1>2, <1>4 DEF Holding
  <1>9. ASSUME a \notin excused'
        PROVE  AgentInv(a)'
    <2>1. OneHolder(a) /\ CopyCurrent(a) /\ TheirsSomewhere(a) /\ OwnKnown(a)
      BY <1>4, <1>9 DEF AgentsInv, AgentInv
    <2>2. c \in Holding(a)
      BY <1>2, <1>4 DEF Holding
    <2>3. Holding(a)' = {}
      BY <1>1, <1>8, <2>1, <2>2, NobodyLeft
    <2>4. over[c] = "no"
      BY <1>4, <2>1, <2>2 DEF CopyCurrent
    <2>5. file'[a] = w
      BY <1>5, <2>4 DEF TypeInv, TypeOK
    <2>6. Is(c, {"init", "refresh", "uninstall", "restore"})
      BY <1>4 DEF Settled, SettledAt
    <2>7. PICK h \in Hooks : h = copy[c].hooks
      BY ContentsAre DEF TypeInv, TypeOK
    <2>8. PICK bin \in Binaries : bin = Wanted[c].binary
      BY HooksAssumption DEF Command
    <2>9. CASE Is(c, {"restore"})
      <3>1. w = copy[c]
        BY <1>3, <2>9 DEF Written, Is
      <3>2. expected'[a] = Unknown
        BY <1>2, <2>9 DEF Fill, Is, TypeInv, TypeOK
      <3>6. Good(a, copy[c])
        BY <1>4, <2>1, <2>2, <2>9 DEF TheirsSomewhere
      <3>3. Good(a, file[a])'
        BY <1>4, <2>5, <3>1, <3>6 DEF Good
      <3>4. OwnKnown(a)'
        BY <3>2 DEF OwnKnown
      <3>5. QED
        BY <2>3, <3>3, <3>4, FreeFile DEF Stored, Held
    <2>10. CASE ~Is(c, {"restore"})
      <3>1. unrelated'[a] = unrelated[a]
        BY <1>4
      <3>2. Held(a, copy[c])
        BY <1>4, <2>1, <2>2, <2>6, <2>10 DEF TheirsSomewhere, Is
      <3>3. /\ w.state = "whole" /\ TheirPart(w.hooks) = TheirPart(h)
            /\ OwnAs(a, w.hooks, expected'[a])
        <4>1. CASE Is(c, {"uninstall"})
          <5>1. w = Whole(Removed(a, h)) /\ expected'[a] = None
            BY <1>2, <1>3, <2>7, <2>10, <4>1 DEF Written, Fill, TypeInv, TypeOK
          <5>2. TheirPart(Removed(a, h)) = TheirPart(h) /\ OwnAs(a, Removed(a, h), None)
            BY <2>8, TheirsKept, OwnWritten
          <5>3. QED
            BY <5>1, <5>2 DEF Whole
        <4>2. CASE ~Is(c, {"uninstall"})
          <5>1. w = Whole(Installed(a, h, bin)) /\ expected'[a] = bin
            BY <1>2, <1>3, <2>7, <2>8, <2>10, <4>2 DEF Written, Fill, TypeInv, TypeOK
          <5>2. TheirPart(Installed(a, h, bin)) = TheirPart(h) /\ OwnAs(a, Installed(a, h, bin), bin)
            BY <2>8, TheirsKept, OwnWritten
          <5>3. QED
            BY <5>1, <5>2 DEF Whole
        <4>3. QED
          BY <4>1, <4>2
      <3>4. Good(a, copy[c]) => Good(a, file[a])'
        BY <2>5, <2>7, <3>1, <3>3 DEF Good
      <3>5. Earlier(a) => Earlier(a)'
        BY <1>4, <3>1 DEF Earlier, Good
      <3>9. Bare(copy[c]) => Bare(file[a])'
        BY <2>5, <2>7, <3>3 DEF Bare
      <3>6. Stored(a)'
        BY <3>2, <3>4, <3>5, <3>9 DEF Stored, Held
      <3>7. OwnKnown(a)'
        BY <2>5, <3>3 DEF OwnKnown, OwnAs
      <3>8. QED
        BY <2>3, <3>6, <3>7, FreeFile
    <2>11. QED
      BY <2>9, <2>10
  <1>10. QED
    BY <1>1, <1>4, <1>5, <1>6, <1>7, <1>8, <1>9, OtherAgents

\* MergeHooks: the observer's handler is added to what the file has.
LEMMA MergeAgents ==
    ASSUME TypeInv, TypeInv', Settled, AgentsInv, NEW c \in Commands, Merge(c)
    PROVE  AgentsInv'
  <1>1. OnlyOf(c)
    BY StepsOfOne
  <1>2. PICK a \in Agents : a = "codex"
    BY DEF Agents
  <1>3. /\ pc[c] = "merge" /\ pc'[c] \in {"read", "look", "purge", "done"}
        /\ UNCHANGED <<backup, expected, second>> /\ excused \subseteq excused'
    BY DEF Merge, Advance, Goto, TypeInv, TypeOK, FilesOnly
  <1>4. /\ todo[c] = {"codex"} /\ ~Is(c, {"restore"}) /\ copy[c].state \in {"absent", "whole"}
    BY <1>3 DEF Settled, SettledAt, Is
  <1>5. Current(c) = a
    BY <1>2, <1>4 DEF Current
  <1>6. PICK h \in Hooks : h = copy[c].hooks
    BY ContentsAre DEF TypeInv, TypeOK
  <1>7. /\ file' = [file EXCEPT ![a] = Whole(Merged(h))]
        /\ unrelated' = [unrelated EXCEPT ![a] = WithObserver(unrelated[a], h)]
        /\ TheirPart(h) # unrelated[a] => a \in excused'
    BY <1>2, <1>6 DEF Merge
  <1>8. \A b \in Agents \ {a} :
          /\ file'[b] = file[b] /\ unrelated'[b] = unrelated[b]
          /\ \A d \in Holding(b) : over'[d] \in {over[d], "no"}
    <2>1. \A b \in Agents \ {a} : file'[b] = file[b] /\ unrelated'[b] = unrelated[b]
      BY <1>7 DEF TypeInv, TypeOK
    <2>2. Overwrite(c, a, "replaced")
      BY <1>2 DEF Merge
    <2>3. QED
      BY <2>1, <2>2, OverwriteOthers
  <1>9. \A b \in Agents : c \notin Holding(b)' /\ (b # a => c \notin Holding(b))
    BY <1>3, <1>5 DEF Holding
  <1>10. ASSUME a \notin excused'
         PROVE  AgentInv(a)'
    <2>1. OneHolder(a) /\ CopyCurrent(a) /\ OwnKnown(a)
      BY <1>3, <1>10 DEF AgentsInv, AgentInv
    <2>2. c \in Holding(a)
      BY <1>3, <1>5 DEF Holding
    <2>3. Holding(a)' = {}
      BY <1>1, <1>9, <2>1, <2>2, NobodyLeft
    <2>4. copy[c] = file[a]
      BY <1>3, <1>4, <2>1, <2>2 DEF CopyCurrent
    <2>5. file'[a] = Whole(Merged(h)) /\ unrelated'[a] = WithObserver(unrelated[a], h)
      BY <1>7 DEF TypeInv, TypeOK
    <2>6. Stored(a)'
      <3>1. TheirPart(h) = unrelated[a]
        BY <1>7, <1>10
      <3>2. TheirPart(Merged(h)) = unrelated'[a]
        BY <2>5, <3>1, TheirsMerged
      <3>3. QED
        BY <2>5, <3>2 DEF Stored, Held, Good, Whole
    <2>7. expected[a] # Unknown => OwnAs(a, Merged(h), expected[a])
      <3>1. ASSUME expected[a] # Unknown PROVE OwnAs(a, Merged(h), expected[a])
        <4>1. file[a].state = "whole"
          BY <1>4, <2>1, <2>4, <3>1 DEF OwnKnown
        <4>2. OwnAs(a, h, expected[a])
          BY <1>6, <2>1, <2>4, <3>1, <4>1 DEF OwnKnown
        <4>3. QED
          BY <4>2, OwnMerged
      <3>2. QED
        BY <3>1
    <2>8. OwnKnown(a)'
      <3>1. file'[a].state = "whole" /\ file'[a].hooks = Merged(h) /\ expected'[a] = expected[a]
        BY <1>3, <2>5 DEF Whole
      <3>2. QED
        BY <2>7, <3>1 DEF OwnKnown, OwnAs
    <2>9. QED
      BY <2>3, <2>6, <2>8, FreeFile
  <1>11. QED
    <2>1. excused \ {a} \subseteq excused'
      BY <1>3
    <2>2. QED
      BY <1>1, <1>3, <1>8, <1>9, <1>10, <2>1, OtherAgents

\* uninstall --purge: files that would need a backup are excused.
LEMMA PurgeAgents ==
    ASSUME TypeInv, TypeInv', AgentsInv, NEW c \in Commands, Purge(c)
    PROVE  AgentsInv'
  <1>1. OnlyOf(c)
    BY StepsOfOne
  <1>2. /\ pc[c] = "purge" /\ pc'[c] = "done"
        /\ UNCHANGED <<file, unrelated, expected>>
        /\ excused' = excused
             \union {a \in Agents : TheirPart(file[a].hooks) # unrelated[a] \/ Holding(a) # {}}
    BY DEF Purge, Goto, TypeInv, TypeOK
  <1>3. ASSUME NEW a \in Agents, a \notin excused'
        PROVE  AgentInv(a)'
    <2>1. a \notin excused /\ Good(a, file[a]) /\ Holding(a) = {}
      BY <1>2, <1>3 DEF Good
    <2>2. Holding(a)' = {}
      <3>1. \A d \in Commands \ {c} : d \notin Holding(a)'
        BY <1>1, <2>1, HoldingStays DEF OnlyOf
      <3>2. Holding(a)' \subseteq Commands /\ c \notin Holding(a)'
        BY <1>2 DEF Holding
      <3>3. QED
        BY <3>1, <3>2
    <2>3. Stored(a)'
      BY <1>2, <2>1 DEF Stored, Held, Good
    <2>4. OwnKnown(a)'
      BY <1>2, <2>1 DEF AgentsInv, AgentInv, OwnKnown, OwnAs
    <2>5. QED
      BY <2>2, <2>3, <2>4, FreeFile
  <1>4. QED
    BY <1>3 DEF AgentsInv

\* A kill: what was truncated is in a backup, unless the file is excused.
LEMMA KillAgents ==
    ASSUME TypeInv, TypeInv', Settled, NoneAhead, AgentsInv, NEW c \in Commands, Kill(c)
    PROVE  AgentsInv'
  <1>1. OnlyOf(c)
    BY StepsOfOne
  <1>2. PICK a \in Agents : a = Current(c)
    BY CurrentIs DEF TypeInv
  <1>3. /\ pc'[c] = "killed" /\ excused \subseteq excused'
        /\ pc[c] = "fill" /\ Is(c, {"uninstall", "restore"}) => a \in excused'
        /\ UNCHANGED <<file, unrelated, expected, second>>
        /\ over' = [over EXCEPT ![c] = "no"]
    BY <1>2 DEF Kill, Goto, TypeInv, TypeOK
  <1>4. \/ backup' = backup
        \/ /\ pc[c] = "backup" /\ (backup' # backup /\ Clash(a) => a \in excused')
           /\ backup' = [backup EXCEPT ![a][second] = Empty]
    BY <1>2 DEF Kill
  <1>5. \A b \in Agents \ {a} : backup'[b] = backup[b]
    BY <1>4 DEF TypeInv, TypeOK
  <1>6. \A b \in Agents : c \notin Holding(b)' /\ (b # a => c \notin Holding(b))
    BY <1>2, <1>3 DEF Holding
  <1>7. \A d \in Commands : over'[d] \in {over[d], "no"}
    BY <1>3 DEF TypeInv, TypeOK
  <1>8. ASSUME a \notin excused'
        PROVE  AgentInv(a)'
    <2>1. AgentInv(a) /\ OneHolder(a) /\ TheirsSomewhere(a) /\ OwnKnown(a)
      BY <1>3, <1>8 DEF AgentsInv, AgentInv
    <2>2. CASE c \notin Holding(a)
      <3>1. pc[c] # "backup"
        BY <1>2, <2>2 DEF Holding
      <3>2. \A d \in Holding(a) : over'[d] \in {over[d], "no"}
        BY <1>7 DEF Holding
      <3>3. backup'[a] = backup[a]
        BY <1>4, <3>1
      <3>4. AgentSame(a)
        BY <1>1, <1>3, <1>6, <2>2, <3>2, <3>3, AgentElsewhere
      <3>5. QED
        BY <2>1, <3>4, AgentFrame
    <2>3. CASE c \in Holding(a)
      <3>1. Holding(a)' = {}
        BY <1>1, <1>6, <2>1, <2>3, NobodyLeft
      <3>2. \A t \in Seconds : t # second => backup'[a][t] = backup[a][t]
        BY <1>4 DEF TypeInv, TypeOK
      <3>3. /\ Earlier(a) => Earlier(a)'
            /\ Good(a, file[a]) => Good(a, file[a])'
            /\ Bare(file[a]) => Bare(file[a])'
        <4>1. \A t \in Seconds : t < second => t # second
          BY DEF TypeInv, TypeOK, Seconds
        <4>2. QED
          BY <1>3, <3>2, <4>1 DEF Earlier, Good, Bare
      <3>4. second \in Seconds
        BY DEF TypeInv, TypeOK
      <3>9. Held(a, file[a]) => Held(a, file[a])'
        BY <3>3 DEF Held
      <3>5. Stored(a) => Stored(a)'
        <4>1. CASE backup' = backup
          BY <1>3, <3>3, <3>9, <4>1 DEF Stored, Good
        <4>2. CASE backup' # backup
          <5>1. backup[a][second] = Absent \/ file[a].state = "whole"
            BY <1>4, <1>8, <4>2 DEF Clash
          <5>2. backup'[a][second] = Empty
            BY <1>4, <3>4, <4>2 DEF TypeInv, TypeOK
          <5>3. backup[a][second] = Absent /\ Good(a, backup[a][second]) =>
                  Good(a, backup[a][second])'
            BY <1>3, <5>2 DEF Good, Absent, Empty
          <5>4. QED
            BY <1>3, <3>3, <3>9, <5>1, <5>3 DEF Stored
        <4>3. QED
          BY <4>1, <4>2
      <3>6. Stored(a)
        <4>1. CASE pc[c] # "fill"
          <5>1. \A d \in Holding(a) : d = c
            BY <2>1, <2>3 DEF OneHolder
          <5>2. Filling(a) = {}
            BY <4>1, <5>1 DEF Filling
          <5>3. QED
            BY <2>1, <5>2 DEF TheirsSomewhere
        <4>2. CASE pc[c] = "fill"
          <5>1. Is(c, {"init", "refresh"})
            BY <1>3, <1>8, <4>2 DEF Settled, SettledAt, Is
          <5>2. Good(a, Empty) \/ \E s \in Seconds : Good(a, backup[a][s])
            BY <2>1, <2>3, <4>2, <5>1 DEF TheirsSomewhere
          <5>3. file[a] = Empty
            BY <2>1, <2>3, <4>2 DEF AgentInv, CopyCurrent
          <5>7. Bare(file[a])
            BY <5>3, NobodysPart DEF Bare, Empty
          <5>4. CASE Good(a, Empty)
            BY <5>3, <5>4 DEF Stored, Held
          <5>5. CASE \E s \in Seconds : Good(a, backup[a][s])
            <6>1. PICK s \in Seconds : Good(a, backup[a][s])
              BY <5>5
            <6>2. CASE s < second
              BY <5>7, <6>1, <6>2 DEF Stored, Held, Earlier
            <6>3. CASE s = second
              BY <5>3, <5>7, <6>1, <6>3 DEF Stored, Empty
            <6>4. CASE s > second
              <7>1. backup[a][s] = Absent
                BY <6>4 DEF NoneAhead
              <7>2. Good(a, Empty)
                BY <6>1, <7>1 DEF Good, Absent, Empty
              <7>3. QED
                BY <5>4, <7>2
            <6>5. QED
              BY <3>4, <6>2, <6>3, <6>4 DEF Seconds
          <5>6. QED
            BY <5>2, <5>4, <5>5
        <4>3. QED
          BY <4>1, <4>2
      <3>7. OwnKnown(a)'
        BY <1>3, <2>1 DEF OwnKnown, OwnAs
      <3>8. QED
        BY <3>1, <3>5, <3>6, <3>7, FreeFile
    <2>4. QED
      BY <2>2, <2>3
  <1>9. QED
    <2>1. \A b \in Agents \ {a} : \A d \in Holding(b) : over'[d] \in {over[d], "no"}
      BY <1>7 DEF Holding
    <2>2. excused \ {a} \subseteq excused'
      BY <1>3
    <2>3. QED
      BY <1>1, <1>3, <1>5, <1>6, <1>8, <2>1, <2>2, OtherAgents

\* A backup of this second becomes one of an earlier second.
LEMMA TickAgents ==
    ASSUME TypeInv, AgentsInv, Tick
    PROVE  AgentsInv'
  <1>1. second' = second + 1 /\ second \in Nat
    BY HooksAssumption DEF Tick, TypeInv, TypeOK, Seconds
  <1>2. /\ UNCHANGED <<pc, todo, copy, over, file, backup, unrelated, expected, excused>>
    BY DEF Tick, fileVars, localVars, ghostVars
  <1>3. ASSUME NEW a \in Agents \ excused
        PROVE  AgentInv(a)'
    <2>1. OneHolder(a) /\ CopyCurrent(a) /\ TheirsSomewhere(a) /\ OwnKnown(a)
      BY DEF AgentsInv, AgentInv
    <2>2. Holding(a)' = Holding(a)
      BY <1>2 DEF Holding, Current
    <2>3. OneHolder(a)' /\ CopyCurrent(a)'
      BY <1>2, <2>1, <2>2 DEF OneHolder, CopyCurrent, Is
    <2>4. OwnKnown(a)'
      BY <1>2, <2>1 DEF OwnKnown, OwnAs
    <2>5. Filling(a)' = Filling(a)
      BY <1>2, <2>2 DEF Filling
    <2>6. \A s \in Seconds : s < second => s < second'
      BY <1>1 DEF Seconds
    <2>7. Earlier(a) => Earlier(a)'
      BY <1>2, <2>6 DEF Earlier, Good
    <2>8. Good(a, file[a]) => Good(a, file[a])'
      BY <1>2 DEF Good
    <2>14. /\ Bare(file[a]) => Bare(file[a])'
           /\ \A c \in Commands : Bare(copy[c]) => Bare(copy[c])'
      BY <1>2 DEF Bare
    <2>9. Good(a, backup[a][second]) => Earlier(a)'
      <3>1. second \in Seconds /\ second < second'
        BY <1>1 DEF TypeInv, TypeOK
      <3>2. QED
        BY <1>2, <3>1 DEF Earlier, Good
    <2>10. Stored(a) => Stored(a)'
      BY <2>7, <2>8, <2>9, <2>14 DEF Stored, Held
    <2>11. /\ \A c \in Commands : Good(a, copy[c])' <=> Good(a, copy[c])
           /\ Good(a, Empty)' <=> Good(a, Empty)
           /\ \A s \in Seconds : Good(a, backup[a][s])' <=> Good(a, backup[a][s])
      BY <1>2 DEF Good, Empty
    <2>15. \A c \in Commands : Held(a, copy[c]) => Held(a, copy[c])'
      BY <2>7, <2>11, <2>14 DEF Held
    <2>12. TheirsSomewhere(a)'
      <3>1. \A c \in Holding(a) : c \in Commands /\ pc'[c] = pc[c]
        BY <1>2 DEF Holding
      <3>2. QED
        BY <2>1, <2>2, <2>5, <2>10, <2>11, <2>15, <3>1 DEF TheirsSomewhere, Is
    <2>13. QED
      BY <2>3, <2>4, <2>12 DEF AgentInv
  <1>4. QED
    BY <1>2, <1>3 DEF AgentsInv

\* A content that keeps our handlers as they are, where they were.
LEMMA UserAgents ==
    ASSUME TypeInv, AgentsInv, NEW a \in Agents, NEW content \in Content, UserSaves(a, content),
           file[a].state # "broken" \/ content.state = "whole",
           content.state \in {"whole", "broken"},
           \A b : OwnAs(a, file[a].hooks, b) => OwnAs(a, content.hooks, b)
    PROVE  AgentsInv'
  <1>1. /\ file' = [file EXCEPT ![a] = content]
        /\ unrelated' = [unrelated EXCEPT ![a] = TheirPart(content.hooks)]
        /\ excused' = IF Holding(a) # {} THEN excused \union {a} ELSE excused \ {a}
        /\ expected' = IF a \in excused \/ file[a].state = "empty"
                       THEN [expected EXCEPT ![a] = Unknown] ELSE expected
        /\ UNCHANGED <<backup, second, pc, todo, copy>>
    BY DEF UserSaves
  <1>2. \A b \in Agents : Holding(b)' = Holding(b)
    BY <1>1 DEF Holding, Current
  <1>3. ASSUME NEW b \in Agents \ {a}, b \notin excused'
        PROVE  AgentInv(b)'
    <2>1. b \notin excused
      BY <1>1, <1>3
    <2>2. AgentInv(b)
      BY <2>1 DEF AgentsInv
    <2>3. \A d \in Holding(b) : over'[d] \in {over[d], "no"}
      BY <1>3, OverwriteOthers DEF UserSaves
    <2>4. /\ file'[b] = file[b] /\ unrelated'[b] = unrelated[b] /\ expected'[b] = expected[b]
      BY <1>1 DEF TypeInv, TypeOK
    <2>5. AgentSame(b)
      BY <1>1, <1>2, <2>3, <2>4 DEF AgentSame
    <2>6. QED
      BY <2>2, <2>5, AgentFrame
  <1>4. ASSUME a \notin excused'
        PROVE  AgentInv(a)'
    <2>1. Holding(a)' = {}
      BY <1>1, <1>2, <1>4
    <2>2. file'[a] = content /\ unrelated'[a] = TheirPart(content.hooks)
      BY <1>1 DEF TypeInv, TypeOK
    <2>3. Stored(a)'
      BY <2>2 DEF Stored, Held, Good
    <2>4. OwnKnown(a)'
      <3>1. CASE a \in excused \/ file[a].state = "empty"
        <4>1. expected'[a] = Unknown
          BY <1>1, <3>1 DEF TypeInv, TypeOK
        <4>2. QED
          BY <4>1 DEF OwnKnown
      <3>2. CASE a \notin excused /\ file[a].state # "empty"
        <4>1. OwnKnown(a)
          BY <3>2 DEF AgentsInv, AgentInv
        <4>2. expected' = expected
          BY <1>1, <3>2
        <4>3. file[a].state \in {"absent", "whole", "broken"}
          BY <3>2 DEF TypeInv, TypeOK, Content
        <4>4. expected[a] # Unknown => OwnAs(a, content.hooks, expected[a])
          BY <4>1, <4>3 DEF OwnKnown
        <4>5. content.state # "absent"
          OBVIOUS
        <4>6. QED
          BY <2>2, <4>2, <4>4, <4>5 DEF OwnKnown, OwnAs
      <3>3. QED
        BY <3>1, <3>2
    <2>5. QED
      BY <2>1, <2>3, <2>4, FreeFile
  <1>5. QED
    BY <1>3, <1>4 DEF AgentsInv

\* Every step keeps what is known of the files.
LEMMA AgentsStep ==
    ASSUME TypeInv, TypeInv', Settled, NoneAhead, AgentsInv, [Next]_vars
    PROVE  AgentsInv'
  <1> USE DEF fileVars, localVars, ghostVars, FilesOnly
  <1>1. ASSUME UNCHANGED <<pc, todo, copy, over, file, backup, unrelated, expected, second, excused>>
        PROVE  AgentsInv'
    <2>1. \A a \in Agents : AgentSame(a)
      BY <1>1 DEF AgentSame, Holding, Current
    <2>2. QED
      BY <1>1, <2>1, AgentFrame DEF AgentsInv
  <1>2. ASSUME NEW c \in Commands, StartInit(c) \/ Select(c) \/ Decide(c) \/ StartBoth(c) \/ Look(c)
        PROVE  AgentsInv'
    <2>1. UNCHANGED <<file, backup, unrelated, expected, over, second, excused>>
      BY <1>2 DEF StartInit, Select, Decide, StartBoth, Look
    <2>2. /\ pc[c] \notin {"backup", "truncate", "fill", "merge"}
          /\ pc'[c] \notin {"backup", "truncate", "fill", "merge"}
      BY <1>2 DEF StartInit, Select, Decide, StartBoth, Look, Goto, Advance, TypeInv, TypeOK
    <2>3. QED
      BY <1>2, <2>1, <2>2, StepsOfOne, QuietStep
  <1>3. ASSUME NEW c \in Commands, ReadConfig(c) \/ TruncateConfig(c) \/ FillConfig(c)
        PROVE  AgentsInv'
    <2>1. UNCHANGED <<file, backup, unrelated, expected, over, second>> /\ excused \subseteq excused'
      BY <1>3 DEF ReadConfig, TruncateConfig, FillConfig
    <2>2. /\ pc[c] \notin {"backup", "truncate", "fill", "merge"}
          /\ pc'[c] \notin {"backup", "truncate", "fill", "merge"}
      BY <1>3 DEF ReadConfig, TruncateConfig, FillConfig, Goto, TypeInv, TypeOK
    <2>3. QED
      BY <1>3, <2>1, <2>2, StepsOfOne, QuietStep
  <1>4. ASSUME NEW a \in Edited, UserBreaks(a) \/ UserRepairs(a)
        PROVE  AgentsInv'
    <2>1. a \in Agents
      BY HooksAssumption
    <2>2. PICK old \in Content : old = file[a]
      BY <2>1 DEF TypeInv, TypeOK
    <2>3. CASE UserBreaks(a)
      <3>1. PICK new \in Content : new = [old EXCEPT !.state = "broken"]
        BY ContentsAre
      <3>2. /\ old.state = "whole" /\ UserSaves(a, new)
            /\ new.state = "broken" /\ new.hooks = old.hooks
        BY <2>2, <2>3, <3>1 DEF UserBreaks, Content
      <3>3. QED
        BY <2>1, <2>2, <3>2, UserAgents
    <2>4. CASE UserRepairs(a)
      <3>1. PICK new \in Content : new = [old EXCEPT !.state = "whole"]
        BY ContentsAre
      <3>2. /\ UserSaves(a, new) /\ new.state = "whole" /\ new.hooks = old.hooks
        BY <2>2, <2>4, <3>1 DEF UserRepairs, Content
      <3>3. QED
        BY <2>1, <2>2, <3>2, UserAgents
    <2>5. QED
      BY <1>4, <2>3, <2>4
  <1>5. ASSUME NEW a \in Edited, NEW e \in Events, NEW h \in Others, UserAdds(a, e, h)
        PROVE  AgentsInv'
    <2>1. TypeOK
      BY DEF TypeInv
    <2>2. PICK content \in Content :
            /\ UserSaves(a, content) /\ content.state = "whole" /\ a \in Agents
            /\ \A b : OwnAs(a, file[a].hooks, b) => OwnAs(a, content.hooks, b)
      BY <1>5, <2>1, UserAddsSaves
    <2>3. QED
      BY <2>2, UserAgents
  <1>6. ASSUME NEW e, NEW i, NEW j, UserDisables(e, i, j)
        PROVE  AgentsInv'
    BY <1>1, <1>6 DEF UserDisables
  <1>7. CASE UNCHANGED vars
    BY <1>1, <1>7 DEF vars
  <1>8. QED
    BY <1>2, <1>3, <1>4, <1>5, <1>6, <1>7, ReadSettingsAgents, StartsAgents, BackupAgents,
       TruncateAgents, FillAgents, MergeAgents, PurgeAgents, KillAgents, TickAgents DEF Next

-----------------------------------------------------------------------------
\* The theorems

\* The invariant holds of the files as they are found.
LEMMA InvInit ==
    ASSUME Init
    PROVE  Inv
  <1>1. file \in [Agents -> Content] /\ toml \in Config
    BY HooksAssumption DEF Init
  <1>2. PICK cs \in Issued : pc = [c \in Commands |-> IF c \in cs THEN "idle" ELSE "done"]
    BY DEF Init
  <1>3. \A a \in Agents : Holding(a) = {}
    BY <1>2 DEF Holding
  <1>4. HoldingConfig = {}
    BY <1>2 DEF HoldingConfig
  <1>5. TypeOK
    <2>1. 0 \in Seconds /\ 0 \in 0 .. MaxEdits /\ 0 \in 0 .. MaxKills
      BY HooksAssumption DEF Seconds
    <2>2. unrelated \in [Agents -> Hooks]
      <3>1. \A a \in Agents : TheirPart(file[a].hooks) \in Hooks
        BY <1>1, ContentsAre, TheirPartTyped
      <3>2. QED
        BY <3>1 DEF Init
    <2>3. rest \in [others : Seq(Line), parses : BOOLEAN]
      <3>1. PICK ls \in Seq(Line) : ls = toml.lines
        BY <1>1 DEF Config
      <3>2. OtherLines(ls) \in Seq(Line)
        <4>1. PICK O : O = Line \intersect Plain
          OBVIOUS
        <4>2. Filter(ls, Plain) \in Seq(O)
          BY <4>1, FilterType
        <4>3. O \subseteq Line
          BY <4>1
        <4>4. Filter(ls, Plain) \in Seq(Line)
          BY <4>2, <4>3
        <4>5. QED
          BY <4>4 DEF OtherLines, Plain
      <3>3. Parses(ls) \in BOOLEAN
        BY DEF Parses
      <3>4. rest = Rest(ls)
        BY <3>1 DEF Init
      <3>5. QED
        BY <3>2, <3>3, <3>4 DEF Rest
    <2>4. NoConfig \in Config
      BY DEF Config, NoConfig
    <2>5. pc \in [Commands -> {"idle", "done"}]
      BY <1>2
    <2>6. QED
      BY <1>1, <2>1, <2>2, <2>3, <2>4, <2>5, ContentsAre DEF Init, TypeOK
  <1>6. FeatureKnown /\ Settled
    BY <1>2 DEF Init, FeatureKnown, Settled, SettledAt
  <1>7. NoneAhead
    BY DEF Init, NoneAhead
  <1>8. AgentsInv
    <2>1. ASSUME NEW a \in Agents PROVE AgentInv(a)
      <3>1. OneHolder(a) /\ CopyCurrent(a)
        BY <1>3 DEF OneHolder, CopyCurrent
      <3>2. Good(a, file[a])
        BY DEF Init, Good
      <3>3. TheirsSomewhere(a)
        BY <1>3, <3>2 DEF TheirsSomewhere, Stored, Held
      <3>4. OwnKnown(a)
        BY DEF Init, OwnKnown
      <3>5. QED
        BY <3>1, <3>3, <3>4 DEF AgentInv
    <2>2. QED
      BY <2>1 DEF AgentsInv
  <1>9. RestHeld
    BY <1>4 DEF Init, RestHeld
  <1>10. QED
    BY <1>5, <1>6, <1>7, <1>8, <1>9 DEF Inv, TypeInv

\* Every step keeps it.
LEMMA InvStep ==
    ASSUME Inv, [Next]_vars
    PROVE  Inv'
  BY TypeStep, SettledStep, NoneAheadStep, AgentsStep, RestStep DEF Inv

\* It holds always.
LEMMA InvAlways == Spec => []Inv
  <1>1. Init => Inv
    BY InvInit
  <1>2. Inv /\ [Next]_vars => Inv'
    BY InvStep
  <1>3. QED
    BY <1>1, <1>2, PTL DEF Spec

\* The variables have their types, for any files and contents that init, hooks refresh,
\* uninstall, the observer and the user may leave.
THEOREM HooksTypes == Spec => []TypeOK
  <1>1. Inv => TypeOK
    BY DEF Inv, TypeInv
  <1>2. QED
    BY <1>1, InvAlways, PTL

\* No command, in whatever order they run and wherever they are killed, loses the
\* handlers of the user and of other tools in a file that is not excused: InstallHooks,
\* RemoveHooks and MergeHooks keep them, restoreBackup puts them back, and a file that was
\* truncated and not written has none, while a backup has them all.
THEOREM TheirsAreKept == Spec => []UnrelatedKept
  <1>1. ASSUME Inv
        PROVE  UnrelatedKept
    <2>1. SUFFICES ASSUME NEW a \in Agents \ excused
          PROVE  \/ Good(a, file[a])
                 \/ \E c \in Commands : pc[c] = "fill" /\ Current(c) = a
                 \/ Bare(file[a]) /\ \E s \in Seconds : Good(a, backup[a][s])
      BY DEF UnrelatedKept, Good, Bare
    <2>2. TheirsSomewhere(a) /\ second \in Seconds
      BY <1>1 DEF Inv, AgentsInv, AgentInv, TypeInv, TypeOK
    <2>3. CASE Filling(a) # {}
      BY <2>3 DEF Filling, Holding
    <2>4. CASE Filling(a) = {}
      <3>1. Stored(a)
        BY <2>2, <2>4 DEF TheirsSomewhere
      <3>2. QED
        BY <2>2, <3>1 DEF Stored, Held, Earlier
    <2>5. QED
      BY <2>3, <2>4
  <1>2. QED
    BY <1>1, InvAlways, PTL

\* Each event of a file has exactly the handler of ours that the last command to write
\* it has reported, and none after an uninstall.
THEOREM OwnIsAsReported == Spec => []OwnAsReported
  <1>1. ASSUME Inv
        PROVE  OwnAsReported
    <2>1. \A a \in Agents \ excused : OwnKnown(a)
      BY <1>1 DEF Inv, AgentsInv, AgentInv
    <2>2. QED
      BY <2>1 DEF OwnAsReported, OwnKnown, OwnAs
  <1>2. QED
    BY <1>1, InvAlways, PTL

\* setCodexFeature, however often and by however many commands, keeps the other lines of
\* config.toml in their order and a text that can be read as one, unless it is excused:
\* the table twice, a last line without an end, two writers at a time, or a killed one.
THEOREM ConfigIsKept == Spec => []ConfigKept
  <1>1. ASSUME Inv
        PROVE  ConfigKept
    BY <1>1 DEF Inv, RestHeld, ConfigKept
  <1>2. QED
    BY <1>1, InvAlways, PTL

\* What removeSecuardenEntries has left, it leaves, also with a group of ours added.
LEMMA RemoveEntriesTwice ==
    ASSUME NEW gs \in Seq(Group)
    PROVE  /\ RemoveEntries(RemoveEntries(gs)) = RemoveEntries(gs)
           /\ \A b \in Binaries : RemoveEntries(Append(RemoveEntries(gs), <<b>>)) = RemoveEntries(gs)
  <1> DEFINE G == {q \in Seq(Group) : RemoveEntries(RemoveEntries(q)) = RemoveEntries(q)}
  <1>1. <<>> \in G
    <2>1. <<Observer>> \in Group /\ <<>> \in Seq(Group)
      BY HooksAre
    <2>2. RemoveEntries(<<>>) = <<>>
      BY <2>1, RemoveEntriesAppend
    <2>3. QED
      BY <2>1, <2>2
  <1>2. ASSUME NEW q \in Seq(Group), NEW g \in Group, q \in G
        PROVE  Append(q, g) \in G
    <2>1. PICK r : r = RemoveEntries(q) /\ r \in Seq(Group) /\ RemoveEntries(r) = r
      BY <1>2, RemoveEntriesAppend
    <2>2. PICK t \in Group : t = Theirs(g) /\ Theirs(t) = t
      BY TheirsType
    <2>3. PICK s : s = RemoveEntries(Append(q, g))
      OBVIOUS
    <2>4. s = IF g = <<>> \/ t # <<>> THEN Append(r, t) ELSE r
      BY <2>1, <2>2, <2>3, RemoveEntriesAppend
    <2>5. RemoveEntries(Append(r, t)) = Append(r, t)
      BY <2>1, <2>2, RemoveEntriesAppend
    <2>6. RemoveEntries(s) = s
      BY <2>1, <2>4, <2>5
    <2>7. Append(q, g) \in Seq(Group)
      BY AppendIs
    <2>8. QED
      BY <2>3, <2>6, <2>7
  <1>3. \A q \in Seq(Group) : q \in G
    <2> HIDE DEF G
    <2>1. QED
      BY <1>1, <1>2, SeqInduct
  <1>4. ASSUME NEW b \in Binaries
        PROVE  RemoveEntries(Append(RemoveEntries(gs), <<b>>)) = RemoveEntries(gs)
    <2>1. PICK g \in Group : g = <<b>> /\ g # <<>> /\ Theirs(g) = <<>>
      <3>1. <<b>> \in Group /\ <<b>> \in Seq(Binaries) /\ <<b>> # <<>>
        BY HooksAre
      <3>2. QED
        BY <3>1, GoesIfOurs
    <2>2. PICK r : r = RemoveEntries(gs) /\ r \in Seq(Group)
      BY <2>1, RemoveEntriesAppend
    <2>3. RemoveEntries(Append(r, g)) = RemoveEntries(r)
      BY <2>1, <2>2, RemoveEntriesAppend
    <2>4. RemoveEntries(r) = r
      BY <1>3, <2>2
    <2>5. QED
      BY <2>1, <2>2, <2>3, <2>4
  <1>5. QED
    BY <1>3, <1>4

\* To install hooks over others of ours, of any binary, is to install them: InstallHooks
\* and InstallCodexHooks, run twice, or once by another build, leave what they leave when
\* run once.
THEOREM ReinstallIsInstall ==
    ASSUME NEW a \in Agents, NEW h \in Hooks, NEW b \in Binaries, NEW d \in Binaries
    PROVE  Installed(a, Installed(a, h, b), d) = Installed(a, h, d)
  <1>1. PICK k : k = Installed(a, h, b)
    OBVIOUS
  <1>2. ASSUME NEW e \in Events
        PROVE  Installed(a, k, d)[e] = Installed(a, h, d)[e]
    <2>1. h[e] \in Seq(Group)
      BY HooksAre
    <2>2. CASE e \in OurEvents[a]
      <3>1. k[e] = Append(RemoveEntries(h[e]), <<b>>)
        BY <1>1, <2>2 DEF Installed
      <3>2. RemoveEntries(k[e]) = RemoveEntries(h[e])
        BY <2>1, <3>1, RemoveEntriesTwice
      <3>3. QED
        BY <2>2, <3>2 DEF Installed
    <2>3. CASE e \notin OurEvents[a]
      BY <1>1, <2>3 DEF Installed
    <2>4. QED
      BY <2>2, <2>3
  <1>3. QED
    BY <1>1, <1>2 DEF Installed

\* RemoveHooks and RemoveCodexHooks leave what they would have left if nothing had been
\* installed, and a second removal finds nothing.
THEOREM UninstallUndoesInstall ==
    ASSUME NEW a \in Agents, NEW h \in Hooks, NEW b \in Binaries
    PROVE  /\ Removed(a, Installed(a, h, b)) = Removed(a, h)
           /\ Removed(a, Removed(a, h)) = Removed(a, h)
  <1>1. \A e \in Events : h[e] \in Seq(Group)
    BY HooksAre
  <1>2. ASSUME NEW e \in Events
        PROVE  Removed(a, Installed(a, h, b))[e] = Removed(a, h)[e]
    <2>1. CASE e \in OurEvents[a]
      <3>1. Installed(a, h, b)[e] = Append(RemoveEntries(h[e]), <<b>>)
        BY <2>1 DEF Installed
      <3>2. RemoveEntries(Installed(a, h, b)[e]) = RemoveEntries(h[e])
        BY <1>1, <3>1, RemoveEntriesTwice
      <3>3. QED
        BY <2>1, <3>2 DEF Removed
    <2>2. CASE e \notin OurEvents[a]
      BY <2>2 DEF Installed, Removed
    <2>3. QED
      BY <2>1, <2>2
  <1>3. ASSUME NEW e \in Events
        PROVE  Removed(a, Removed(a, h))[e] = Removed(a, h)[e]
    BY <1>1, RemoveEntriesTwice DEF Removed
  <1>4. QED
    BY <1>2, <1>3 DEF Removed

\* setCodexFeature turns the feature on in any text that can be read and is fit for it,
\* leaves one that can be read, and keeps its other lines in their order.
THEOREM SetFeatureEnables ==
    ASSUME NEW c \in Config, NEW f \in FeatureKeys, Parses(c.lines), ~Unfit(c, f)
    PROVE  /\ On(SetFeature(c, f).lines, f)
           /\ Parses(SetFeature(c, f).lines)
           /\ OtherLines(SetFeature(c, f).lines) = OtherLines(c.lines)
  <1>1. Keeps(c.lines, SetFeature(c, f).lines, f)
    BY SetFeatureKeeps
  <1>2. c.lines \in Seq(Line)
    BY DEF Config
  <1>3. \A g \in FeatureKeys : Once(SetFeature(c, f).lines, g)
    BY <1>1, <1>2, ParsesIs DEF Keeps
  <1>4. QED
    BY <1>1, <1>3, ParsesIs DEF Keeps
=============================================================================
