----------------------------- MODULE CLogProofs -----------------------------
(***************************************************************************)
(* Proofs about CLog, for every size of the ring, every set of faults, and *)
(* any number of calls, map changes and crashes.                           *)
(***************************************************************************)
EXTENDS CLog, SequenceTheorems, FiniteSetTheorems, WellFoundedInduction, TLAPS

-----------------------------------------------------------------------------
(* The inductive invariant, on the state s of a handler and the lines W on *)
(* their way                                                               *)

\* A file's lines, whether it exists or not, and all the lines there are.
On(d, p) == IF p \in DOMAIN d THEN d[p] ELSE <<>>
All(d, W) == {W[k] : k \in 1 .. Len(W)}
             \cup UNION {{d[p][i] : i \in 1 .. Len(d[p])} : p \in DOMAIN d}

Has(S, x) == \E i \in 1 .. Len(S) : S[i] = x
Precedes(S, x, y) == \E i, j \in 1 .. Len(S) : i < j /\ S[i] = x /\ S[j] = y

\* x will stand before y in their file.
Before(d, W, x, y) ==
  \/ Precedes(On(d, y.path), x, y)
  \/ Has(On(d, y.path), x) /\ Has(W, y)
  \/ Precedes(W, x, y) /\ x.path = y.path

IsDisk(d) ==
  /\ DOMAIN d \subseteq Files /\ IsFiniteSet(DOMAIN d)
  /\ \A p \in DOMAIN d : d[p] \in Seq(Entry) /\ \A i \in 1 .. Len(d[p]) : d[p][i].path = p

IsLogState(s) ==
  /\ DOMAIN s = {"log", "local", "chan", "disk", "tally"}
  /\ s.log \in [type : 0 .. 3, file : PerMaps \cup {NoFile}, found : BOOLEAN,
                errMap : BOOLEAN, async : BOOLEAN]
  /\ s.local \in [logging : Settings \cup {0, 1}, async : BOOLEAN]
  /\ s.chan \in [pending : Seq(Entry), drops : Nat, up : BOOLEAN]
  /\ Len(s.chan.pending) <= QCap
  /\ s.tally \in [sessions : Nat, issued : Nat, reported : Nat, alerts : Nat, destroyed : Nat,
                  mishaps : SUBSET {"writer", "create", "bypass"}]
  /\ IsDisk(s.disk)

\* Nothing is on its way without a writer, or once lines are written directly.
Idle(s, W) ==
  /\ ~s.chan.up => W = <<>>
  /\ "bypass" \notin s.tally.mishaps /\ ~s.log.async => W = <<>>

KindsFit(s, W) ==
  \A x \in All(s.disk, W) : /\ x.kind = "error" <=> x.path = Error
                            /\ x.kind \in {"closed", "header"} => x.path \in PerMaps

\* The per-map files that lines are on their way to exist, so that no name is
\* found free twice.
Created(s, W) ==
  "create" \notin s.tally.mishaps =>
    /\ s.log.file # NoFile => s.log.file \in DOMAIN s.disk
    /\ \A k \in 1 .. Len(W) : W[k].path \in PerMaps => W[k].path \in DOMAIN s.disk

Sessions(s, W) ==
  "create" \notin s.tally.mishaps =>
    /\ \A x \in All(s.disk, W) : x.path = s.log.file => x.session = s.tally.sessions
    /\ \A x, y \in All(s.disk, W) : x.path \in PerMaps /\ x.path = y.path => x.session = y.session

\* The file in use has no closing line yet.
Unclosed(s, W) ==
  "create" \notin s.tally.mishaps =>
    \A x \in All(s.disk, W) : x.path = s.log.file => x.kind # "closed"

InOrder(x, y) == x.n <= y.n /\ x.kind # "closed" /\ y.kind # "header"
Ordered(s, W) ==
  {"bypass", "create"} \cap s.tally.mishaps = {} =>
    \A x, y \in All(s.disk, W) : Before(s.disk, W, x, y) => InOrder(x, y)

\* Every error on disk is under a header of its map, and so is every error on its
\* way, where the header may be on its way, too.
Heads(x, m) == x.path = Error /\ x.head /\ x.map = m
HeaderIn(S, m) == \E i \in 1 .. Len(S) : Heads(S[i], m)
Covered(S) == \A j \in 1 .. Len(S) : \E i \in 1 .. j : Heads(S[i], S[j].map)
WillBeCovered(S, W) ==
  \A j \in 1 .. Len(W) : W[j].path = Error =>
     HeaderIn(S, W[j].map) \/ \E i \in 1 .. j : Heads(W[i], W[j].map)
Headed(s, W) ==
  "writer" \notin s.tally.mishaps =>
     Covered(On(s.disk, Error)) /\ WillBeCovered(On(s.disk, Error), W)

\* m_LoggedErrMap: map m's header is on disk, or on its way if lines still go there.
HeaderGiven(s, W, m) ==
  "writer" \notin s.tally.mishaps =>
     HeaderIn(On(s.disk, Error), m) \/ (s.log.async /\ HeaderIn(W, m))
Latched(s, W, m) == s.log.errMap => HeaderGiven(s, W, m)

Numbered(s, W, c) == \A x \in All(s.disk, W) : x.n <= c

\* What holds between any two steps of a handler, of the call numbered c.
Sound(s, W, c) ==
  /\ IsLogState(s) /\ W \in Seq(Entry)
  /\ Idle(s, W) /\ KindsFit(s, W) /\ Created(s, W) /\ Sessions(s, W)
  /\ Ordered(s, W) /\ Headed(s, W) /\ Numbered(s, W, c)

\* The calls whose lines are kept, and all that accounts for a line.
Counted(x) == x.kind \in {"line", "error"}
Numbers(d, W) == {x.n : x \in {y \in All(d, W) : Counted(y)}}
Accounted(s, W) == Cardinality(Numbers(s.disk, W)) + s.chan.drops + s.tally.reported
                     + s.tally.alerts + s.tally.destroyed

IInv ==
  /\ TypeOK
  /\ Sound(State, Coming, calls) /\ Unclosed(State, Coming) /\ Latched(State, Coming, map)
  /\ \A x \in All(disk, Coming) : x.n < calls
  /\ tally.issued <= Accounted(State, Coming)

-----------------------------------------------------------------------------
(* Lines of a sequence *)

LEMMA EmptyHas == ASSUME NEW x, NEW y PROVE ~Has(<<>>, x) /\ ~Precedes(<<>>, x, y)
BY DEF Has, Precedes

LEMMA AppendAt ==
  ASSUME NEW S \in Seq(Entry), NEW l \in Entry
  PROVE  /\ Append(S, l) \in Seq(Entry) /\ Len(Append(S, l)) = Len(S) + 1
         /\ Len(S) \in Nat
         /\ \A i \in 1 .. Len(S) : Append(S, l)[i] = S[i]
         /\ Append(S, l)[Len(S) + 1] = l
  BY AppendProperties, LenProperties

LEMMA AppendHas ==
  ASSUME NEW S \in Seq(Entry), NEW l \in Entry, NEW x
  PROVE  Has(Append(S, l), x) <=> Has(S, x) \/ x = l
<1>1. ASSUME Has(Append(S, l), x) PROVE Has(S, x) \/ x = l
  <2>1. PICK i \in 1 .. Len(S) + 1 : Append(S, l)[i] = x
    BY <1>1, AppendAt DEF Has
  <2>2. i \in 1 .. Len(S) \/ i = Len(S) + 1
    BY AppendAt
  <2> QED
    BY <2>1, <2>2, AppendAt DEF Has
<1>2. ASSUME Has(S, x) PROVE Has(Append(S, l), x)
  <2>1. PICK i \in 1 .. Len(S) : S[i] = x
    BY <1>2 DEF Has
  <2>2. i \in 1 .. Len(Append(S, l)) /\ Append(S, l)[i] = x
    BY <2>1, AppendAt
  <2> QED
    BY <2>2 DEF Has
<1>3. Has(Append(S, l), l)
  <2>1. Len(S) + 1 \in 1 .. Len(Append(S, l))
    BY AppendAt
  <2> QED
    BY <2>1, AppendAt DEF Has
<1> QED
  BY <1>1, <1>2, <1>3

LEMMA AppendPrecedes ==
  ASSUME NEW S \in Seq(Entry), NEW l \in Entry, NEW x, NEW y, Precedes(Append(S, l), x, y)
  PROVE  Precedes(S, x, y) \/ (Has(S, x) /\ y = l)
<1>1. PICK i \in 1 .. Len(S) + 1, j \in 1 .. Len(S) + 1 :
          i < j /\ Append(S, l)[i] = x /\ Append(S, l)[j] = y
  BY AppendAt DEF Precedes
<1>2. i \in 1 .. Len(S) /\ (j \in 1 .. Len(S) \/ j = Len(S) + 1)
  BY <1>1, AppendAt
<1> QED
  BY <1>1, <1>2, AppendAt DEF Precedes, Has

LEMMA TailAt ==
  ASSUME NEW S \in Seq(Entry), S # <<>>
  PROVE  /\ Tail(S) \in Seq(Entry) /\ Len(Tail(S)) = Len(S) - 1
         /\ Len(S) \in Nat \ {0} /\ Head(S) = S[1] /\ Head(S) \in Entry
         /\ \A i \in 1 .. Len(S) - 1 : Tail(S)[i] = S[i + 1]
<1>1. Tail(S) \in Seq(Entry) /\ Len(Tail(S)) = Len(S) - 1 /\ Head(S) = S[1] /\ Head(S) \in Entry
  BY HeadTailProperties
<1>2. \A i \in 1 .. Len(Tail(S)) : Tail(S)[i] = S[i + 1]
  BY HeadTailProperties
<1>3. Len(S) \in Nat \ {0}
  BY LenProperties, EmptySeq
<1> QED
  BY <1>1, <1>2, <1>3

LEMMA TailHas ==
  ASSUME NEW S \in Seq(Entry), S # <<>>, NEW x
  PROVE  Has(S, x) <=> Has(Tail(S), x) \/ x = Head(S)
<1>1. ASSUME Has(S, x), x # Head(S) PROVE Has(Tail(S), x)
  <2>1. PICK i \in 1 .. Len(S) : S[i] = x
    BY <1>1 DEF Has
  <2>2. i - 1 \in 1 .. Len(Tail(S)) /\ i - 1 + 1 = i
    BY <2>1, <1>1, TailAt
  <2>3. Tail(S)[i - 1] = x
    BY <2>1, <2>2, TailAt
  <2> QED
    BY <2>2, <2>3 DEF Has
<1>2. ASSUME Has(Tail(S), x) PROVE Has(S, x)
  <2>1. PICK i \in 1 .. Len(Tail(S)) : Tail(S)[i] = x
    BY <1>2 DEF Has
  <2>2. i + 1 \in 1 .. Len(S) /\ S[i + 1] = x
    BY <2>1, TailAt
  <2> QED
    BY <2>2 DEF Has
<1>3. Has(S, Head(S))
  <2>1. 1 \in 1 .. Len(S)
    BY TailAt
  <2> QED
    BY <2>1, TailAt DEF Has
<1> QED
  BY <1>1, <1>2, <1>3

LEMMA TailPrecedes ==
  ASSUME NEW S \in Seq(Entry), S # <<>>, NEW x, NEW y
  PROVE  Precedes(S, x, y) <=> Precedes(Tail(S), x, y) \/ (x = Head(S) /\ Has(Tail(S), y))
<1>1. ASSUME Precedes(S, x, y) PROVE Precedes(Tail(S), x, y) \/ (x = Head(S) /\ Has(Tail(S), y))
  <2>1. PICK i \in 1 .. Len(S), j \in 1 .. Len(S) : i < j /\ S[i] = x /\ S[j] = y
    BY <1>1 DEF Precedes
  <2>2. j - 1 \in 1 .. Len(Tail(S)) /\ Tail(S)[j - 1] = y
    <3>1. j - 1 \in 1 .. Len(S) - 1 /\ j - 1 + 1 = j
      BY <2>1, TailAt
    <3> QED
      BY <3>1, <2>1, TailAt
  <2>3. CASE i = 1
    BY <2>1, <2>2, <2>3, TailAt DEF Has
  <2>4. CASE i # 1
    <3>1. i - 1 \in 1 .. Len(S) - 1 /\ i - 1 + 1 = i /\ i - 1 < j - 1
      BY <2>1, <2>4, TailAt
    <3>2. Tail(S)[i - 1] = x /\ i - 1 \in 1 .. Len(Tail(S))
      BY <3>1, <2>1, TailAt
    <3> QED
      BY <2>2, <3>1, <3>2 DEF Precedes
  <2> QED
    BY <2>3, <2>4
<1>2. ASSUME Precedes(Tail(S), x, y) PROVE Precedes(S, x, y)
  <2>1. PICK i \in 1 .. Len(Tail(S)), j \in 1 .. Len(Tail(S)) : i < j /\ Tail(S)[i] = x /\ Tail(S)[j] = y
    BY <1>2 DEF Precedes
  <2>2. i + 1 \in 1 .. Len(S) /\ j + 1 \in 1 .. Len(S) /\ i + 1 < j + 1 /\ S[i + 1] = x /\ S[j + 1] = y
    BY <2>1, TailAt
  <2> QED
    BY <2>2 DEF Precedes
<1>3. ASSUME x = Head(S), Has(Tail(S), y) PROVE Precedes(S, x, y)
  <2>1. PICK j \in 1 .. Len(Tail(S)) : Tail(S)[j] = y
    BY <1>3 DEF Has
  <2>2. 1 \in 1 .. Len(S) /\ j + 1 \in 1 .. Len(S) /\ 1 < j + 1 /\ S[1] = x /\ S[j + 1] = y
    BY <1>3, <2>1, TailAt
  <2> QED
    BY <2>2 DEF Precedes
<1> QED
  BY <1>1, <1>2, <1>3

LEMMA HasEntry ==
  ASSUME NEW S \in Seq(Entry), NEW x, Has(S, x) PROVE x \in Entry
BY LenProperties, ElementOfSeq DEF Has

-----------------------------------------------------------------------------
(* Headers of the error log *)

LEMMA HeaderHas ==
  ASSUME NEW S, NEW m PROVE HeaderIn(S, m) <=> \E x : Has(S, x) /\ Heads(x, m)
BY DEF HeaderIn, Has

LEMMA EmptyHeader == ASSUME NEW m PROVE ~HeaderIn(<<>>, m)
BY DEF HeaderIn

LEMMA AppendHeader ==
  ASSUME NEW S \in Seq(Entry), NEW l \in Entry, NEW m
  PROVE  HeaderIn(Append(S, l), m) <=> HeaderIn(S, m) \/ Heads(l, m)
<1>1. \A x : Has(Append(S, l), x) <=> Has(S, x) \/ x = l
  BY AppendHas
<1> QED
  BY <1>1, HeaderHas

LEMMA TailHeader ==
  ASSUME NEW S \in Seq(Entry), S # <<>>, NEW m
  PROVE  HeaderIn(S, m) <=> Heads(Head(S), m) \/ HeaderIn(Tail(S), m)
<1>1. \A x : Has(S, x) <=> Has(Tail(S), x) \/ x = Head(S)
  BY TailHas
<1> QED
  BY <1>1, HeaderHas

LEMMA EmptyCovered == ASSUME NEW S PROVE Covered(<<>>) /\ WillBeCovered(S, <<>>)
BY DEF Covered, WillBeCovered

LEMMA AppendCovered ==
  ASSUME NEW S \in Seq(Entry), NEW l \in Entry, Covered(S),
         HeaderIn(S, l.map) \/ Heads(l, l.map)
  PROVE  Covered(Append(S, l))
<1> DEFINE T == Append(S, l)
<1>1. Len(T) = Len(S) + 1 /\ Len(S) \in Nat /\ T[Len(S) + 1] = l /\ \A i \in 1 .. Len(S) : T[i] = S[i]
  BY AppendAt
<1> HIDE DEF T
<1>2. ASSUME NEW j \in 1 .. Len(S) PROVE \E i \in 1 .. j : Heads(T[i], T[j].map)
  <2>1. PICK i \in 1 .. j : Heads(S[i], S[j].map)
    BY DEF Covered
  <2>2. i \in 1 .. Len(S)
    BY <1>1
  <2> QED
    BY <1>1, <2>1, <2>2
<1>3. \E i \in 1 .. Len(S) + 1 : Heads(T[i], l.map)
  <2>1. CASE HeaderIn(S, l.map)
    <3>1. PICK i \in 1 .. Len(S) : Heads(S[i], l.map)
      BY <2>1 DEF HeaderIn
    <3>2. i \in 1 .. Len(S) + 1
      BY <1>1
    <3> QED
      BY <1>1, <3>1, <3>2
  <2>2. CASE Heads(l, l.map)
    <3>1. Len(S) + 1 \in 1 .. Len(S) + 1
      BY <1>1
    <3> QED
      BY <1>1, <2>2, <3>1
  <2> QED
    BY <2>1, <2>2
<1>4. \A j \in 1 .. Len(T) : j \in 1 .. Len(S) \/ j = Len(S) + 1
  BY <1>1
<1> QED
  BY <1>1, <1>2, <1>3, <1>4 DEF Covered, T

LEMMA AppendWillBe ==
  ASSUME NEW S, NEW W \in Seq(Entry), NEW l \in Entry, WillBeCovered(S, W),
         l.path = Error => HeaderIn(S, l.map) \/ HeaderIn(W, l.map) \/ Heads(l, l.map)
  PROVE  WillBeCovered(S, Append(W, l))
<1> DEFINE T == Append(W, l)
<1>1. Len(T) = Len(W) + 1 /\ Len(W) \in Nat /\ T[Len(W) + 1] = l /\ \A i \in 1 .. Len(W) : T[i] = W[i]
  BY AppendAt
<1> HIDE DEF T
<1> DEFINE Fine(j) == T[j].path = Error =>
                        HeaderIn(S, T[j].map) \/ \E i \in 1 .. j : Heads(T[i], T[j].map)
<1>2. ASSUME NEW j \in 1 .. Len(W) PROVE Fine(j)
  <2>1. \A i \in 1 .. j : T[i] = W[i]
    BY <1>1
  <2> QED
    BY <1>1, <2>1 DEF WillBeCovered
<1>3. Fine(Len(W) + 1)
  <2>1. CASE HeaderIn(W, l.map)
    <3>1. PICK i \in 1 .. Len(W) : Heads(W[i], l.map)
      BY <2>1 DEF HeaderIn
    <3>2. i \in 1 .. Len(W) + 1
      BY <1>1
    <3> QED
      BY <1>1, <3>1, <3>2
  <2>2. CASE Heads(l, l.map)
    <3>1. Len(W) + 1 \in 1 .. Len(W) + 1
      BY <1>1
    <3> QED
      BY <1>1, <2>2, <3>1
  <2> QED
    BY <1>1, <2>1, <2>2
<1>4. \A j \in 1 .. Len(T) : j \in 1 .. Len(W) \/ j = Len(W) + 1
  BY <1>1
<1> QED
  BY <1>1, <1>2, <1>3, <1>4 DEF WillBeCovered, T

LEMMA WillBeMonotone ==
  ASSUME NEW S, NEW T, NEW W, WillBeCovered(S, W), \A m : HeaderIn(S, m) => HeaderIn(T, m)
  PROVE  WillBeCovered(T, W)
BY DEF WillBeCovered

LEMMA TailWillBe ==
  ASSUME NEW S, NEW T, NEW W \in Seq(Entry), W # <<>>, WillBeCovered(S, W),
         \A m : HeaderIn(S, m) \/ Heads(Head(W), m) => HeaderIn(T, m)
  PROVE  WillBeCovered(T, Tail(W))
<1> DEFINE V == Tail(W)
<1>1. Len(V) = Len(W) - 1 /\ Len(W) \in Nat /\ Head(W) = W[1]
      /\ \A i \in 1 .. Len(W) - 1 : V[i] = W[i + 1]
  BY TailAt
<1> HIDE DEF V
<1>2. ASSUME NEW j \in 1 .. Len(V), V[j].path = Error, ~HeaderIn(T, V[j].map)
      PROVE  \E i \in 1 .. j : Heads(V[i], V[j].map)
  <2>1. V[j] = W[j + 1] /\ j + 1 \in 1 .. Len(W)
    BY <1>1
  <2>2. ~HeaderIn(S, V[j].map) /\ ~Heads(Head(W), V[j].map)
    BY <1>2
  <2>3. PICK i \in 1 .. j + 1 : Heads(W[i], V[j].map)
    BY <1>2, <2>1, <2>2 DEF WillBeCovered
  <2>4. i # 1
    BY <1>1, <2>2, <2>3
  <2>5. i - 1 \in 1 .. j /\ i - 1 \in 1 .. Len(W) - 1 /\ i - 1 + 1 = i
    BY <1>1, <2>4
  <2> QED
    BY <1>1, <2>3, <2>5
<1> QED
  BY <1>2 DEF WillBeCovered, V

-----------------------------------------------------------------------------
(* The files *)

LEMMA FilesApart ==
  /\ Daily \in Files /\ Error \in Files /\ Daily # Error /\ NoFile \notin Files
  /\ Daily \notin PerMaps /\ Error \notin PerMaps /\ PerMaps \subseteq Files
  /\ NoFile \notin PerMaps
BY DEF Daily, Error, NoFile, Files, PerMaps

LEMMA OnFacts ==
  ASSUME NEW d, IsDisk(d), NEW p \in Files
  PROVE  /\ On(d, p) \in Seq(Entry)
         /\ \A x : Has(On(d, p), x) => x.path = p /\ x \in Entry
<1>1. On(d, p) \in Seq(Entry)
  BY EmptySeq DEF On, IsDisk
<1>2. ASSUME NEW x, Has(On(d, p), x) PROVE x.path = p /\ x \in Entry
  <2>1. p \in DOMAIN d
    BY <1>2, EmptyHas DEF On
  <2> QED
    BY <1>1, <1>2, <2>1, HasEntry DEF On, Has, IsDisk
<1> QED
  BY <1>1, <1>2

LEMMA EntryPath == ASSUME NEW x \in Entry PROVE x.path \in Files /\ x.n \in Nat /\ x.session \in Nat
BY DEF Entry

LEMMA AllIs ==
  ASSUME NEW d, IsDisk(d), NEW W \in Seq(Entry), NEW x
  PROVE  /\ x \in All(d, W) <=> Has(W, x) \/ (x \in Entry /\ Has(On(d, x.path), x))
         /\ x \in All(d, W) => x \in Entry
<1>1. ASSUME x \in All(d, W), ~Has(W, x)
      PROVE  x \in Entry /\ Has(On(d, x.path), x)
  <2>1. PICK p \in DOMAIN d : \E i \in 1 .. Len(d[p]) : x = d[p][i]
    BY <1>1 DEF All, Has
  <2>2. Has(On(d, p), x) /\ p \in Files
    BY <2>1 DEF On, Has, IsDisk
  <2> QED
    BY <2>2, OnFacts
<1>2. ASSUME x \in Entry, Has(On(d, x.path), x) PROVE x \in All(d, W)
  <2>1. x.path \in DOMAIN d
    BY <1>2, EmptyHas DEF On
  <2>2. PICK i \in 1 .. Len(d[x.path]) : x = d[x.path][i]
    BY <1>2, <2>1 DEF On, Has
  <2> QED
    BY <2>1, <2>2 DEF All
<1>3. ASSUME Has(W, x) PROVE x \in All(d, W) /\ x \in Entry
  BY <1>3, HasEntry DEF Has, All
<1> QED
  BY <1>1, <1>2, <1>3

LEMMA AppendToOn ==
  ASSUME NEW d, IsDisk(d), NEW l \in Entry
  PROVE  /\ IsDisk(AppendTo(d, l.path, l))
         /\ DOMAIN AppendTo(d, l.path, l) = DOMAIN d \cup {l.path}
         /\ On(AppendTo(d, l.path, l), l.path) = Append(On(d, l.path), l)
         /\ \A q \in Files \ {l.path} : On(AppendTo(d, l.path, l), q) = On(d, q)
<1> DEFINE p == l.path
           e == AppendTo(d, p, l)
<1>1. p \in Files
  BY EntryPath
<1>2. DOMAIN e = DOMAIN d \cup {p}
  BY DEF AppendTo
<1>3. On(e, p) = Append(On(d, p), l)
  <2>1. CASE p \in DOMAIN d
    BY <2>1 DEF AppendTo, On
  <2>2. CASE p \notin DOMAIN d
    <3>1. On(e, p) = <<l>> /\ On(d, p) = <<>>
      BY <2>2 DEF AppendTo, On
    <3> QED
      BY <3>1
  <2> QED
    BY <2>1, <2>2
<1>4. \A q \in Files \ {p} : On(e, q) = On(d, q) /\ (q \in DOMAIN e <=> q \in DOMAIN d)
  BY DEF AppendTo, On
<1>5. IsFiniteSet(DOMAIN e)
  BY <1>2, FS_AddElement DEF IsDisk
<1>6. ASSUME NEW q \in DOMAIN e
      PROVE  e[q] \in Seq(Entry) /\ \A i \in 1 .. Len(e[q]) : e[q][i].path = q
  <2>1. e[q] = On(e, q) /\ q \in Files
    BY <1>1, <1>2 DEF On, IsDisk
  <2>2. CASE q = p
    <3>1. On(d, p) \in Seq(Entry)
      BY <1>1, OnFacts
    <3>2. \A x : Has(On(e, p), x) => x.path = p
      BY <1>1, <1>3, <3>1, AppendHas, OnFacts
    <3>3. On(e, p) \in Seq(Entry)
      BY <1>3, <3>1, AppendAt
    <3> QED
      BY <2>1, <2>2, <3>2, <3>3 DEF Has
  <2>3. CASE q # p
    <3>1. On(d, q) \in Seq(Entry) /\ \A x : Has(On(d, q), x) => x.path = q
      BY <2>1, OnFacts
    <3>2. e[q] = On(d, q)
      BY <1>4, <2>1, <2>3
    <3> QED
      BY <3>1, <3>2 DEF Has
  <2> QED
    BY <2>2, <2>3
<1>7. IsDisk(e)
  BY <1>1, <1>2, <1>5, <1>6 DEF IsDisk
<1> QED
  BY <1>2, <1>3, <1>4, <1>7

\* d with an empty file p.
WithFile(d, p) == [q \in DOMAIN d \cup {p} |-> IF q = p THEN <<>> ELSE d[q]]

LEMMA WithFileOn ==
  ASSUME NEW d, IsDisk(d), NEW p \in Files, p \notin DOMAIN d
  PROVE  /\ IsDisk(WithFile(d, p)) /\ DOMAIN WithFile(d, p) = DOMAIN d \cup {p}
         /\ \A q : On(WithFile(d, p), q) = On(d, q)
<1> DEFINE e == WithFile(d, p)
<1>1. DOMAIN e = DOMAIN d \cup {p} /\ \A q : On(e, q) = On(d, q)
  BY DEF WithFile, On
<1>2. IsFiniteSet(DOMAIN e) /\ DOMAIN e \subseteq Files
  BY <1>1, FS_AddElement DEF IsDisk
<1>3. ASSUME NEW q \in DOMAIN e
      PROVE  e[q] \in Seq(Entry) /\ \A i \in 1 .. Len(e[q]) : e[q][i].path = q
  <2>1. e[q] = On(d, q) /\ q \in Files
    BY <1>1, <1>2 DEF On
  <2> QED
    BY <2>1, OnFacts DEF Has
<1> QED
  BY <1>1, <1>2, <1>3 DEF IsDisk

-----------------------------------------------------------------------------
(* A line is put: queued, dropped or written to its file *)

Put(d, W, e, V, l) ==
  \/ e = d /\ V = Append(W, l)
  \/ e = d /\ V = W
  \/ e = AppendTo(d, l.path, l) /\ V = W

LEMMA PutDisk ==
  ASSUME NEW d, IsDisk(d), NEW W \in Seq(Entry), NEW l \in Entry,
         NEW e, NEW V, Put(d, W, e, V, l)
  PROVE  /\ IsDisk(e) /\ V \in Seq(Entry)
         /\ DOMAIN d \subseteq DOMAIN e
         /\ All(d, W) \subseteq All(e, V) /\ All(e, V) \subseteq All(d, W) \cup {l}
         /\ (e # d \/ V # W) => l \in All(e, V)
<1>1. CASE e = d /\ V = Append(W, l)
  <2>1. V \in Seq(Entry) /\ \A x : Has(V, x) <=> Has(W, x) \/ x = l
    BY <1>1, AppendAt, AppendHas
  <2> QED
    BY <1>1, <2>1, AllIs
<1>2. CASE e = d /\ V = W
  BY <1>2
<1>3. CASE e = AppendTo(d, l.path, l) /\ V = W
  <2>1. l.path \in Files
    BY EntryPath
  <2>2. IsDisk(e) /\ DOMAIN d \subseteq DOMAIN e
    BY <1>3, AppendToOn
  <2>3. \A x : Has(On(e, l.path), x) <=> Has(On(d, l.path), x) \/ x = l
    <3>1. On(d, l.path) \in Seq(Entry)
      BY <2>1, OnFacts
    <3>2. On(e, l.path) = Append(On(d, l.path), l)
      BY <1>3, AppendToOn
    <3> QED
      BY <3>1, <3>2, AppendHas
  <2>4. \A x \in Entry : x.path # l.path => On(e, x.path) = On(d, x.path)
    BY <1>3, EntryPath, AppendToOn
  <2>5. \A x \in Entry : Has(On(e, x.path), x) <=> Has(On(d, x.path), x) \/ x = l
    BY <2>3, <2>4
  <2>6. \A x : x \in All(e, V) <=> Has(W, x) \/ (x \in Entry /\ Has(On(e, x.path), x))
    BY <1>3, <2>2, AllIs
  <2>7. \A x : x \in All(d, W) <=> Has(W, x) \/ (x \in Entry /\ Has(On(d, x.path), x))
    BY AllIs
  <2> QED
    BY <1>3, <2>2, <2>5, <2>6, <2>7
<1> QED
  BY <1>1, <1>2, <1>3 DEF Put

\* A line that is put stands after those of its file, and moves none of them.
LEMMA PutBefore ==
  ASSUME NEW d, IsDisk(d), NEW W \in Seq(Entry), NEW l \in Entry,
         NEW e, NEW V, Put(d, W, e, V, l), e = d \/ W = <<>>,
         NEW x \in Entry, NEW y \in Entry, Before(e, V, x, y)
  PROVE  Before(d, W, x, y) \/ (y = l /\ x.path = l.path /\ x \in All(d, W))
<1>0. y.path \in Files /\ l.path \in Files /\ On(d, y.path) \in Seq(Entry) /\ On(d, l.path) \in Seq(Entry)
  BY EntryPath, OnFacts
<1>1. \A z : Has(On(d, l.path), z) => z.path = l.path /\ z \in All(d, W)
  BY <1>0, OnFacts, AllIs
<1>2. \A z : Has(W, z) => z \in All(d, W)
  BY AllIs
<1>3. CASE e = d /\ V = Append(W, l)
  <2>1. Has(V, y) => Has(W, y) \/ y = l
    BY <1>3, AppendHas
  <2>2. Precedes(V, x, y) => Precedes(W, x, y) \/ (Has(W, x) /\ y = l)
    BY <1>3, AppendPrecedes
  <2> QED
    BY <1>1, <1>2, <1>3, <2>1, <2>2 DEF Before
<1>4. CASE e = d /\ V = W
  BY <1>4
<1>5. CASE e = AppendTo(d, l.path, l) /\ V = W /\ W = <<>>
  <2>1. Precedes(On(e, y.path), x, y)
    BY <1>5, EmptyHas DEF Before
  <2>2. CASE y.path = l.path
    <3>1. Precedes(Append(On(d, l.path), l), x, y)
      BY <1>5, <2>1, <2>2, AppendToOn
    <3>2. Precedes(On(d, l.path), x, y) \/ (Has(On(d, l.path), x) /\ y = l)
      BY <1>0, <3>1, AppendPrecedes
    <3> QED
      BY <1>1, <2>2, <3>2 DEF Before
  <2>3. CASE y.path # l.path
    <3>1. On(e, y.path) = On(d, y.path)
      BY <1>0, <1>5, <2>3, AppendToOn
    <3> QED
      BY <2>1, <3>1 DEF Before
  <2> QED
    BY <2>2, <2>3
<1> QED
  BY <1>3, <1>4, <1>5 DEF Put

\* The same of the headers: a line that is put under a header, or is one, is
\* covered; where it is written before others on their way, its header must be
\* on disk.
LEMMA PutHeaders ==
  ASSUME NEW d, IsDisk(d), NEW W \in Seq(Entry), NEW l \in Entry,
         NEW e, NEW V, Put(d, W, e, V, l),
         Covered(On(d, Error)), WillBeCovered(On(d, Error), W),
         l.path = Error => \/ Heads(l, l.map) \/ HeaderIn(On(d, Error), l.map)
                           \/ e = d /\ HeaderIn(W, l.map)
  PROVE  Covered(On(e, Error)) /\ WillBeCovered(On(e, Error), V)
<1>0. Error \in Files /\ On(d, Error) \in Seq(Entry)
  BY FilesApart, OnFacts
<1>1. CASE e = d /\ V = Append(W, l)
  BY <1>1, AppendWillBe
<1>2. CASE e = d /\ V = W
  BY <1>2
<1>3. CASE e = AppendTo(d, l.path, l) /\ V = W /\ l.path = Error /\ e # d
  <2>1. On(e, Error) = Append(On(d, Error), l)
    BY <1>3, AppendToOn
  <2>2. Covered(On(e, Error))
    BY <1>0, <1>3, <2>1, AppendCovered
  <2>3. \A m : HeaderIn(On(d, Error), m) => HeaderIn(On(e, Error), m)
    BY <1>0, <2>1, AppendHeader
  <2> QED
    BY <1>3, <2>2, <2>3, WillBeMonotone
<1>4. CASE e = AppendTo(d, l.path, l) /\ V = W /\ l.path # Error
  BY <1>0, <1>4, AppendToOn
<1> QED
  BY <1>1, <1>2, <1>3, <1>4 DEF Put

LEMMA PutKeepsHeaders ==
  ASSUME NEW d, IsDisk(d), NEW W \in Seq(Entry), NEW l \in Entry,
         NEW e, NEW V, Put(d, W, e, V, l), NEW m
  PROVE  /\ HeaderIn(On(d, Error), m) => HeaderIn(On(e, Error), m)
         /\ HeaderIn(W, m) => HeaderIn(V, m)
         /\ Heads(l, m) /\ (e # d \/ V # W) => HeaderIn(On(e, Error), m) \/ HeaderIn(V, m)
<1>0. Error \in Files /\ On(d, Error) \in Seq(Entry)
  BY FilesApart, OnFacts
<1>1. CASE e = d /\ V = Append(W, l)
  BY <1>1, AppendHeader
<1>2. CASE e = d /\ V = W
  BY <1>2
<1>3. CASE e = AppendTo(d, l.path, l) /\ V = W /\ l.path = Error
  <2>1. On(e, Error) = Append(On(d, Error), l)
    BY <1>3, AppendToOn
  <2> QED
    BY <1>0, <1>3, <2>1, AppendHeader
<1>4. CASE e = AppendTo(d, l.path, l) /\ V = W /\ l.path # Error
  <2>1. On(e, Error) = On(d, Error) /\ ~Heads(l, m)
    BY <1>0, <1>4, AppendToOn DEF Heads
  <2> QED
    BY <1>4, <2>1
<1> QED
  BY <1>1, <1>2, <1>3, <1>4 DEF Put

-----------------------------------------------------------------------------
(* A step of a handler that puts a line *)

Way(s) == hand \o s.chan.pending

PutTo(s, t, l) ==
  /\ DOMAIN t = DOMAIN s
  /\ t.log = s.log /\ t.local = s.local /\ t.tally = s.tally
  /\ \/ /\ s.log.async /\ Queued(s) /\ t.disk = s.disk
        /\ t.chan = [s.chan EXCEPT !.up = TRUE, !.pending = Append(@, l)]
     \/ /\ s.log.async /\ t.disk = s.disk
        /\ t.chan = [s.chan EXCEPT !.up = TRUE, !.drops = @ + 1]
     \/ /\ ~s.log.async \/ ~s.chan.up
        /\ t.chan = s.chan /\ t.disk = AppendTo(s.disk, l.path, l)

\* A line that a handler may put.
Fits(s, l) ==
  /\ l \in Entry /\ l.n = calls
  /\ l.kind = "error" <=> l.path = Error
  /\ l.kind \in {"closed", "header"} => l.path = s.log.file
  /\ l.path \in PerMaps => l.path = s.log.file /\ l.session = s.tally.sessions
  /\ l.kind = "header" /\ "create" \notin s.tally.mishaps =>
       \A x \in All(s.disk, Way(s)) : x.path # l.path
  /\ l.path = Error => Heads(l, l.map) \/ HeaderGiven(s, Way(s), l.map)

LEMMA ConcatAppend ==
  ASSUME NEW h \in Seq(Entry), NEW p \in Seq(Entry), NEW l \in Entry
  PROVE  h \o Append(p, l) = Append(h \o p, l)
<1>1. <<l>> \in Seq(Entry)
  OBVIOUS
<1>2. Append(p, l) = p \o <<l>>
  BY AppendIsConcat
<1>3. Append(h \o p, l) = (h \o p) \o <<l>>
  BY AppendIsConcat, ConcatProperties
<1> QED
  BY <1>1, <1>2, <1>3, ConcatAssociative

LEMMA PutState ==
  ASSUME hand \in Seq(Entry), NEW s, IsLogState(s), NEW l \in Entry, NEW t, PutTo(s, t, l)
  PROVE  /\ Way(s) \in Seq(Entry)
         /\ Put(s.disk, Way(s), t.disk, Way(t), l)
         /\ t.disk = s.disk \/ ~s.log.async \/ ~s.chan.up
         /\ \/ t.chan.up /\ s.log.async
            \/ t.chan.up = s.chan.up /\ Way(t) = Way(s)
         /\ IsLogState(t)
<1>0. s.chan \in [pending : Seq(Entry), drops : Nat, up : BOOLEAN] /\ s.chan.pending \in Seq(Entry)
      /\ Len(s.chan.pending) <= QCap /\ QCap \in Nat
  BY QCapAssumption DEF IsLogState
<1>1. Way(s) \in Seq(Entry)
  BY <1>0, ConcatProperties DEF Way
<1>2. CASE /\ s.log.async /\ Queued(s) /\ t.disk = s.disk
           /\ t.chan = [s.chan EXCEPT !.up = TRUE, !.pending = Append(@, l)]
  <2>1. t.chan.up = TRUE /\ t.chan.pending = Append(s.chan.pending, l) /\ t.chan.drops = s.chan.drops
    BY <1>0, <1>2
  <2>2. Way(t) = Append(Way(s), l)
    BY <1>0, <2>1, ConcatAppend DEF Way
  <2>3. t.chan.pending \in Seq(Entry) /\ Len(t.chan.pending) = Len(s.chan.pending) + 1
    BY <1>0, <2>1, AppendAt
  <2>4. Len(t.chan.pending) <= QCap
    BY <1>0, <1>2, <2>3, LenProperties DEF Queued
  <2>5. t.chan \in [pending : Seq(Entry), drops : Nat, up : BOOLEAN]
    BY <1>0, <1>2, <2>3
  <2> QED
    BY <1>1, <1>2, <2>1, <2>2, <2>4, <2>5 DEF Put, PutTo, IsLogState
<1>3. CASE /\ s.log.async /\ t.disk = s.disk
           /\ t.chan = [s.chan EXCEPT !.up = TRUE, !.drops = @ + 1]
  <2>1. t.chan.up = TRUE /\ t.chan.pending = s.chan.pending /\ t.chan.drops = s.chan.drops + 1
    BY <1>0, <1>3
  <2>2. t.chan \in [pending : Seq(Entry), drops : Nat, up : BOOLEAN]
    <3>1. s.chan.drops + 1 \in Nat
      BY <1>0
    <3> QED
      BY <1>0, <1>3, <3>1
  <2> QED
    BY <1>0, <1>1, <1>3, <2>1, <2>2 DEF Put, PutTo, IsLogState, Way
<1>4. CASE /\ ~s.log.async \/ ~s.chan.up
           /\ t.chan = s.chan /\ t.disk = AppendTo(s.disk, l.path, l)
  <2>1. IsDisk(s.disk)
    BY DEF IsLogState
  <2>2. IsDisk(t.disk)
    BY <1>4, <2>1, AppendToOn
  <2> QED
    BY <1>1, <1>4, <2>2 DEF Put, PutTo, IsLogState, Way
<1> QED
  BY <1>2, <1>3, <1>4 DEF PutTo

LEMMA PutSound ==
  ASSUME hand \in Seq(Entry), NEW s, Sound(s, Way(s), calls), Unclosed(s, Way(s)),
         NEW l, Fits(s, l), NEW t, PutTo(s, t, l)
  PROVE  /\ Sound(t, Way(t), calls)
         /\ l.kind # "closed" => Unclosed(t, Way(t))
         /\ All(s.disk, Way(s)) \subseteq All(t.disk, Way(t))
         /\ All(t.disk, Way(t)) \subseteq All(s.disk, Way(s)) \cup {l}
         /\ DOMAIN s.disk \subseteq DOMAIN t.disk
         /\ \A m : HeaderGiven(s, Way(s), m) => HeaderGiven(t, Way(t), m)
<1> DEFINE d == s.disk
           W == Way(s)
           e == t.disk
           V == Way(t)
<1>0. /\ IsLogState(s) /\ W \in Seq(Entry) /\ Idle(s, W) /\ KindsFit(s, W) /\ Created(s, W)
      /\ Sessions(s, W) /\ Ordered(s, W) /\ Headed(s, W) /\ Numbered(s, W, calls) /\ IsDisk(d)
  BY DEF Sound, IsLogState
<1>1. l \in Entry
  BY DEF Fits
<1>2. /\ Put(d, W, e, V, l)
      /\ e = d \/ ~s.log.async \/ ~s.chan.up
      /\ (t.chan.up /\ s.log.async) \/ (t.chan.up = s.chan.up /\ V = W)
      /\ IsLogState(t)
  BY <1>0, <1>1, PutState
<1>3. t.log = s.log /\ t.tally = s.tally
  BY DEF PutTo
<1>4. /\ IsDisk(e) /\ V \in Seq(Entry) /\ DOMAIN d \subseteq DOMAIN e
      /\ All(d, W) \subseteq All(e, V) /\ All(e, V) \subseteq All(d, W) \cup {l}
      /\ (e # d \/ V # W) => l \in All(e, V)
  BY <1>0, <1>1, <1>2, PutDisk
<1>5. \A x \in All(d, W) \cup {l} : x \in Entry
  BY <1>0, <1>1, AllIs
<1> HIDE DEF d, W, e, V
<1>6. Idle(t, V)
  BY <1>0, <1>2, <1>3 DEF Idle
<1>7. s.log.file \in PerMaps \cup {NoFile} /\ l.path \in Files
  BY <1>0, <1>1, EntryPath DEF IsLogState
<1>8. KindsFit(t, V)
  <2>1. \A x \in All(d, W) : (x.kind = "error" <=> x.path = Error)
                             /\ (x.kind \in {"closed", "header"} => x.path \in PerMaps)
    BY <1>0 DEF KindsFit, d
  <2>2. (l.kind = "error" <=> l.path = Error) /\ (l.kind \in {"closed", "header"} => l.path \in PerMaps)
    BY <1>7, FilesApart DEF Fits
  <2> QED
    BY <1>4, <2>1, <2>2 DEF KindsFit, e
<1>9. Created(t, V)
  <2> SUFFICES ASSUME "create" \notin s.tally.mishaps
               PROVE  /\ s.log.file # NoFile => s.log.file \in DOMAIN e
                      /\ \A k \in 1 .. Len(V) : V[k].path \in PerMaps => V[k].path \in DOMAIN e
    BY <1>3 DEF Created, e
  <2>1. s.log.file # NoFile => s.log.file \in DOMAIN d
    BY <1>0 DEF Created, d
  <2>2. \A x : Has(W, x) /\ x.path \in PerMaps => x.path \in DOMAIN d
    BY <1>0 DEF Created, Has, d
  <2>3. l.path \in PerMaps => l.path \in DOMAIN d
    BY <2>1, FilesApart DEF Fits
  <2>4. \A x : Has(V, x) => Has(W, x) \/ x = l
    BY <1>0, <1>1, <1>2, AppendHas DEF Put
  <2>5. \A x : Has(V, x) /\ x.path \in PerMaps => x.path \in DOMAIN e
    BY <1>4, <2>2, <2>3, <2>4
  <2>6. \A k \in 1 .. Len(V) : Has(V, V[k])
    BY DEF Has
  <2> QED
    BY <1>4, <2>1, <2>5, <2>6
<1>10. Sessions(t, V)
  <2> SUFFICES ASSUME "create" \notin s.tally.mishaps
               PROVE  /\ \A x \in All(e, V) : x.path = s.log.file => x.session = s.tally.sessions
                      /\ \A x, y \in All(e, V) : x.path \in PerMaps /\ x.path = y.path
                                                   => x.session = y.session
    BY <1>3 DEF Sessions, e
  <2>1. \A x \in All(d, W) : x.path = s.log.file => x.session = s.tally.sessions
    BY <1>0 DEF Sessions, d
  <2>2. \A x, y \in All(d, W) : x.path \in PerMaps /\ x.path = y.path => x.session = y.session
    BY <1>0 DEF Sessions, d
  <2>3. l.path \in PerMaps => l.path = s.log.file /\ l.session = s.tally.sessions
    BY DEF Fits
  <2>4. l.path = s.log.file => l.path \in PerMaps
    BY <1>7, FilesApart
  <2>5. \A x \in All(d, W) \cup {l} : x.path = s.log.file => x.session = s.tally.sessions
    BY <2>1, <2>3, <2>4
  <2>6. \A x, y \in All(d, W) \cup {l} : x.path \in PerMaps /\ x.path = y.path => x.session = y.session
    BY <2>2, <2>3, <2>5
  <2> QED
    BY <1>4, <2>5, <2>6
<1>11. Ordered(t, V)
  <2> SUFFICES ASSUME "bypass" \notin s.tally.mishaps, "create" \notin s.tally.mishaps,
                      NEW x \in All(e, V), NEW y \in All(e, V), Before(e, V, x, y)
               PROVE  InOrder(x, y)
    BY <1>3 DEF Ordered, e
  <2>1. e = d \/ W = <<>>
    BY <1>0, <1>2 DEF Idle
  <2>2. x \in Entry /\ y \in Entry
    BY <1>4, <1>5
  <2>3. Before(d, W, x, y) \/ (y = l /\ x.path = l.path /\ x \in All(d, W))
    BY <1>0, <1>1, <1>2, <2>1, <2>2, PutBefore
  <2>4. CASE Before(d, W, x, y) /\ x \in All(d, W) /\ y \in All(d, W)
    BY <1>0, <2>4 DEF Ordered, d
  <2>5. CASE y = l /\ x.path = l.path /\ x \in All(d, W)
    <3>1. x.n <= y.n
      BY <1>0, <2>5 DEF Numbered, Fits, d
    <3>2. x.kind # "closed"
      BY <1>0, <2>5 DEF Unclosed, KindsFit, Fits, d, W
    <3>3. y.kind # "header"
      BY <2>5 DEF Fits, d, W
    <3> QED
      BY <3>1, <3>2, <3>3 DEF InOrder
  <2>6. CASE Before(d, W, x, y) /\ (x \notin All(d, W) \/ y \notin All(d, W))
    \* A line that is new stands before nothing that was there.
    <3>1. Has(W, y) \/ Has(On(d, y.path), y)
      BY <2>6 DEF Before, Precedes, Has
    <3>2. Has(W, x) \/ Has(On(d, y.path), x)
      BY <2>6 DEF Before, Precedes, Has
    <3>3. Has(On(d, y.path), x) => x.path = y.path
      BY <1>0, <2>2, EntryPath, OnFacts
    <3> QED
      BY <1>0, <2>2, <2>6, <3>1, <3>2, <3>3, AllIs
  <2> QED
    BY <2>3, <2>4, <2>5, <2>6
<1>12. Headed(t, V)
  <2> SUFFICES ASSUME "writer" \notin s.tally.mishaps
               PROVE  Covered(On(e, Error)) /\ WillBeCovered(On(e, Error), V)
    BY <1>3 DEF Headed, e
  <2>1. Covered(On(d, Error)) /\ WillBeCovered(On(d, Error), W)
    BY <1>0 DEF Headed, d
  <2>2. e = d \/ ~s.log.async \/ W = <<>>
    BY <1>0, <1>2 DEF Idle
  <2>3. l.path = Error => \/ Heads(l, l.map) \/ HeaderIn(On(d, Error), l.map)
                          \/ e = d /\ HeaderIn(W, l.map)
    BY <2>2, EmptyHeader DEF Fits, HeaderGiven, d, W
  <2> QED
    BY <1>0, <1>1, <1>2, <2>1, <2>3, PutHeaders
<1>13. Numbered(t, V, calls)
  <2>1. calls <= calls => \A x \in All(d, W) \cup {l} : x.n <= calls
    BY <1>0 DEF Numbered, Fits, d
  <2>2. calls \in Nat
    BY <1>1, EntryPath DEF Fits
  <2> QED
    BY <1>4, <2>1, <2>2 DEF Numbered, e
<1>14. l.kind # "closed" => Unclosed(t, V)
  BY <1>0, <1>3, <1>4 DEF Unclosed, d, W, e
<1>15. \A m : HeaderGiven(s, W, m) => HeaderGiven(t, V, m)
  BY <1>0, <1>1, <1>2, <1>3, PutKeepsHeaders DEF HeaderGiven, d, e
<1> QED
  BY <1>2, <1>4, <1>6, <1>8, <1>9, <1>10, <1>11, <1>12, <1>13, <1>14, <1>15 DEF Sound, d, W, e, V

-----------------------------------------------------------------------------
(* The name of a new file *)

LEMMA Least ==
  ASSUME NEW T, T \subseteq Nat, T # {}
  PROVE  \E m \in T : \A k \in T : m <= k
<1>1. PICK m \in T : \A k \in T : <<k, m>> \notin OpToRel(<, Nat)
  BY NatLessThanWellFounded, WFMin
<1>2. ASSUME NEW k \in T PROVE m <= k
  <2>1. k \in Nat /\ m \in Nat
    OBVIOUS
  <2>2. ~(k < m)
    BY <1>1, <2>1 DEF OpToRel
  <2> QED
    BY <2>1, <2>2
<1> QED
  BY <1>2

\* Among Cardinality(DOMAIN d) + 1 names one is free, so the probe ends.
LEMMA SomeNameFree ==
  ASSUME NEW d, IsFiniteSet(DOMAIN d)
  PROVE  \E i \in 0 .. Cardinality(DOMAIN d) : PerMap(i) \notin DOMAIN d
<1> DEFINE D == DOMAIN d
           n == Cardinality(D)
<1>1. n \in Nat
  BY FS_CardinalityType
<1> SUFFICES ASSUME \A i \in 0 .. n : PerMap(i) \in D
             PROVE  FALSE
  OBVIOUS
<1>2. IsFiniteSet(0 .. n) /\ Cardinality(0 .. n) = n + 1
  <2>1. 0 \in Int /\ n \in Int
    BY <1>1
  <2>2. Cardinality(0 .. n) = IF 0 > n THEN 0 ELSE n - 0 + 1
    BY <2>1, FS_Interval
  <2> QED
    BY <1>1, <2>1, <2>2, FS_Interval
<1> DEFINE g == [i \in 0 .. n |-> PerMap(i)]
<1>3. g \in [0 .. n -> D]
  OBVIOUS
<1>4. n < n + 1
  BY <1>1
<1>5. PICK x \in 0 .. n, y \in 0 .. n : x # y /\ g[x] = g[y]
  <2> HIDE DEF g
  <2> QED
    BY <1>2, <1>3, <1>4, FS_PigeonHole
<1> QED
  BY <1>5 DEF PerMap

LEMMA FreeNameIsFree ==
  ASSUME NEW d, IsFiniteSet(DOMAIN d)
  PROVE  FreeName(d) \in PerMaps /\ FreeName(d) \notin DOMAIN d
<1> DEFINE n == Cardinality(DOMAIN d)
           F == {i \in 0 .. n : PerMap(i) \notin DOMAIN d}
<1>1. n \in Nat /\ F # {} /\ F \subseteq Nat
  BY SomeNameFree, FS_CardinalityType
<1>2. PICK m \in F : \A k \in F : m <= k
  <2> HIDE DEF F
  <2> QED
    BY <1>1, Least
<1>3. \A j \in 0 .. m - 1 : PerMap(j) \in DOMAIN d
  BY <1>1, <1>2
<1>4. \E i \in 0 .. n : PerMap(i) \notin DOMAIN d /\ \A j \in 0 .. i - 1 : PerMap(j) \in DOMAIN d
  BY <1>2, <1>3
<1> DEFINE c == CHOOSE i \in 0 .. n : PerMap(i) \notin DOMAIN d /\ \A j \in 0 .. i - 1 : PerMap(j) \in DOMAIN d
<1>5. c \in 0 .. n /\ PerMap(c) \notin DOMAIN d
  BY <1>4
<1>6. PerMap(c) \in PerMaps
  BY <1>1, <1>5 DEF PerMap, PerMaps
<1> QED
  BY <1>5, <1>6 DEF FreeName

-----------------------------------------------------------------------------
(* The handlers that CLog calls in its handlers *)

\* Where a handler runs.
Here == hand \in Seq(Entry) /\ calls \in Nat /\ map \in 0 .. MaxMaps

\* What the creation and the closing of files leave as it was: the lines that
\* count, and what accounts for them.
Carries(s, t) ==
  /\ All(s.disk, Way(s)) \subseteq All(t.disk, Way(t))
  /\ \A x \in All(t.disk, Way(t)) : Counted(x) => x \in All(s.disk, Way(s))
  /\ t.chan.drops >= s.chan.drops /\ t.tally.alerts >= s.tally.alerts
  /\ t.tally.reported = s.tally.reported /\ t.tally.destroyed = s.tally.destroyed
  /\ t.tally.issued = s.tally.issued
  /\ t.log.type = s.log.type /\ t.log.found = s.log.found
  /\ t.log.errMap = s.log.errMap /\ t.log.async = s.log.async
  /\ \A m : HeaderGiven(s, Way(s), m) => HeaderGiven(t, Way(t), m)

LEMMA StateNumbers ==
  ASSUME NEW s, IsLogState(s)
  PROVE  /\ s.chan.drops \in Nat /\ s.chan.up \in BOOLEAN /\ s.chan.pending \in Seq(Entry)
         /\ s.tally.alerts \in Nat /\ s.tally.reported \in Nat /\ s.tally.destroyed \in Nat
         /\ s.tally.issued \in Nat /\ s.tally.sessions \in Nat
         /\ s.tally.mishaps \subseteq {"writer", "create", "bypass"}
         /\ s.log.type \in 0 .. 3 /\ s.log.file \in PerMaps \cup {NoFile}
         /\ s.log.found \in BOOLEAN /\ s.log.errMap \in BOOLEAN /\ s.log.async \in BOOLEAN
BY DEF IsLogState

LEMMA CarriesTrans ==
  ASSUME NEW s, NEW t, NEW u, IsLogState(s), IsLogState(t), IsLogState(u),
         Carries(s, t), Carries(t, u)
  PROVE  Carries(s, u)
BY StateNumbers DEF Carries

\* Only the log members or the history change: the state is as sound as it was.
LEMMA Relog ==
  ASSUME NEW s, Sound(s, Way(s), calls), NEW t, IsLogState(t),
         t.chan = s.chan, t.disk = s.disk,
         t.log.async = s.log.async, s.tally.mishaps \subseteq t.tally.mishaps,
         \/ "create" \in t.tally.mishaps
         \/ t.log.file = NoFile
         \/ t.log.file = s.log.file /\ t.tally.sessions = s.tally.sessions
  PROVE  /\ Sound(t, Way(t), calls)
         /\ Unclosed(s, Way(s)) => Unclosed(t, Way(t))
         /\ Way(t) = Way(s)
         /\ \A m : HeaderGiven(s, Way(s), m) => HeaderGiven(t, Way(t), m)
<1> DEFINE W == Way(s)
<1>1. Way(t) = W
  BY DEF Way
<1>2. /\ IsLogState(s) /\ W \in Seq(Entry) /\ Idle(s, W) /\ KindsFit(s, W) /\ Created(s, W)
      /\ Sessions(s, W) /\ Ordered(s, W) /\ Headed(s, W) /\ Numbered(s, W, calls)
  BY DEF Sound
<1> HIDE DEF W
<1>3. \A x \in All(s.disk, W) : x.path # NoFile
  BY <1>2, AllIs, EntryPath, FilesApart DEF IsLogState
<1>4. Idle(t, W) /\ KindsFit(t, W) /\ Numbered(t, W, calls)
  BY <1>2 DEF Idle, KindsFit, Numbered
<1>5. Created(t, W)
  BY <1>2 DEF Created
<1>6. Sessions(t, W)
  BY <1>2, <1>3 DEF Sessions
<1>7. Ordered(t, W)
  BY <1>2 DEF Ordered
<1>8. Headed(t, W)
  BY <1>2 DEF Headed
<1>9. Unclosed(s, W) => Unclosed(t, W)
  BY <1>3 DEF Unclosed
<1>10. \A m : HeaderGiven(s, W, m) => HeaderGiven(t, W, m)
  BY DEF HeaderGiven
<1> QED
  BY <1>1, <1>2, <1>4, <1>5, <1>6, <1>7, <1>8, <1>9, <1>10 DEF Sound, W

LEMMA LineIs ==
  ASSUME Here, NEW s, IsLogState(s), NEW p \in Files, NEW k \in Kinds
  PROVE  LET l == Line(s, p, k)
         IN  /\ l \in Entry /\ l.path = p /\ l.kind = k /\ l.n = calls
             /\ l.map = map /\ l.session = s.tally.sessions /\ ~l.head
BY StateNumbers DEF Line, Entry, Here

\* KTP_ALogEnqueue, or the direct write where it is not called or fails.
LEMMA EnqueuePuts ==
  ASSUME NEW s, IsLogState(s), NEW f, Handled(s, f), NEW l
  PROVE  /\ PutTo(s, Enqueue(s, l), l)
         /\ Enqueue(s, l).chan.drops = s.chan.drops + IF Queued(s) THEN 0 ELSE 1
         /\ Enqueue(s, l).disk = s.disk
<1>0. /\ DOMAIN s = {"log", "local", "chan", "disk", "tally"}
      /\ s.chan \in [pending : Seq(Entry), drops : Nat, up : BOOLEAN] /\ s.log.async
  BY DEF IsLogState, Handled
<1> DEFINE t == Enqueue(s, l)
           u == IF Queued(s) THEN [s.chan EXCEPT !.up = TRUE, !.pending = Append(@, l)]
                             ELSE [s.chan EXCEPT !.up = TRUE, !.drops = @ + 1]
<1>1. t = [s EXCEPT !.chan = u]
  BY <1>0 DEF Enqueue
<1>2. /\ DOMAIN t = DOMAIN s /\ t.log = s.log /\ t.local = s.local /\ t.tally = s.tally
      /\ t.disk = s.disk /\ t.chan = u
  BY <1>0, <1>1
<1>3. PutTo(s, t, l)
  BY <1>0, <1>2 DEF PutTo
<1>4. u.drops = s.chan.drops + IF Queued(s) THEN 0 ELSE 1
  <2>1. s.chan.drops \in Nat
    BY <1>0
  <2>2. CASE Queued(s)
    BY <1>0, <2>1, <2>2
  <2>3. CASE ~Queued(s)
    BY <1>0, <2>1, <2>3
  <2> QED
    BY <2>2, <2>3
<1> QED
  BY <1>2, <1>3, <1>4

LEMMA DirectPuts ==
  ASSUME NEW s, IsLogState(s), NEW f, ~Handled(s, f), NEW l, NEW p, l.path = p
  PROVE  PutTo(s, [s EXCEPT !.disk = AppendTo(@, p, l)], l)
<1>0. DOMAIN s = {"log", "local", "chan", "disk", "tally"}
  BY DEF IsLogState
<1>1. ~s.log.async \/ ~s.chan.up
  BY DEF Handled
<1> QED
  BY <1>0, <1>1 DEF PutTo

LEMMA PutDrops ==
  ASSUME NEW s, IsLogState(s), NEW l, NEW t, PutTo(s, t, l)
  PROVE  t.chan.drops \in Nat /\ t.chan.drops >= s.chan.drops
<1>1. /\ s.chan \in [pending : Seq(Entry), drops : Nat, up : BOOLEAN]
      /\ s.chan.drops \in Nat /\ s.chan.drops + 1 \in Nat /\ s.chan.drops + 1 >= s.chan.drops
  BY DEF IsLogState
<1>2. t.chan.drops = s.chan.drops \/ t.chan.drops = s.chan.drops + 1
  BY <1>1 DEF PutTo
<1> QED
  BY <1>1, <1>2

LEMMA PutCarries ==
  ASSUME hand \in Seq(Entry), NEW s, Sound(s, Way(s), calls), Unclosed(s, Way(s)),
         NEW l, Fits(s, l), NEW t, PutTo(s, t, l), ~Counted(l)
  PROVE  Carries(s, t)
<1>1. IsLogState(s)
  BY DEF Sound
<1>2. t.chan.drops >= s.chan.drops
  BY <1>1, PutDrops
<1>3. t.log = s.log /\ t.tally = s.tally /\ s.tally.alerts >= s.tally.alerts
  BY <1>1, StateNumbers DEF PutTo
<1> QED
  BY <1>2, <1>3, PutSound DEF Carries

LEMMA CarriesSame ==
  ASSUME NEW s, IsLogState(s) PROVE Carries(s, s)
BY StateNumbers DEF Carries

LEMMA CloseFileSound ==
  ASSUME Here, NEW s, Sound(s, Way(s), calls), Unclosed(s, Way(s)), NEW f
  PROVE  LET c == CloseFile(s, f)
         IN  /\ Sound(c, Way(c), calls) /\ Unclosed(c, Way(c)) /\ Carries(s, c)
             /\ c.log.file = NoFile /\ c.tally = s.tally /\ c.local = s.local
<1> DEFINE c == CloseFile(s, f)
           l == Line(s, s.log.file, "closed")
           put == IF Handled(s, f) THEN Enqueue(s, l)
                  ELSE IF s.log.file \in DOMAIN s.disk /\ "append" \notin f
                       THEN [s EXCEPT !.disk = AppendTo(@, s.log.file, l)]
                       ELSE s
<1>0. IsLogState(s)
  BY DEF Sound
<1>1. CASE s.log.file = NoFile
  BY <1>0, <1>1, CarriesSame DEF CloseFile
<1>2. CASE s.log.file # NoFile
  <2>1. s.log.file \in PerMaps /\ s.log.file \in Files /\ "closed" \in Kinds
    BY <1>0, <1>2, StateNumbers, FilesApart DEF Kinds
  <2>2. /\ l \in Entry /\ l.path = s.log.file /\ l.kind = "closed" /\ l.n = calls
        /\ l.session = s.tally.sessions
    BY <1>0, <2>1, LineIs
  <2>3. Fits(s, l) /\ ~Counted(l)
    BY <2>1, <2>2, FilesApart DEF Fits, Counted
  <2> HIDE DEF l
  <2>4. put = s \/ PutTo(s, put, l)
    BY <1>0, <2>2, EnqueuePuts, DirectPuts
  <2>5. c = [put EXCEPT !.log.file = NoFile]
    BY <1>2 DEF CloseFile, l
  <2> HIDE DEF put, c
  <2>6. /\ Sound(put, Way(put), calls) /\ Carries(s, put)
        /\ put.log = s.log /\ put.tally = s.tally /\ put.local = s.local
    <3>1. CASE put = s
      BY <1>0, <3>1, CarriesSame
    <3>2. CASE PutTo(s, put, l)
      BY <2>3, <3>2, PutSound, PutCarries DEF Here, PutTo
    <3> QED
      BY <2>4, <3>1, <3>2
  <2>7. IsLogState(put)
    BY <2>6 DEF Sound
  <2>8. /\ DOMAIN c = DOMAIN put /\ c.chan = put.chan /\ c.disk = put.disk
        /\ c.tally = put.tally /\ c.local = put.local
        /\ c.log = [put.log EXCEPT !.file = NoFile]
    BY <2>5, <2>7 DEF IsLogState
  <2>9. /\ c.log.file = NoFile /\ c.log.type = put.log.type /\ c.log.found = put.log.found
        /\ c.log.errMap = put.log.errMap /\ c.log.async = put.log.async
    BY <2>7, <2>8 DEF IsLogState
  <2>10. IsLogState(c)
    BY <2>7, <2>8 DEF IsLogState
  <2>11. /\ Sound(c, Way(c), calls) /\ Way(c) = Way(put)
         /\ \A m : HeaderGiven(put, Way(put), m) => HeaderGiven(c, Way(c), m)
    BY <2>6, <2>8, <2>9, <2>10, Relog
  <2>12. Unclosed(c, Way(c))
    <3>1. \A x \in All(c.disk, Way(c)) : x.path # NoFile
      BY <2>10, <2>11, AllIs, EntryPath, FilesApart DEF IsLogState, Sound
    <3> QED
      BY <2>9, <3>1 DEF Unclosed
  <2>13. Carries(put, c)
    BY <2>7, <2>8, <2>9, <2>11, StateNumbers DEF Carries
  <2>14. Carries(s, c)
    BY <1>0, <2>6, <2>7, <2>10, <2>13, CarriesTrans
  <2> QED
    BY <2>6, <2>8, <2>9, <2>11, <2>12, <2>14 DEF c
<1> QED
  BY <1>1, <1>2

\* After the old file is closed, a file of a name that no line was ever logged to
\* is made, empty.
LEMMA MadeSound ==
  ASSUME Here, NEW c, Sound(c, Way(c), calls), c.log.file = NoFile, NEW made,
         DOMAIN made = DOMAIN c, made.chan = c.chan, made.local = c.local,
         made.disk = WithFile(c.disk, FreeName(c.disk)),
         made.log = [c.log EXCEPT !.file = FreeName(c.disk)],
         made.tally = [c.tally EXCEPT !.sessions = @ + 1]
  PROVE  /\ Sound(made, Way(made), calls) /\ Unclosed(made, Way(made)) /\ Carries(c, made)
         /\ made.log.file \in PerMaps /\ made.tally.mishaps = c.tally.mishaps
         /\ "create" \notin made.tally.mishaps =>
              \A x \in All(made.disk, Way(made)) : x.path # made.log.file
<1> DEFINE W == Way(c)
           p == FreeName(c.disk)
           d == c.disk
           e == made.disk
<1>1. /\ IsLogState(c) /\ W \in Seq(Entry) /\ Idle(c, W) /\ KindsFit(c, W) /\ Created(c, W)
      /\ Sessions(c, W) /\ Ordered(c, W) /\ Headed(c, W) /\ Numbered(c, W, calls)
      /\ IsDisk(d)
  BY DEF Sound, IsLogState
<1>2. p \in PerMaps /\ p \in Files /\ p \notin DOMAIN d /\ p # NoFile
  <2>1. IsFiniteSet(DOMAIN d)
    BY <1>1 DEF IsDisk
  <2> QED
    BY <2>1, FreeNameIsFree, FilesApart
<1>3. IsDisk(e) /\ DOMAIN e = DOMAIN d \cup {p} /\ \A q : On(e, q) = On(d, q)
  <2>1. e = WithFile(d, p)
    OBVIOUS
  <2> HIDE DEF d, p, e
  <2> QED
    BY <1>1, <1>2, <2>1, WithFileOn
<1>4. Way(made) = W
  BY DEF Way
<1>5. /\ made.log.file = p /\ made.log.type = c.log.type /\ made.log.found = c.log.found
      /\ made.log.errMap = c.log.errMap /\ made.log.async = c.log.async
      /\ made.tally.mishaps = c.tally.mishaps /\ made.tally.issued = c.tally.issued
      /\ made.tally.reported = c.tally.reported /\ made.tally.destroyed = c.tally.destroyed
      /\ made.tally.alerts = c.tally.alerts /\ made.tally.sessions = c.tally.sessions + 1
  BY <1>1 DEF IsLogState
<1>6. IsLogState(made)
  <2>1. c.tally.sessions + 1 \in Nat
    BY <1>1, StateNumbers
  <2> QED
    BY <1>1, <1>2, <1>3, <2>1 DEF IsLogState
<1> HIDE DEF W, d, e, p
<1>7. All(e, W) = All(d, W)
  <2>1. \A x : x \in All(e, W) <=> x \in All(d, W)
    BY <1>1, <1>3, AllIs
  <2> QED
    BY <2>1
<1>8. "create" \notin c.tally.mishaps => \A x \in All(d, W) : x.path # p
  <2> SUFFICES ASSUME "create" \notin c.tally.mishaps, NEW x \in All(d, W), x.path = p
               PROVE  FALSE
    OBVIOUS
  <2>1. CASE Has(W, x)
    BY <1>1, <1>2, <2>1 DEF Created, Has, d
  <2>2. CASE Has(On(d, x.path), x)
    BY <1>2, <2>2, EmptyHas DEF On
  <2> QED
    BY <1>1, <2>1, <2>2, AllIs
<1>9. Idle(made, W) /\ KindsFit(made, W) /\ Numbered(made, W, calls)
  BY <1>1, <1>5, <1>7 DEF Idle, KindsFit, Numbered, d, e
<1>10. Created(made, W)
  BY <1>1, <1>2, <1>3, <1>5 DEF Created, d, e
<1>11. Sessions(made, W)
  BY <1>1, <1>5, <1>7, <1>8 DEF Sessions, d, e
<1>12. Ordered(made, W)
  <2>1. \A x, y : Before(e, W, x, y) => Before(d, W, x, y)
    BY <1>3 DEF Before
  <2> QED
    BY <1>1, <1>5, <1>7, <2>1 DEF Ordered, d, e
<1>13. Headed(made, W)
  BY <1>1, <1>3, <1>5 DEF Headed, d, e
<1>14. Unclosed(made, W)
  BY <1>5, <1>7, <1>8 DEF Unclosed, e
<1>15. \A m : HeaderGiven(c, W, m) => HeaderGiven(made, W, m)
  BY <1>3, <1>5 DEF HeaderGiven, d, e
<1>16. Carries(c, made)
  BY <1>1, <1>4, <1>5, <1>7, <1>15, StateNumbers DEF Carries, W, d, e
<1>17. Sound(made, W, calls)
  BY <1>1, <1>6, <1>9, <1>10, <1>11, <1>12, <1>13 DEF Sound
<1>18. "create" \notin made.tally.mishaps => \A x \in All(e, W) : x.path # p
  BY <1>5, <1>7, <1>8
<1> QED
  BY <1>2, <1>4, <1>5, <1>14, <1>16, <1>17, <1>18 DEF e

LEMMA AlertSound ==
  ASSUME NEW s, Sound(s, Way(s), calls)
  PROVE  LET a == Alert(s)
         IN  /\ Sound(a, Way(a), calls) /\ Carries(s, a) /\ Way(a) = Way(s) /\ a.disk = s.disk
             /\ Unclosed(s, Way(s)) => Unclosed(a, Way(a))
             /\ a.log = s.log /\ a.local = s.local /\ a.chan = s.chan
             /\ a.tally = [s.tally EXCEPT !.alerts = @ + 1]
<1> DEFINE a == Alert(s)
<1>1. IsLogState(s) /\ s.tally.alerts \in Nat
  BY StateNumbers DEF Sound
<1>2. /\ DOMAIN a = DOMAIN s /\ a.log = s.log /\ a.local = s.local /\ a.chan = s.chan
      /\ a.disk = s.disk /\ a.tally = [s.tally EXCEPT !.alerts = @ + 1]
  BY <1>1 DEF Alert, IsLogState
<1> HIDE DEF a
<1>3. /\ a.tally.mishaps = s.tally.mishaps /\ a.tally.sessions = s.tally.sessions
      /\ a.tally.alerts = s.tally.alerts + 1 /\ a.tally.reported = s.tally.reported
      /\ a.tally.destroyed = s.tally.destroyed /\ a.tally.issued = s.tally.issued
  BY <1>1, <1>2 DEF IsLogState
<1>4. IsLogState(a)
  <2>1. s.tally.alerts + 1 \in Nat
    BY <1>1
  <2> QED
    BY <1>1, <1>2, <2>1 DEF IsLogState
<1>5. /\ Sound(a, Way(a), calls) /\ Way(a) = Way(s)
      /\ Unclosed(s, Way(s)) => Unclosed(a, Way(a))
      /\ \A m : HeaderGiven(s, Way(s), m) => HeaderGiven(a, Way(a), m)
  <2>1. s.tally.mishaps \subseteq a.tally.mishaps
    BY <1>3
  <2>2. a.log.file = s.log.file /\ a.tally.sessions = s.tally.sessions
    BY <1>2, <1>3
  <2> QED
    BY <1>2, <1>4, <2>1, <2>2, Relog
<1>6. Carries(s, a)
  BY <1>1, <1>2, <1>3, <1>5, StateNumbers DEF Carries
<1> QED
  BY <1>2, <1>5, <1>6 DEF a

LEMMA CreateNewFileSound ==
  ASSUME Here, NEW s, Sound(s, Way(s), calls), Unclosed(s, Way(s)), NEW f
  PROVE  LET c == CreateNewFile(s, f)
         IN  /\ Sound(c, Way(c), calls) /\ Unclosed(c, Way(c)) /\ Carries(s, c)
             /\ c.log.file \in PerMaps
<1> DEFINE o == CloseFile(s, f)
           p == FreeName(o.disk)
           c == Started(s, f)
           made == [c EXCEPT !.disk = WithFile(@, p)]
           l == Line(c, p, "header")
           r == CreateNewFile(s, f)
<1>1. /\ Sound(o, Way(o), calls) /\ Carries(s, o) /\ o.log.file = NoFile
      /\ IsLogState(o) /\ IsLogState(s)
  BY CloseFileSound DEF Sound
<1>2. c = [o EXCEPT !.log.file = p, !.tally.sessions = @ + 1]
  BY DEF Started
<1>3. r = IF "create" \in f THEN [Alert(c) EXCEPT !.local.logging = 0,
                                                   !.tally.mishaps = @ \cup {"create"}]
          ELSE IF Handled(made, f) THEN Enqueue(made, l)
          ELSE IF made.log.async /\ "append" \in f THEN Alert(made)
          ELSE [made EXCEPT !.disk = AppendTo(@, p, l)]
  <2>1. c.log.file = p
    BY <1>1, <1>2 DEF IsLogState
  <2> QED
    BY <2>1 DEF CreateNewFile, WithFile
<1> HIDE DEF o, c, r
<1>4. /\ DOMAIN c = DOMAIN o /\ c.log = [o.log EXCEPT !.file = p] /\ c.local = o.local
      /\ c.chan = o.chan /\ c.disk = o.disk /\ c.tally = [o.tally EXCEPT !.sessions = @ + 1]
  BY <1>1, <1>2 DEF IsLogState
<1>5. p \in PerMaps /\ p \in Files /\ o.tally.sessions + 1 \in Nat
  <2>1. IsFiniteSet(DOMAIN o.disk)
    BY <1>1 DEF IsLogState, IsDisk
  <2>2. o.tally.sessions \in Nat
    BY <1>1, StateNumbers
  <2> QED
    BY <2>1, <2>2, FreeNameIsFree, FilesApart
<1> HIDE DEF p
<1>6. CASE "create" \in f
  <2>1. r = [Alert(c) EXCEPT !.local.logging = 0, !.tally.mishaps = @ \cup {"create"}]
    BY <1>3, <1>6
  <2>2. /\ DOMAIN r = DOMAIN o /\ r.log = [o.log EXCEPT !.file = p] /\ r.chan = o.chan
        /\ r.disk = o.disk /\ r.local = [o.local EXCEPT !.logging = 0]
        /\ r.tally = [c.tally EXCEPT !.alerts = @ + 1, !.mishaps = @ \cup {"create"}]
    BY <1>1, <1>4, <2>1 DEF IsLogState, Alert
  <2>3. /\ r.log.file = p /\ r.log.type = o.log.type /\ r.log.found = o.log.found
        /\ r.log.errMap = o.log.errMap /\ r.log.async = o.log.async
    BY <1>1, <2>2 DEF IsLogState
  <2>4. /\ r.tally.mishaps = o.tally.mishaps \cup {"create"}
        /\ r.tally.alerts = o.tally.alerts + 1 /\ r.tally.reported = o.tally.reported
        /\ r.tally.destroyed = o.tally.destroyed /\ r.tally.issued = o.tally.issued
    BY <1>1, <1>4, <2>2 DEF IsLogState
  <2>5. IsLogState(r)
    <3>1. o.tally.alerts + 1 \in Nat
      BY <1>1, StateNumbers
    <3>2. r.tally \in [sessions : Nat, issued : Nat, reported : Nat, alerts : Nat, destroyed : Nat,
                       mishaps : SUBSET {"writer", "create", "bypass"}]
      <4>1. c.tally \in [sessions : Nat, issued : Nat, reported : Nat, alerts : Nat, destroyed : Nat,
                         mishaps : SUBSET {"writer", "create", "bypass"}]
        BY <1>1, <1>4, <1>5 DEF IsLogState
      <4>2. c.tally.alerts + 1 \in Nat
        BY <4>1
      <4>3. c.tally.mishaps \cup {"create"} \subseteq {"writer", "create", "bypass"}
        BY <4>1
      <4> QED
        BY <2>2, <4>1, <4>2, <4>3
    <3> QED
      BY <1>1, <1>5, <2>2, <3>2 DEF IsLogState
  <2>6. /\ Sound(r, Way(r), calls) /\ Way(r) = Way(o)
        /\ \A m : HeaderGiven(o, Way(o), m) => HeaderGiven(r, Way(r), m)
    BY <1>1, <2>2, <2>3, <2>4, <2>5, Relog
  <2>7. Unclosed(r, Way(r))
    BY <2>4 DEF Unclosed
  <2>8. Carries(o, r)
    BY <1>1, <2>2, <2>3, <2>4, <2>6, StateNumbers DEF Carries
  <2>9. Carries(s, r)
    BY <1>1, <2>5, <2>8, CarriesTrans
  <2> QED
    BY <1>5, <2>3, <2>6, <2>7, <2>9 DEF r
<1>7. CASE "create" \notin f
  <2>1. /\ DOMAIN made = DOMAIN o /\ made.chan = o.chan /\ made.local = o.local
        /\ made.disk = WithFile(o.disk, FreeName(o.disk))
        /\ made.log = [o.log EXCEPT !.file = FreeName(o.disk)]
        /\ made.tally = [o.tally EXCEPT !.sessions = @ + 1]
    BY <1>1, <1>4 DEF IsLogState, p
  <2> HIDE DEF made
  <2>2. /\ Sound(made, Way(made), calls) /\ Unclosed(made, Way(made)) /\ Carries(o, made)
        /\ made.log.file \in PerMaps
        /\ "create" \notin made.tally.mishaps =>
              \A x \in All(made.disk, Way(made)) : x.path # made.log.file
    BY <1>1, <2>1, MadeSound
  <2>3. IsLogState(made) /\ made.log.file = p /\ made.tally.sessions = c.tally.sessions
    BY <1>1, <1>4, <2>1, <2>2 DEF Sound, IsLogState, p
  <2>4. Carries(s, made)
    BY <1>1, <2>2, <2>3, CarriesTrans
  <2>5. /\ l \in Entry /\ l.path = p /\ l.kind = "header" /\ l.n = calls
        /\ l.session = made.tally.sessions
    <3>1. l = Line(made, p, "header") /\ "header" \in Kinds
      BY <2>3 DEF Line, Kinds
    <3> QED
      BY <1>5, <2>3, <3>1, LineIs
  <2> HIDE DEF l
  <2>6. Fits(made, l) /\ ~Counted(l)
    BY <1>5, <2>2, <2>3, <2>5, FilesApart DEF Fits, Counted
  <2>7. PutTo(made, r, l) \/ r = Alert(made)
    <3>1. CASE Handled(made, f)
      BY <1>3, <1>7, <2>3, <3>1, EnqueuePuts
    <3>2. CASE ~Handled(made, f) /\ made.log.async /\ "append" \in f
      BY <1>3, <1>7, <3>2
    <3>3. CASE ~Handled(made, f) /\ ~(made.log.async /\ "append" \in f)
      BY <1>3, <1>7, <2>3, <2>5, <3>3, DirectPuts
    <3> QED
      BY <3>1, <3>2, <3>3
  <2>8. CASE PutTo(made, r, l)
    <3>1. /\ Sound(r, Way(r), calls) /\ Unclosed(r, Way(r)) /\ Carries(made, r)
          /\ r.log = made.log /\ IsLogState(r)
      <4>1. hand \in Seq(Entry) /\ l.kind # "closed"
        BY <2>5 DEF Here
      <4>2. Sound(r, Way(r), calls) /\ Unclosed(r, Way(r)) /\ Carries(made, r)
        BY <2>2, <2>6, <2>8, <4>1, PutSound, PutCarries
      <4> QED
        BY <2>8, <4>2 DEF Sound, PutTo
    <3> QED
      BY <1>1, <2>2, <2>3, <2>4, <3>1, CarriesTrans DEF r
  <2>9. CASE r = Alert(made)
    <3>1. /\ Sound(r, Way(r), calls) /\ Unclosed(r, Way(r)) /\ Carries(made, r)
          /\ r.log = made.log /\ IsLogState(r)
      BY <2>2, <2>9, AlertSound DEF Sound
    <3> QED
      BY <1>1, <2>2, <2>3, <2>4, <3>1, CarriesTrans DEF r
  <2> QED
    BY <2>7, <2>8, <2>9
<1> QED
  BY <1>6, <1>7

-----------------------------------------------------------------------------
(* What accounts for the lines *)

LEMMA NumbersOf ==
  ASSUME NEW s, NEW W, NEW c \in Nat, Sound(s, W, c)
  PROVE  /\ IsFiniteSet(Numbers(s.disk, W)) /\ Cardinality(Numbers(s.disk, W)) \in Nat
<1>1. \A x \in All(s.disk, W) : x \in Entry
  BY AllIs DEF Sound, IsLogState
<1>2. Numbers(s.disk, W) \subseteq 0 .. c
  BY <1>1, EntryPath DEF Sound, Numbered, Numbers
<1>3. IsFiniteSet(0 .. c)
  <2>1. 0 \in Int /\ c \in Int
    OBVIOUS
  <2> QED
    BY <2>1, FS_Interval
<1> QED
  BY <1>2, <1>3, FS_Subset, FS_CardinalityType

LEMMA NumbersFinite ==
  ASSUME Here, NEW s, Sound(s, Way(s), calls)
  PROVE  /\ IsFiniteSet(Numbers(s.disk, Way(s))) /\ Cardinality(Numbers(s.disk, Way(s))) \in Nat
BY NumbersOf DEF Here

LEMMA AccountedType ==
  ASSUME Here, NEW s, Sound(s, Way(s), calls)
  PROVE  Accounted(s, Way(s)) \in Nat
<1>1. IsLogState(s)
  BY DEF Sound
<1> QED
  BY <1>1, NumbersFinite, StateNumbers DEF Accounted

LEMMA CarriesAccounted ==
  ASSUME Here, NEW s, Sound(s, Way(s), calls), NEW t, Sound(t, Way(t), calls), Carries(s, t)
  PROVE  Accounted(t, Way(t)) >= Accounted(s, Way(s))
<1>1. IsLogState(s) /\ IsLogState(t)
  BY DEF Sound
<1>2. Numbers(t.disk, Way(t)) = Numbers(s.disk, Way(s))
  BY DEF Carries, Numbers
<1>3. Cardinality(Numbers(s.disk, Way(s))) \in Nat
  BY NumbersFinite
<1>4. /\ t.chan.drops >= s.chan.drops /\ t.tally.alerts >= s.tally.alerts
      /\ t.tally.reported = s.tally.reported /\ t.tally.destroyed = s.tally.destroyed
  BY DEF Carries
<1> QED
  BY <1>1, <1>2, <1>3, <1>4, StateNumbers DEF Accounted

LEMMA PutAccounted ==
  ASSUME Here, NEW s, Sound(s, Way(s), calls), NEW t, Sound(t, Way(t), calls), NEW l,
         All(s.disk, Way(s)) \subseteq All(t.disk, Way(t)),
         All(t.disk, Way(t)) \subseteq All(s.disk, Way(s)) \cup {l},
         t.tally = s.tally, l.n = calls, Counted(l),
         \A x \in All(s.disk, Way(s)) : Counted(x) => x.n < calls,
         \/ l \in All(t.disk, Way(t)) /\ t.chan.drops >= s.chan.drops
         \/ t.chan.drops = s.chan.drops + 1
  PROVE  Accounted(t, Way(t)) >= Accounted(s, Way(s)) + 1
<1> DEFINE N == Numbers(s.disk, Way(s))
           M == Numbers(t.disk, Way(t))
<1>1. IsLogState(s) /\ IsLogState(t) /\ calls \in Nat
  BY DEF Sound, Here
<1>2. IsFiniteSet(N) /\ Cardinality(N) \in Nat /\ IsFiniteSet(M) /\ Cardinality(M) \in Nat
  BY NumbersFinite
<1>3. /\ s.chan.drops \in Nat /\ s.tally.alerts \in Nat /\ s.tally.reported \in Nat
      /\ s.tally.destroyed \in Nat /\ t.chan.drops \in Nat
  BY <1>1, StateNumbers
<1>4. calls \notin N
  BY <1>1 DEF Numbers
<1>5. CASE l \in All(t.disk, Way(t)) /\ t.chan.drops >= s.chan.drops
  <2>1. M = N \cup {calls}
    BY <1>5 DEF Numbers
  <2> HIDE DEF N, M
  <2>2. Cardinality(M) = Cardinality(N) + 1
    BY <1>2, <1>4, <2>1, FS_AddElement
  <2> QED
    BY <1>2, <1>3, <1>5, <2>2 DEF Accounted, N, M
<1>6. CASE t.chan.drops = s.chan.drops + 1
  <2>1. N \subseteq M
    BY DEF Numbers
  <2> HIDE DEF N, M
  <2>2. Cardinality(N) <= Cardinality(M)
    BY <1>2, <2>1, FS_Subset
  <2> QED
    BY <1>2, <1>3, <1>6, <2>2 DEF Accounted, N, M
<1> QED
  BY <1>5, <1>6

\* A line that is queued, or written, is there.
LEMMA EnqueueKept ==
  ASSUME hand \in Seq(Entry), NEW s, IsLogState(s), NEW f, Handled(s, f), NEW l \in Entry, Queued(s)
  PROVE  /\ Has(Way(Enqueue(s, l)), l) /\ l \in All(Enqueue(s, l).disk, Way(Enqueue(s, l)))
         /\ Enqueue(s, l).log.async
<1>0. /\ DOMAIN s = {"log", "local", "chan", "disk", "tally"} /\ s.log.async
      /\ s.chan \in [pending : Seq(Entry), drops : Nat, up : BOOLEAN] /\ s.chan.pending \in Seq(Entry)
  BY DEF IsLogState, Handled
<1> DEFINE t == Enqueue(s, l)
<1>1. t.chan.pending = Append(s.chan.pending, l) /\ t.log = s.log
  BY <1>0 DEF Enqueue
<1> HIDE DEF t
<1>2. Way(t) = Append(Way(s), l) /\ Way(s) \in Seq(Entry)
  BY <1>0, <1>1, ConcatAppend, ConcatProperties DEF Way
<1>3. Has(Way(t), l)
  BY <1>2, AppendHas
<1> QED
  BY <1>0, <1>1, <1>3 DEF t, All, Has

LEMMA DirectKept ==
  ASSUME NEW s, IsLogState(s), NEW l \in Entry, NEW t, t.disk = AppendTo(s.disk, l.path, l)
  PROVE  Has(On(t.disk, l.path), l) /\ l \in All(t.disk, Way(t))
<1>1. IsDisk(s.disk) /\ l.path \in Files
  BY EntryPath DEF IsLogState
<1>2. On(t.disk, l.path) = Append(On(s.disk, l.path), l) /\ On(s.disk, l.path) \in Seq(Entry)
  BY <1>1, AppendToOn, OnFacts
<1>3. Has(On(t.disk, l.path), l)
  BY <1>2, AppendHas
<1>4. l.path \in DOMAIN t.disk
  BY <1>1, AppendToOn
<1>5. PICK i \in 1 .. Len(t.disk[l.path]) : t.disk[l.path][i] = l
  BY <1>3, <1>4 DEF On, Has
<1> QED
  BY <1>3, <1>4, <1>5 DEF All

-----------------------------------------------------------------------------
(* CLog::Log *)

\* The file operations and the queue are asked again with the same answers.
LEMMA CreateUnhandled ==
  ASSUME NEW s, IsLogState(s), NEW f, ~Handled(s, f)
  PROVE  ~Handled(CreateNewFile(s, f), f)
<1>0. DOMAIN s = {"log", "local", "chan", "disk", "tally"}
      /\ DOMAIN s.log = {"type", "file", "found", "errMap", "async"}
  BY DEF IsLogState
<1> DEFINE o == CloseFile(s, f)
           c == Started(s, f)
           r == CreateNewFile(s, f)
<1>1. /\ o.chan = s.chan /\ o.log.async = s.log.async /\ DOMAIN o = DOMAIN s
      /\ DOMAIN o.log = DOMAIN s.log
  BY <1>0 DEF CloseFile
<1>2. /\ c.chan = s.chan /\ c.log.async = s.log.async /\ DOMAIN c = DOMAIN s
      /\ DOMAIN c.log = DOMAIN s.log
  <2> HIDE DEF o
  <2>1. c = [o EXCEPT !.log.file = FreeName(o.disk), !.tally.sessions = @ + 1]
    BY DEF Started, o
  <2> HIDE DEF c
  <2> QED
    BY <1>0, <1>1, <2>1
<1> DEFINE made == [c EXCEPT !.disk = [q \in DOMAIN @ \cup {c.log.file} |->
                                         IF q = c.log.file THEN <<>> ELSE @[q]]]
           l == Line(c, c.log.file, "header")
<1>3. r = IF "create" \in f THEN [Alert(c) EXCEPT !.local.logging = 0,
                                                   !.tally.mishaps = @ \cup {"create"}]
          ELSE IF Handled(made, f) THEN Enqueue(made, l)
          ELSE IF made.log.async /\ "append" \in f THEN Alert(made)
          ELSE [made EXCEPT !.disk = AppendTo(@, c.log.file, l)]
  BY DEF CreateNewFile
<1> HIDE DEF c, r, l
<1>4. made.chan = s.chan /\ made.log.async = s.log.async /\ DOMAIN made = DOMAIN s
  BY <1>0, <1>2
<1> HIDE DEF made
<1>5. ~Handled(made, f)
  BY <1>4 DEF Handled
<1>6. r.chan = s.chan /\ r.log.async = s.log.async
  BY <1>0, <1>2, <1>3, <1>4, <1>5 DEF Alert
<1> QED
  BY <1>6 DEF Handled, r

LEMMA LineFits ==
  ASSUME Here, NEW s, Sound(s, Way(s), calls), s.log.type \in {1, 2},
         s.log.type = 2 => s.log.file # NoFile, NEW kind \in {"line", "mapchange"}
  PROVE  LET l == Line(s, Target(s), kind)
         IN  /\ Fits(s, l) /\ l \in Entry /\ l.path = Target(s) /\ l.kind = kind /\ l.n = calls
             /\ Counted(l) <=> kind = "line"
<1> DEFINE l == Line(s, Target(s), kind)
<1>1. IsLogState(s) /\ kind \in Kinds
  BY DEF Sound, Kinds
<1>2. Target(s) = Daily \/ (Target(s) \in PerMaps /\ Target(s) = s.log.file)
  BY <1>1, StateNumbers DEF Target
<1>3. Target(s) \in Files /\ Target(s) # Error /\ Daily \notin PerMaps
  BY <1>2, FilesApart
<1>4. /\ l \in Entry /\ l.path = Target(s) /\ l.kind = kind /\ l.n = calls
      /\ l.session = s.tally.sessions
  BY <1>1, <1>3, LineIs
<1> HIDE DEF l
<1>5. Fits(s, l)
  BY <1>2, <1>3, <1>4 DEF Fits
<1> QED
  BY <1>4, <1>5 DEF Counted, l

LEMMA CarriesBelow ==
  ASSUME NEW s, NEW t, Carries(s, t), \A x \in All(s.disk, Way(s)) : Counted(x) => x.n < calls
  PROVE  \A x \in All(t.disk, Way(t)) : Counted(x) => x.n < calls
BY DEF Carries

\* What Log leaves as it was, but for the line itself.
Continues(s, t) ==
  /\ t.tally.issued = s.tally.issued /\ t.log.errMap = s.log.errMap
  /\ \A m : HeaderGiven(s, Way(s), m) => HeaderGiven(t, Way(t), m)

\* A line of Log, queued or written.
LEMMA LogPut ==
  ASSUME Here, NEW s, Sound(s, Way(s), calls), Unclosed(s, Way(s)), s.log.type \in {1, 2},
         s.log.type = 2 => s.log.file # NoFile, NEW kind \in {"line", "mapchange"},
         \A x \in All(s.disk, Way(s)) : Counted(x) => x.n < calls,
         NEW f, NEW t,
         \/ Handled(s, f) /\ t = Enqueue(s, Line(s, Target(s), kind))
         \/ ~Handled(s, f) /\ t = [s EXCEPT !.disk = AppendTo(@, Target(s), Line(s, Target(s), kind))]
  PROVE  /\ Sound(t, Way(t), calls) /\ Unclosed(t, Way(t)) /\ Continues(s, t)
         /\ Accounted(t, Way(t)) >= Accounted(s, Way(s))
         /\ kind = "line" => Accounted(t, Way(t)) >= Accounted(s, Way(s)) + 1
<1> DEFINE l == Line(s, Target(s), kind)
<1>0. IsLogState(s) /\ hand \in Seq(Entry)
  BY DEF Sound, Here
<1>1. /\ Fits(s, l) /\ l \in Entry /\ l.path = Target(s) /\ l.kind = kind /\ l.n = calls
      /\ Counted(l) <=> kind = "line"
  BY LineFits
<1> HIDE DEF l
<1>2. PutTo(s, t, l)
  BY <1>0, <1>1, EnqueuePuts, DirectPuts DEF l
<1>3. l.kind # "closed"
  BY <1>1
<1>4. /\ Sound(t, Way(t), calls) /\ Unclosed(t, Way(t))
      /\ All(s.disk, Way(s)) \subseteq All(t.disk, Way(t))
      /\ All(t.disk, Way(t)) \subseteq All(s.disk, Way(s)) \cup {l}
      /\ \A m : HeaderGiven(s, Way(s), m) => HeaderGiven(t, Way(t), m)
  BY <1>0, <1>1, <1>2, <1>3, PutSound
<1>5. t.tally = s.tally /\ t.log = s.log
  BY <1>2 DEF PutTo
<1>6. Continues(s, t)
  BY <1>4, <1>5 DEF Continues
<1>7. CASE kind = "line"
  <2>1. \/ l \in All(t.disk, Way(t)) /\ t.chan.drops >= s.chan.drops
        \/ t.chan.drops = s.chan.drops + 1
    <3>1. t.chan.drops >= s.chan.drops
      BY <1>0, <1>2, PutDrops
    <3>2. CASE Handled(s, f) /\ t = Enqueue(s, l)
      <4>1. CASE Queued(s)
        BY <1>0, <1>1, <3>1, <3>2, <4>1, EnqueueKept
      <4>2. CASE ~Queued(s)
        BY <1>0, <3>2, <4>2, EnqueuePuts
      <4> QED
        BY <4>1, <4>2
    <3>3. CASE t = [s EXCEPT !.disk = AppendTo(@, Target(s), l)]
      <4>1. t.disk = AppendTo(s.disk, l.path, l)
        BY <1>0, <1>1, <3>3 DEF IsLogState
      <4> QED
        BY <1>0, <1>1, <3>1, <4>1, DirectKept
    <3> QED
      BY <3>2, <3>3 DEF l
  <2>2. Accounted(t, Way(t)) >= Accounted(s, Way(s)) + 1
    BY <1>1, <1>4, <1>5, <1>7, <2>1, PutAccounted
  <2>3. Accounted(t, Way(t)) \in Nat /\ Accounted(s, Way(s)) \in Nat
    BY <1>4, AccountedType
  <2> QED
    BY <1>4, <1>6, <2>2, <2>3
<1>8. CASE kind # "line"
  <2>1. Carries(s, t)
    BY <1>0, <1>1, <1>2, <1>8, PutCarries
  <2> QED
    BY <1>4, <1>6, <1>8, <2>1, CarriesAccounted
<1> QED
  BY <1>7, <1>8

\* An alert that switches logging off.
LEMMA AlertOff ==
  ASSUME Here, NEW s, Sound(s, Way(s), calls), Unclosed(s, Way(s)), NEW t,
         \/ t = [Alert(s) EXCEPT !.log.type = 0]
         \/ t = [Alert(s) EXCEPT !.log.found = TRUE]
  PROVE  /\ Sound(t, Way(t), calls) /\ Unclosed(t, Way(t)) /\ Continues(s, t)
         /\ Accounted(t, Way(t)) = Accounted(s, Way(s)) + 1
<1> DEFINE a == Alert(s)
<1>1. /\ Sound(a, Way(a), calls) /\ Unclosed(a, Way(a)) /\ Way(a) = Way(s) /\ a.disk = s.disk
      /\ a.log = s.log /\ a.chan = s.chan /\ a.tally = [s.tally EXCEPT !.alerts = @ + 1]
      /\ \A m : HeaderGiven(s, Way(s), m) => HeaderGiven(a, Way(a), m)
  BY AlertSound DEF Carries
<1>2. IsLogState(a) /\ IsLogState(s)
  BY <1>1 DEF Sound
<1> HIDE DEF a
<1>3. /\ DOMAIN t = DOMAIN a /\ t.chan = a.chan /\ t.disk = a.disk /\ t.tally = a.tally
      /\ t.local = a.local
      /\ t.log = [a.log EXCEPT !.type = 0] \/ t.log = [a.log EXCEPT !.found = TRUE]
  BY <1>2 DEF a, IsLogState
<1>4. t.log.async = a.log.async /\ t.log.file = a.log.file /\ t.log.errMap = a.log.errMap
  BY <1>2, <1>3 DEF IsLogState
<1>5. IsLogState(t)
  <2>1. t.log \in [type : 0 .. 3, file : PerMaps \cup {NoFile}, found : BOOLEAN,
                   errMap : BOOLEAN, async : BOOLEAN]
    <3>1. a.log \in [type : 0 .. 3, file : PerMaps \cup {NoFile}, found : BOOLEAN,
                     errMap : BOOLEAN, async : BOOLEAN]
      BY <1>2 DEF IsLogState
    <3>2. 0 \in 0 .. 3 /\ TRUE \in BOOLEAN
      OBVIOUS
    <3>3. CASE t.log = [a.log EXCEPT !.type = 0]
      BY <3>1, <3>2, <3>3
    <3>4. CASE t.log = [a.log EXCEPT !.found = TRUE]
      BY <3>1, <3>2, <3>4
    <3> QED
      BY <1>3, <3>3, <3>4
  <2> QED
    BY <1>2, <1>3, <2>1 DEF IsLogState
<1>6. /\ Sound(t, Way(t), calls) /\ Unclosed(t, Way(t)) /\ Way(t) = Way(a)
      /\ \A m : HeaderGiven(a, Way(a), m) => HeaderGiven(t, Way(t), m)
  BY <1>1, <1>3, <1>4, <1>5, Relog
<1>7. /\ t.tally.issued = s.tally.issued /\ t.tally.alerts = s.tally.alerts + 1
      /\ t.tally.reported = s.tally.reported /\ t.tally.destroyed = s.tally.destroyed
  BY <1>1, <1>2, <1>3 DEF IsLogState
<1>8. Continues(s, t)
  BY <1>1, <1>4, <1>6, <1>7 DEF Continues
<1>9. Accounted(t, Way(t)) = Accounted(s, Way(s)) + 1
  <2>1. Cardinality(Numbers(s.disk, Way(s))) \in Nat
    BY NumbersFinite
  <2>2. t.disk = s.disk /\ t.chan.drops = s.chan.drops /\ Way(t) = Way(s)
    BY <1>1, <1>3, <1>6
  <2>3. /\ s.chan.drops \in Nat /\ s.tally.alerts \in Nat /\ s.tally.reported \in Nat
        /\ s.tally.destroyed \in Nat
    BY <1>2, StateNumbers
  <2> QED
    BY <1>7, <2>1, <2>2, <2>3 DEF Accounted
<1> QED
  BY <1>6, <1>8, <1>9

LEMMA LogLineSound ==
  ASSUME Here, NEW s0, Sound(s0, Way(s0), calls), Unclosed(s0, Way(s0)),
         \A x \in All(s0.disk, Way(s0)) : Counted(x) => x.n < calls,
         NEW kind \in {"line", "mapchange"}, NEW f
  PROVE  LET t == LogLine(s0, kind, f)
         IN  /\ Sound(t, Way(t), calls) /\ Unclosed(t, Way(t)) /\ Continues(s0, t)
             /\ Accounted(t, Way(t)) >= Accounted(s0, Way(s0))
             /\ kind = "line" /\ s0.log.type \in {1, 2} =>
                  Accounted(t, Way(t)) >= Accounted(s0, Way(s0)) + 1
<1> DEFINE s == IF s0.log.type = 2 /\ s0.log.file = NoFile THEN CreateNewFile(s0, f) ELSE s0
           again == CreateNewFile(s, f)
           Direct(u) == [u EXCEPT !.disk = AppendTo(@, Target(u), Line(u, Target(u), kind))]
           t == LogLine(s0, kind, f)
           Small(a, b) == Accounted(b, Way(b)) >= Accounted(a, Way(a))
           More(a, b) == Accounted(b, Way(b)) >= Accounted(a, Way(a)) + 1
<1>0. IsLogState(s0)
  BY DEF Sound
<1>1. t = IF s.log.type \notin {1, 2} THEN s
          ELSE IF Handled(s, f) THEN Enqueue(s, Line(s, Target(s), kind))
          ELSE IF "append" \notin f THEN Direct(s)
          ELSE IF s.log.type = 2 /\ "retry" \notin f THEN Direct(again)
          ELSE [Alert(IF s.log.type = 2 THEN again ELSE s) EXCEPT !.log.type = 0]
  BY DEF LogLine
<1>2. /\ Sound(s, Way(s), calls) /\ Unclosed(s, Way(s)) /\ Carries(s0, s)
      /\ s.log.type = 2 => s.log.file # NoFile
  <2>1. CASE s0.log.type = 2 /\ s0.log.file = NoFile
    BY <2>1, CreateNewFileSound, FilesApart
  <2>2. CASE ~(s0.log.type = 2 /\ s0.log.file = NoFile)
    BY <1>0, <2>2, CarriesSame
  <2> QED
    BY <2>1, <2>2
<1> HIDE DEF s
<1>3. /\ Sound(again, Way(again), calls) /\ Unclosed(again, Way(again)) /\ Carries(s, again)
      /\ again.log.file # NoFile
  BY <1>2, CreateNewFileSound, FilesApart
<1>4. ~Handled(s, f) => ~Handled(again, f)
  BY <1>2, CreateUnhandled DEF Sound
<1> HIDE DEF again, t
<1>5. /\ \A x \in All(s.disk, Way(s)) : Counted(x) => x.n < calls
      /\ \A x \in All(again.disk, Way(again)) : Counted(x) => x.n < calls
      /\ s.log.type = s0.log.type /\ again.log.type = s.log.type
  <2>1. \A x \in All(s.disk, Way(s)) : Counted(x) => x.n < calls
    BY <1>2, CarriesBelow
  <2> QED
    BY <1>2, <1>3, <2>1, CarriesBelow DEF Carries
<1>6. Small(s0, s) /\ Small(s, again)
  BY <1>2, <1>3, CarriesAccounted
<1>7. Continues(s0, s) /\ Continues(s, again)
  BY <1>2, <1>3 DEF Carries, Continues
<1>8. CASE s.log.type \notin {1, 2}
  BY <1>1, <1>2, <1>5, <1>6, <1>7, <1>8 DEF t
<1>9. CASE s.log.type \in {1, 2}
  <2> DEFINE u == IF ~Handled(s, f) /\ "append" \in f /\ s.log.type = 2 THEN again ELSE s
  <2>1. /\ Sound(u, Way(u), calls) /\ Unclosed(u, Way(u)) /\ Continues(s0, u) /\ u.log.type \in {1, 2}
        /\ u.log.type = 2 => u.log.file # NoFile
        /\ \A x \in All(u.disk, Way(u)) : Counted(x) => x.n < calls
        /\ Handled(s, f) => u = s
        /\ ~Handled(s, f) => ~Handled(u, f)
    BY <1>2, <1>3, <1>4, <1>5, <1>7, <1>9 DEF Continues
  <2>2. \/ Handled(s, f) /\ Handled(u, f) /\ t = Enqueue(u, Line(u, Target(u), kind))
        \/ ~Handled(u, f) /\ t = Direct(u)
        \/ t = [Alert(u) EXCEPT !.log.type = 0]
    BY <1>1, <1>9, <2>1
  <2>3. Small(s0, u)
    <3>1. Accounted(s0, Way(s0)) \in Nat /\ Accounted(s, Way(s)) \in Nat
          /\ Accounted(again, Way(again)) \in Nat
      BY <1>2, <1>3, AccountedType
    <3> QED
      BY <1>6, <3>1
  <2> HIDE DEF u
  <2>4. /\ Sound(t, Way(t), calls) /\ Unclosed(t, Way(t)) /\ Continues(u, t) /\ Small(u, t)
        /\ kind = "line" => More(u, t)
    <3>1. CASE \/ Handled(u, f) /\ t = Enqueue(u, Line(u, Target(u), kind))
               \/ ~Handled(u, f) /\ t = Direct(u)
      BY <2>1, <3>1, LogPut
    <3>2. CASE t = [Alert(u) EXCEPT !.log.type = 0]
      <4>1. /\ Sound(t, Way(t), calls) /\ Unclosed(t, Way(t)) /\ Continues(u, t)
            /\ Accounted(t, Way(t)) = Accounted(u, Way(u)) + 1
        BY <2>1, <3>2, AlertOff
      <4>2. Accounted(u, Way(u)) \in Nat
        BY <2>1, AccountedType
      <4> QED
        BY <4>1, <4>2
    <3> QED
      BY <2>2, <3>1, <3>2
  <2>5. Accounted(s0, Way(s0)) \in Nat /\ Accounted(u, Way(u)) \in Nat /\ Accounted(t, Way(t)) \in Nat
    BY <2>1, <2>4, AccountedType
  <2>6. Small(s0, t) /\ (kind = "line" => More(s0, t))
    BY <2>3, <2>4, <2>5
  <2>7. Continues(s0, t)
    BY <2>1, <2>4 DEF Continues
  <2> QED
    BY <2>4, <2>6, <2>7 DEF t
<1> QED
  BY <1>8, <1>9

-----------------------------------------------------------------------------
(* CLog::LogError *)

LEMMA LogErrorSound ==
  ASSUME Here, NEW s, Sound(s, Way(s), calls), Unclosed(s, Way(s)), Latched(s, Way(s), map),
         \A x \in All(s.disk, Way(s)) : Counted(x) => x.n < calls, NEW f
  PROVE  LET t == LogErrorLine(s, f)
         IN  /\ Sound(t, Way(t), calls) /\ Unclosed(t, Way(t)) /\ Latched(t, Way(t), map)
             /\ t.tally.issued = s.tally.issued
             /\ Accounted(t, Way(t)) >= Accounted(s, Way(s))
             /\ ~s.log.found => Accounted(t, Way(t)) >= Accounted(s, Way(s)) + 1
<1> DEFINE l == ErrorLine(s)
           put == IF Handled(s, f) THEN Enqueue(s, l)
                  ELSE [s EXCEPT !.disk = AppendTo(@, Error, l)]
           t == LogErrorLine(s, f)
<1>0. IsLogState(s) /\ hand \in Seq(Entry)
  BY DEF Sound, Here
<1>1. Accounted(s, Way(s)) \in Nat
  BY AccountedType
<1>2. /\ l \in Entry /\ l.path = Error /\ l.kind = "error" /\ l.n = calls /\ l.map = map
      /\ l.head = ~s.log.errMap
  <2>1. "error" \in Kinds /\ Error \in Files
    BY FilesApart DEF Kinds
  <2> DEFINE k == Line(s, Error, "error")
  <2>2. k \in Entry /\ k.path = Error /\ k.kind = "error" /\ k.n = calls /\ k.map = map
    BY <1>0, <2>1, LineIs
  <2>3. l = [k EXCEPT !.head = ~s.log.errMap]
    BY DEF ErrorLine
  <2>4. (~s.log.errMap) \in BOOLEAN
    OBVIOUS
  <2> HIDE DEF k, l
  <2> QED
    BY <2>2, <2>3, <2>4 DEF Entry
<1>3. CASE s.log.found
  BY <1>1, <1>3 DEF LogErrorLine
<1>4. CASE ~s.log.found /\ ~Handled(s, f) /\ "append" \in f
  <2>1. t = [Alert(s) EXCEPT !.log.found = TRUE]
    BY <1>4 DEF LogErrorLine
  <2>2. /\ Sound(t, Way(t), calls) /\ Unclosed(t, Way(t)) /\ Continues(s, t)
        /\ Accounted(t, Way(t)) = Accounted(s, Way(s)) + 1
    BY <2>1, AlertOff
  <2>3. Latched(t, Way(t), map)
    BY <2>2 DEF Continues, Latched
  <2> QED
    BY <1>1, <2>2, <2>3 DEF Continues
<1>5. CASE ~s.log.found /\ (Handled(s, f) \/ "append" \notin f)
  <2>1. \/ Handled(s, f) /\ t = [put EXCEPT !.log.errMap = @ \/ Queued(s)]
        \/ ~Handled(s, f) /\ t = [put EXCEPT !.log.errMap = TRUE]
    <3>1. CASE Handled(s, f)
      BY <1>5, <3>1 DEF LogErrorLine
    <3>2. CASE ~Handled(s, f)
      <4>1. t = [s EXCEPT !.disk = AppendTo(@, Error, l), !.log.errMap = TRUE]
        BY <1>5, <3>2 DEF LogErrorLine
      <4>2. [s EXCEPT !.disk = AppendTo(@, Error, l), !.log.errMap = TRUE]
              = [[s EXCEPT !.disk = AppendTo(@, Error, l)] EXCEPT !.log.errMap = TRUE]
        BY <1>0 DEF IsLogState
      <4> QED
        BY <3>2, <4>1, <4>2
    <3> QED
      BY <3>1, <3>2
  <2>2. Fits(s, l) /\ Counted(l) /\ l.kind # "closed"
    <3>1. l.path = Error => Heads(l, l.map) \/ HeaderGiven(s, Way(s), l.map)
      BY <1>2 DEF Heads, Latched
    <3> QED
      BY <1>2, <3>1, FilesApart DEF Fits, Counted
  <2> HIDE DEF l
  <2>3. PutTo(s, put, l) /\ (~Handled(s, f) => put.disk = AppendTo(s.disk, l.path, l))
    BY <1>0, <1>2, EnqueuePuts, DirectPuts DEF IsLogState
  <2>4. /\ Sound(put, Way(put), calls) /\ Unclosed(put, Way(put))
        /\ All(s.disk, Way(s)) \subseteq All(put.disk, Way(put))
        /\ All(put.disk, Way(put)) \subseteq All(s.disk, Way(s)) \cup {l}
        /\ \A m : HeaderGiven(s, Way(s), m) => HeaderGiven(put, Way(put), m)
    <3> HIDE DEF put
    <3> QED
      BY <1>0, <2>2, <2>3, PutSound
  <2>5. put.tally = s.tally /\ put.log = s.log /\ IsLogState(put)
    BY <2>3, <2>4 DEF PutTo, Sound
  <2>6. \/ l \in All(put.disk, Way(put)) /\ put.chan.drops >= s.chan.drops
        \/ put.chan.drops = s.chan.drops + 1
    <3>1. put.chan.drops >= s.chan.drops
      BY <1>0, <2>3, PutDrops
    <3>2. CASE Handled(s, f) /\ Queued(s)
      BY <1>0, <1>2, <3>1, <3>2, EnqueueKept
    <3>3. CASE Handled(s, f) /\ ~Queued(s)
      BY <1>0, <3>3, EnqueuePuts
    <3>4. CASE ~Handled(s, f)
      BY <1>0, <1>2, <2>3, <3>1, <3>4, DirectKept
    <3> QED
      BY <3>2, <3>3, <3>4
  <2>7. Accounted(put, Way(put)) >= Accounted(s, Way(s)) + 1 /\ Accounted(put, Way(put)) \in Nat
    BY <1>2, <2>2, <2>4, <2>5, <2>6, PutAccounted, AccountedType
  \* The header is where the latch says: it was given before, or l carries it.
  <2>8. s.log.errMap \/ (Handled(s, f) => Queued(s)) => HeaderGiven(put, Way(put), map)
    <3>1. CASE s.log.errMap
      BY <2>4, <3>1 DEF Latched
    <3>2. CASE ~s.log.errMap /\ Handled(s, f) /\ Queued(s)
      <4>1. Heads(l, map) /\ Has(Way(put), l) /\ put.log.async
        BY <1>0, <1>2, <3>2, EnqueueKept DEF Heads
      <4> QED
        BY <4>1, HeaderHas DEF HeaderGiven
    <3>3. CASE ~s.log.errMap /\ ~Handled(s, f)
      <4>1. Heads(l, map)
        BY <1>2, <3>3 DEF Heads
      <4>2. Has(On(put.disk, Error), l)
        BY <1>0, <1>2, <2>3, <3>3, DirectKept
      <4> QED
        BY <4>1, <4>2, HeaderHas DEF HeaderGiven
    <3> QED
      BY <3>1, <3>2, <3>3
  <2> HIDE DEF put, t
  <2>9. /\ DOMAIN t = DOMAIN put /\ t.chan = put.chan /\ t.disk = put.disk
        /\ t.tally = put.tally /\ t.local = put.local
        /\ \E b \in BOOLEAN : t.log = [put.log EXCEPT !.errMap = b]
        /\ t.log.errMap => s.log.errMap \/ (Handled(s, f) => Queued(s))
    <3>1. (put.log.errMap \/ Queued(s)) \in BOOLEAN
      BY <2>5, StateNumbers
    <3>2. CASE Handled(s, f) /\ t = [put EXCEPT !.log.errMap = @ \/ Queued(s)]
      <4>1. t.log = [put.log EXCEPT !.errMap = put.log.errMap \/ Queued(s)]
        BY <2>5, <3>2 DEF IsLogState
      <4>2. t.log.errMap => s.log.errMap \/ Queued(s)
        BY <2>5, <4>1 DEF IsLogState
      <4> QED
        BY <2>5, <3>1, <3>2, <4>1, <4>2 DEF IsLogState
    <3>3. CASE ~Handled(s, f) /\ t = [put EXCEPT !.log.errMap = TRUE]
      BY <2>5, <3>3 DEF IsLogState
    <3> QED
      BY <2>1, <3>2, <3>3
  <2>10. t.log.async = put.log.async /\ t.log.file = put.log.file
    BY <2>5, <2>9 DEF IsLogState
  <2>11. IsLogState(t)
    <3>1. PICK b \in BOOLEAN : t.log = [put.log EXCEPT !.errMap = b]
      BY <2>9
    <3>2. t.log \in [type : 0 .. 3, file : PerMaps \cup {NoFile}, found : BOOLEAN,
                     errMap : BOOLEAN, async : BOOLEAN]
      BY <2>5, <3>1 DEF IsLogState
    <3> QED
      BY <2>5, <2>9, <3>2 DEF IsLogState
  <2>12. /\ Sound(t, Way(t), calls) /\ Unclosed(t, Way(t)) /\ Way(t) = Way(put)
         /\ \A m : HeaderGiven(put, Way(put), m) => HeaderGiven(t, Way(t), m)
    BY <2>4, <2>9, <2>10, <2>11, Relog
  <2>13. Latched(t, Way(t), map)
    BY <2>8, <2>9, <2>12 DEF Latched
  <2>14. Accounted(t, Way(t)) = Accounted(put, Way(put))
    BY <2>9, <2>12 DEF Accounted
  <2> QED
    BY <1>1, <2>5, <2>7, <2>9, <2>12, <2>13, <2>14 DEF t
<1> QED
  BY <1>3, <1>4, <1>5

-----------------------------------------------------------------------------
(* CLog::MapChange *)

\* The settings of the new map, once its drops are reported.
LatchedFor(s) ==
  [ReportDrops(SetLogType(s)) EXCEPT
     !.log.async = s.local.async, !.log.errMap = FALSE,
     !.tally.mishaps = @ \cup IF s.local.async \/ hand \o s.chan.pending = <<>>
                               THEN {} ELSE {"bypass"}]

LEMMA LatchedForSound ==
  ASSUME Here, NEW s, Sound(s, Way(s), calls), Unclosed(s, Way(s))
  PROVE  LET t == LatchedFor(s)
         IN  /\ Sound(t, Way(t), calls) /\ Unclosed(t, Way(t)) /\ ~t.log.errMap
             /\ t.tally.issued = s.tally.issued /\ t.disk = s.disk /\ Way(t) = Way(s)
             /\ Accounted(t, Way(t)) = Accounted(s, Way(s))
<1> DEFINE u == SetLogType(s)
           v == ReportDrops(u)
           t == LatchedFor(s)
           B == IF s.local.async \/ Way(s) = <<>> THEN {} ELSE {"bypass"}
           W == Way(s)
<1>0. /\ IsLogState(s) /\ W \in Seq(Entry) /\ Idle(s, W) /\ KindsFit(s, W) /\ Created(s, W)
      /\ Sessions(s, W) /\ Ordered(s, W) /\ Headed(s, W) /\ Numbered(s, W, calls)
  BY DEF Sound
<1>1. /\ DOMAIN u = DOMAIN s /\ u.chan = s.chan /\ u.disk = s.disk /\ u.tally = s.tally
      /\ \E k \in 0 .. 3 : u.log = [s.log EXCEPT !.type = k]
      /\ u.local \in [logging : Settings \cup {0, 1}, async : BOOLEAN]
  <2>1. s.local \in [logging : Settings \cup {0, 1}, async : BOOLEAN]
    BY <1>0 DEF IsLogState
  <2>2. CASE s.local.logging \in 0 .. 3
    <3>1. u = [s EXCEPT !.log.type = s.local.logging]
      BY <2>2 DEF SetLogType
    <3> QED
      BY <1>0, <2>1, <2>2, <3>1 DEF IsLogState
  <2>3. CASE s.local.logging \notin 0 .. 3
    <3>1. u = [s EXCEPT !.log.type = 1, !.local.logging = 1]
      BY <2>3 DEF SetLogType
    <3>2. 1 \in 0 .. 3 /\ u.log = [s.log EXCEPT !.type = 1]
      BY <1>0, <3>1 DEF IsLogState
    <3>3. u.local = [s.local EXCEPT !.logging = 1]
      BY <1>0, <3>1 DEF IsLogState
    <3> QED
      BY <1>0, <2>1, <3>1, <3>2, <3>3 DEF IsLogState
  <2> QED
    BY <2>2, <2>3
<1> HIDE DEF u
<1>2. /\ DOMAIN v = DOMAIN s /\ v.disk = s.disk /\ v.local = u.local /\ v.log = u.log
      /\ v.chan = [s.chan EXCEPT !.drops = 0]
      /\ v.tally = [s.tally EXCEPT !.reported = @ + s.chan.drops]
  BY <1>0, <1>1 DEF ReportDrops, IsLogState
<1>3. t = [v EXCEPT !.log.async = s.local.async, !.log.errMap = FALSE, !.tally.mishaps = @ \cup B]
  BY DEF LatchedFor, Way, u
<1> HIDE DEF v, t
<1>4. /\ DOMAIN t = DOMAIN s /\ t.disk = s.disk /\ t.local = u.local
      /\ t.chan = [s.chan EXCEPT !.drops = 0]
      /\ t.log = [u.log EXCEPT !.async = s.local.async, !.errMap = FALSE]
      /\ t.tally = [s.tally EXCEPT !.reported = @ + s.chan.drops, !.mishaps = @ \cup B]
  <2>1. DOMAIN v = {"log", "local", "chan", "disk", "tally"}
    BY <1>0, <1>2 DEF IsLogState
  <2>2. t.tally = [v.tally EXCEPT !.mishaps = @ \cup B]
    BY <1>3, <2>1
  <2>3. t.tally = [s.tally EXCEPT !.reported = @ + s.chan.drops, !.mishaps = @ \cup B]
    BY <1>0, <1>2, <2>2 DEF IsLogState
  <2>4. t.log = [u.log EXCEPT !.async = s.local.async, !.errMap = FALSE]
    BY <1>2, <1>3, <2>1
  <2> QED
    BY <1>2, <1>3, <2>1, <2>3, <2>4
<1>5. /\ t.chan.up = s.chan.up /\ t.chan.pending = s.chan.pending /\ t.chan.drops = 0
      /\ t.chan \in [pending : Seq(Entry), drops : Nat, up : BOOLEAN]
  BY <1>0, <1>4 DEF IsLogState
<1>6. /\ t.log.file = s.log.file /\ t.log.async = s.local.async /\ t.log.errMap = FALSE
      /\ t.log \in [type : 0 .. 3, file : PerMaps \cup {NoFile}, found : BOOLEAN,
                    errMap : BOOLEAN, async : BOOLEAN]
  <2>1. PICK k \in 0 .. 3 : u.log = [s.log EXCEPT !.type = k]
    BY <1>1
  <2>2. /\ u.log.file = s.log.file
        /\ u.log \in [type : 0 .. 3, file : PerMaps \cup {NoFile}, found : BOOLEAN,
                      errMap : BOOLEAN, async : BOOLEAN]
    BY <1>0, <2>1 DEF IsLogState
  <2>3. s.local.async \in BOOLEAN /\ FALSE \in BOOLEAN
    BY <1>0 DEF IsLogState
  <2> QED
    BY <1>4, <2>2, <2>3
<1>7. /\ t.tally.mishaps = s.tally.mishaps \cup B /\ t.tally.sessions = s.tally.sessions
      /\ t.tally.issued = s.tally.issued /\ t.tally.alerts = s.tally.alerts
      /\ t.tally.destroyed = s.tally.destroyed
      /\ t.tally.reported = s.tally.reported + s.chan.drops
      /\ t.tally \in [sessions : Nat, issued : Nat, reported : Nat, alerts : Nat, destroyed : Nat,
                      mishaps : SUBSET {"writer", "create", "bypass"}]
  <2>1. s.tally \in [sessions : Nat, issued : Nat, reported : Nat, alerts : Nat, destroyed : Nat,
                     mishaps : SUBSET {"writer", "create", "bypass"}]
    BY <1>0 DEF IsLogState
  <2>2. s.tally.reported + s.chan.drops \in Nat
    BY <1>0, StateNumbers
  <2>3. s.tally.mishaps \cup B \subseteq {"writer", "create", "bypass"}
    BY <2>1
  <2> HIDE DEF B
  <2> QED
    BY <1>4, <2>1, <2>2, <2>3
<1>8. IsLogState(t)
  BY <1>0, <1>1, <1>4, <1>5, <1>6, <1>7 DEF IsLogState
<1>9. Way(t) = W
  BY <1>5 DEF Way
<1>10. \A x \in All(s.disk, W) : x.path # NoFile
  BY <1>0, AllIs, EntryPath, FilesApart DEF IsLogState
<1>11. Idle(t, W)
  BY <1>0, <1>5, <1>6, <1>7 DEF Idle
<1> HIDE DEF W, B
<1>12. KindsFit(t, W) /\ Numbered(t, W, calls) /\ Created(t, W)
  BY <1>0, <1>4, <1>6, <1>7 DEF KindsFit, Numbered, Created
<1>13. Sessions(t, W) /\ Ordered(t, W) /\ Headed(t, W)
  BY <1>0, <1>4, <1>6, <1>7 DEF Sessions, Ordered, Headed
<1>14. Unclosed(t, W)
  BY <1>4, <1>6, <1>7 DEF Unclosed, W
<1>15. Accounted(t, W) = Accounted(s, W)
  <2>1. Cardinality(Numbers(s.disk, W)) \in Nat
    BY NumbersFinite DEF W
  <2>2. /\ s.chan.drops \in Nat /\ s.tally.alerts \in Nat /\ s.tally.reported \in Nat
        /\ s.tally.destroyed \in Nat
    BY <1>0, StateNumbers
  <2> QED
    BY <1>4, <1>5, <1>7, <2>1, <2>2 DEF Accounted
<1> QED
  BY <1>0, <1>4, <1>6, <1>7, <1>8, <1>9, <1>11, <1>12, <1>13, <1>14, <1>15 DEF Sound, W, t

LEMMA MapChangeSound ==
  ASSUME Here, NEW s, Sound(s, Way(s), calls), Unclosed(s, Way(s)),
         \A x \in All(s.disk, Way(s)) : Counted(x) => x.n < calls, NEW f
  PROVE  LET t == MapChangeTo(s, f)
         IN  /\ Sound(t, Way(t), calls) /\ Unclosed(t, Way(t)) /\ ~t.log.errMap
             /\ t.tally.issued = s.tally.issued
             /\ Accounted(t, Way(t)) >= Accounted(s, Way(s))
<1> DEFINE u == LatchedFor(s)
           t == MapChangeTo(s, f)
<1>1. /\ Sound(u, Way(u), calls) /\ Unclosed(u, Way(u)) /\ ~u.log.errMap
      /\ u.tally.issued = s.tally.issued /\ u.disk = s.disk /\ Way(u) = Way(s)
      /\ Accounted(u, Way(u)) = Accounted(s, Way(s))
  BY LatchedForSound
<1>2. t = IF u.log.type = 2 THEN CreateNewFile(u, f)
          ELSE IF u.log.type = 1 THEN LogLine(u, "mapchange", f)
          ELSE u
  BY DEF MapChangeTo, LatchedFor
<1> HIDE DEF u, t
<1>3. CASE u.log.type = 2
  <2>1. /\ Sound(t, Way(t), calls) /\ Unclosed(t, Way(t)) /\ Carries(u, t)
    BY <1>1, <1>2, <1>3, CreateNewFileSound
  <2> QED
    BY <1>1, <2>1, CarriesAccounted DEF Carries, t
<1>4. CASE u.log.type = 1
  <2>1. t = LogLine(u, "mapchange", f) /\ "mapchange" \in {"line", "mapchange"}
    BY <1>2, <1>4
  <2>2. \A x \in All(u.disk, Way(u)) : Counted(x) => x.n < calls
    BY <1>1
  <2>3. /\ Sound(t, Way(t), calls) /\ Unclosed(t, Way(t)) /\ Continues(u, t)
        /\ Accounted(t, Way(t)) >= Accounted(u, Way(u))
    BY <1>1, <2>1, <2>2, LogLineSound
  <2> QED
    BY <1>1, <2>3 DEF Continues, t
<1>5. CASE u.log.type \notin {1, 2}
  <2>1. Accounted(u, Way(u)) \in Nat /\ t = u
    BY <1>1, <1>2, <1>5, AccountedType
  <2> QED
    BY <1>1, <2>1 DEF t
<1> QED
  BY <1>3, <1>4, <1>5

-----------------------------------------------------------------------------
(* The lines on their way become fewer: taken, written, lost or destroyed *)

LEMMA Fewer ==
  ASSUME NEW s, NEW W, NEW c, Sound(s, W, c), NEW t, IsLogState(t), t.disk = s.disk,
         NEW V \in Seq(Entry), \A x : Has(V, x) => Has(W, x),
         \A x, y : Precedes(V, x, y) => Precedes(W, x, y),
         s.tally.mishaps \subseteq t.tally.mishaps,
         \/ t.log.file = NoFile
         \/ t.log.file = s.log.file /\ t.tally.sessions = s.tally.sessions,
         Idle(t, V), Headed(t, V)
  PROVE  /\ Sound(t, V, c) /\ All(t.disk, V) \subseteq All(s.disk, W)
         /\ Unclosed(s, W) => Unclosed(t, V)
<1> DEFINE d == s.disk
<1>1. /\ IsLogState(s) /\ W \in Seq(Entry) /\ Idle(s, W) /\ KindsFit(s, W) /\ Created(s, W)
      /\ Sessions(s, W) /\ Ordered(s, W) /\ Headed(s, W) /\ Numbered(s, W, c) /\ IsDisk(d)
  BY DEF Sound, IsLogState
<1> HIDE DEF d
<1>2. All(d, V) \subseteq All(d, W)
  BY <1>1, AllIs
<1>3. \A x \in All(d, W) : x.path # NoFile
  BY <1>1, AllIs, EntryPath, FilesApart
<1>4. KindsFit(t, V) /\ Numbered(t, V, c)
  BY <1>1, <1>2 DEF KindsFit, Numbered, d
<1>5. Created(t, V)
  <2> SUFFICES ASSUME "create" \notin t.tally.mishaps
               PROVE  /\ t.log.file # NoFile => t.log.file \in DOMAIN d
                      /\ \A k \in 1 .. Len(V) : V[k].path \in PerMaps => V[k].path \in DOMAIN d
    BY DEF Created, d
  <2>1. /\ s.log.file # NoFile => s.log.file \in DOMAIN d
        /\ \A k \in 1 .. Len(W) : W[k].path \in PerMaps => W[k].path \in DOMAIN d
    BY <1>1 DEF Created, d
  <2>2. \A x : Has(W, x) /\ x.path \in PerMaps => x.path \in DOMAIN d
    BY <2>1 DEF Has
  <2>3. \A k \in 1 .. Len(V) : Has(V, V[k])
    BY DEF Has
  <2> QED
    BY <2>1, <2>2, <2>3
<1>6. Sessions(t, V)
  BY <1>1, <1>2, <1>3 DEF Sessions, d
<1>7. Ordered(t, V)
  <2>1. \A x, y : Before(d, V, x, y) => Before(d, W, x, y)
    BY DEF Before
  <2> QED
    BY <1>1, <1>2, <2>1 DEF Ordered, d
<1>8. Unclosed(s, W) => Unclosed(t, V)
  BY <1>2, <1>3 DEF Unclosed, d
<1> QED
  BY <1>2, <1>4, <1>5, <1>6, <1>7, <1>8 DEF Sound, d

\* The oldest line is written to its file.
LEMMA WriterMoves ==
  ASSUME NEW s, NEW W, NEW c, NEW m, Sound(s, W, c), W # <<>>, NEW t,
         DOMAIN t = DOMAIN s, t.log = s.log, t.local = s.local, t.tally = s.tally,
         t.chan.up = s.chan.up, t.chan.drops = s.chan.drops,
         t.chan \in [pending : Seq(Entry), drops : Nat, up : BOOLEAN], Len(t.chan.pending) <= QCap,
         t.disk = AppendTo(s.disk, Head(W).path, Head(W))
  PROVE  /\ Sound(t, Tail(W), c) /\ All(t.disk, Tail(W)) = All(s.disk, W)
         /\ Unclosed(s, W) => Unclosed(t, Tail(W))
         /\ Latched(s, W, m) => Latched(t, Tail(W), m)
<1> DEFINE d == s.disk
           e == t.disk
           V == Tail(W)
           l == Head(W)
<1>1. /\ IsLogState(s) /\ W \in Seq(Entry) /\ Idle(s, W) /\ KindsFit(s, W) /\ Created(s, W)
      /\ Sessions(s, W) /\ Ordered(s, W) /\ Headed(s, W) /\ Numbered(s, W, c) /\ IsDisk(d)
  BY DEF Sound, IsLogState
<1>2. V \in Seq(Entry) /\ l \in Entry /\ l.path \in Files
  BY <1>1, TailAt, EntryPath
<1>3. /\ \A x : Has(W, x) <=> Has(V, x) \/ x = l
      /\ \A x, y : Precedes(W, x, y) <=> Precedes(V, x, y) \/ (x = l /\ Has(V, y))
      /\ \A k : HeaderIn(W, k) <=> Heads(l, k) \/ HeaderIn(V, k)
  BY <1>1, TailHas, TailPrecedes, TailHeader
<1> HIDE DEF V, l
<1>4. /\ e = AppendTo(d, l.path, l) /\ IsDisk(e) /\ DOMAIN e = DOMAIN d \cup {l.path}
      /\ On(e, l.path) = Append(On(d, l.path), l)
      /\ \A q \in Files \ {l.path} : On(e, q) = On(d, q)
  <2>1. e = AppendTo(d, l.path, l)
    BY DEF l
  <2> HIDE DEF d, e
  <2> QED
    BY <1>1, <1>2, <2>1, AppendToOn
<1> HIDE DEF d, e
<1>5. On(d, l.path) \in Seq(Entry)
  BY <1>1, <1>2, OnFacts
<1>6. \A x \in Entry : Has(On(e, x.path), x) <=> Has(On(d, x.path), x) \/ x = l
  <2>1. \A x : Has(On(e, l.path), x) <=> Has(On(d, l.path), x) \/ x = l
    BY <1>2, <1>4, <1>5, AppendHas
  <2>2. \A x \in Entry : x.path \in Files
    BY EntryPath
  <2> QED
    BY <1>4, <2>1, <2>2
<1>7. All(e, V) = All(d, W)
  <2>1. \A x : x \in All(e, V) <=> Has(V, x) \/ (x \in Entry /\ Has(On(e, x.path), x))
    BY <1>2, <1>4, AllIs
  <2>2. \A x : x \in All(d, W) <=> Has(W, x) \/ (x \in Entry /\ Has(On(d, x.path), x))
    BY <1>1, AllIs
  <2>3. \A x : x \in All(e, V) <=> x \in All(d, W)
    BY <1>2, <1>3, <1>6, <2>1, <2>2
  <2> QED
    BY <2>3
<1>8. ASSUME NEW x \in Entry, NEW y \in Entry, Before(e, V, x, y) PROVE Before(d, W, x, y)
  <2>0. x.path \in Files /\ y.path \in Files /\ On(d, y.path) \in Seq(Entry)
    BY <1>1, EntryPath, OnFacts
  <2>1. CASE Precedes(On(e, y.path), x, y)
    <3>1. CASE y.path = l.path
      <4>1. Precedes(On(d, y.path), x, y) \/ (Has(On(d, y.path), x) /\ y = l)
        <5>1. Precedes(Append(On(d, l.path), l), x, y)
          BY <1>4, <2>1, <3>1
        <5>2. Precedes(On(d, l.path), x, y) \/ (Has(On(d, l.path), x) /\ y = l)
          BY <1>2, <1>5, <5>1, AppendPrecedes
        <5> QED
          BY <3>1, <5>2
      <4> QED
        BY <1>3, <4>1 DEF Before
    <3>2. CASE y.path # l.path
      BY <1>4, <2>0, <2>1, <3>2 DEF Before
    <3> QED
      BY <3>1, <3>2
  <2>2. CASE Has(On(e, y.path), x) /\ Has(V, y)
    <3>1. x.path = y.path
      BY <1>4, <2>0, <2>2, OnFacts
    <3>2. Has(On(d, y.path), x) \/ x = l
      BY <1>6, <2>2, <3>1
    <3> QED
      BY <1>3, <2>2, <3>1, <3>2 DEF Before
  <2>3. CASE Precedes(V, x, y) /\ x.path = y.path
    BY <1>3, <2>3 DEF Before
  <2> QED
    BY <1>8, <2>1, <2>2, <2>3 DEF Before
<1>9. IsLogState(t)
  BY <1>1, <1>4 DEF IsLogState, e
<1>10. Idle(t, V)
  BY <1>1 DEF Idle
<1>11. KindsFit(t, V) /\ Numbered(t, V, c) /\ Sessions(t, V)
  BY <1>1, <1>7 DEF KindsFit, Numbered, Sessions, d, e
<1>12. Created(t, V)
  <2> SUFFICES ASSUME "create" \notin s.tally.mishaps
               PROVE  /\ s.log.file # NoFile => s.log.file \in DOMAIN e
                      /\ \A k \in 1 .. Len(V) : V[k].path \in PerMaps => V[k].path \in DOMAIN e
    BY DEF Created, e
  <2>1. /\ s.log.file # NoFile => s.log.file \in DOMAIN d
        /\ \A k \in 1 .. Len(W) : W[k].path \in PerMaps => W[k].path \in DOMAIN d
    BY <1>1 DEF Created, d
  <2>2. \A x : Has(W, x) /\ x.path \in PerMaps => x.path \in DOMAIN d
    BY <2>1 DEF Has
  <2>3. \A k \in 1 .. Len(V) : Has(V, V[k])
    BY DEF Has
  <2> QED
    BY <1>3, <1>4, <2>1, <2>2, <2>3
<1>13. Ordered(t, V)
  <2>1. \A x \in All(d, W) : x \in Entry
    BY <1>1, AllIs
  <2> QED
    BY <1>1, <1>7, <1>8, <2>1 DEF Ordered, d, e
<1>14. \A k : HeaderIn(On(d, Error), k) \/ Heads(l, k) => HeaderIn(On(e, Error), k)
  <2>1. CASE l.path = Error
    BY <1>2, <1>4, <1>5, <2>1, AppendHeader
  <2>2. CASE l.path # Error
    BY <1>4, <2>2, FilesApart DEF Heads
  <2> QED
    BY <2>1, <2>2
<1>15. Headed(t, V)
  <2> SUFFICES ASSUME "writer" \notin s.tally.mishaps
               PROVE  Covered(On(e, Error)) /\ WillBeCovered(On(e, Error), V)
    BY DEF Headed, e
  <2>1. Covered(On(d, Error)) /\ WillBeCovered(On(d, Error), W)
    BY <1>1 DEF Headed, d
  <2>2. WillBeCovered(On(e, Error), V)
    BY <1>1, <1>14, <2>1, TailWillBe DEF V, l
  <2>3. l.path = Error => HeaderIn(On(d, Error), l.map) \/ Heads(l, l.map)
    <3>1. 1 \in 1 .. Len(W) /\ W[1] = l
      BY <1>1, TailAt DEF l
    <3>2. \A i \in 1 .. 1 : i = 1
      OBVIOUS
    <3> QED
      BY <2>1, <3>1, <3>2 DEF WillBeCovered
  <2>4. CASE l.path = Error
    BY <1>2, <1>4, <1>5, <2>1, <2>2, <2>3, <2>4, AppendCovered
  <2>5. CASE l.path # Error
    BY <1>4, <2>1, <2>2, <2>5, FilesApart
  <2> QED
    BY <2>4, <2>5
<1>16. Unclosed(s, W) => Unclosed(t, V)
  BY <1>7 DEF Unclosed, d, e
<1>17. Latched(s, W, m) => Latched(t, V, m)
  BY <1>3, <1>14 DEF Latched, HeaderGiven, d, e
<1> QED
  BY <1>2, <1>7, <1>9, <1>10, <1>11, <1>12, <1>13, <1>15, <1>16, <1>17 DEF Sound, V, d, e

\* Of the calls whose lines were counted, the ring takes no more with it than it
\* has lines.
LEMMA NumbersLost ==
  ASSUME NEW s, NEW W, NEW c \in Nat, Sound(s, W, c), NEW t, NEW V, Sound(t, V, c),
         t.disk = s.disk, NEW X \in Seq(Entry), \A x : Has(W, x) => Has(V, x) \/ Has(X, x)
  PROVE  Cardinality(Numbers(s.disk, W)) <= Cardinality(Numbers(t.disk, V)) + Len(X)
<1> DEFINE N == Numbers(s.disk, W)
           M == Numbers(t.disk, V)
           n == Len(X)
           g == [k \in 1 .. n |-> X[k].n]
           R == {X[k].n : k \in 1 .. n}
<1>1. IsFiniteSet(N) /\ Cardinality(N) \in Nat /\ IsFiniteSet(M) /\ Cardinality(M) \in Nat
  BY NumbersOf
<1>2. N \subseteq M \cup R
  <2>1. /\ \A x \in All(s.disk, W) : Has(W, x) \/ (x \in Entry /\ Has(On(s.disk, x.path), x))
        /\ \A x : Has(V, x) \/ (x \in Entry /\ Has(On(t.disk, x.path), x)) => x \in All(t.disk, V)
    BY AllIs DEF Sound, IsLogState
  <2>2. \A x \in All(s.disk, W) : x \in All(t.disk, V) \/ Has(X, x)
    BY <2>1
  <2> QED
    BY <2>2 DEF Numbers, Has
<1>3. n \in Nat
  BY LenProperties
<1>4. IsFiniteSet(1 .. n) /\ Cardinality(1 .. n) = n
  <2>1. 1 \in Int /\ n \in Int
    BY <1>3
  <2> HIDE DEF n
  <2>2. IsFiniteSet(1 .. n) /\ Cardinality(1 .. n) = IF 1 > n THEN 0 ELSE n - 1 + 1
    BY <2>1, FS_Interval
  <2> QED
    BY <1>3, <2>2
<1>5. g \in Surjection(1 .. n, R)
  BY DEF Surjection
<1> HIDE DEF N, M, R, g, n
<1>6. IsFiniteSet(R) /\ Cardinality(R) <= n /\ Cardinality(R) \in Nat
  BY <1>4, <1>5, FS_Surjection, FS_CardinalityType
<1>7. /\ IsFiniteSet(M \cup R) /\ Cardinality(M \cup R) \in Nat
      /\ Cardinality(M \cup R) <= Cardinality(M) + Cardinality(R)
  <2>1. IsFiniteSet(M \cup R) /\ IsFiniteSet(M \cap R)
    BY <1>1, <1>6, FS_Union, FS_Intersection
  <2>2. Cardinality(M \cup R) = Cardinality(M) + Cardinality(R) - Cardinality(M \cap R)
    BY <1>1, <1>6, FS_Union
  <2>3. Cardinality(M \cap R) \in Nat /\ Cardinality(M \cup R) \in Nat
    BY <2>1, FS_CardinalityType
  <2> QED
    BY <1>1, <1>6, <2>1, <2>2, <2>3
<1>8. Cardinality(N) <= Cardinality(M \cup R)
  BY <1>2, <1>7, FS_Subset
<1> QED
  BY <1>1, <1>3, <1>6, <1>7, <1>8 DEF N, M, n

-----------------------------------------------------------------------------
(* The steps *)

LEMMA SoundLater ==
  ASSUME NEW s, NEW W, NEW c \in Nat, Sound(s, W, c)
  PROVE  Sound(s, W, c + 1) /\ \A x \in All(s.disk, W) : x.n < c + 1
<1>1. \A x \in All(s.disk, W) : x.n \in Nat /\ x.n <= c
  BY AllIs, EntryPath DEF Sound, IsLogState, Numbered
<1>2. \A x \in All(s.disk, W) : x.n <= c + 1 /\ x.n < c + 1
  BY <1>1
<1> QED
  BY <1>2 DEF Sound, Numbered

LEMMA InvariantGives ==
  ASSUME IInv
  PROVE  /\ Here /\ Coming = Way(State) /\ IsLogState(State)
         /\ Sound(State, Way(State), calls) /\ Unclosed(State, Way(State))
         /\ Latched(State, Way(State), map)
         /\ \A x \in All(State.disk, Way(State)) : Counted(x) => x.n < calls
         /\ State.tally.issued <= Accounted(State, Way(State))
         /\ State.tally.issued \in Nat /\ Accounted(State, Way(State)) \in Nat
         /\ State.log = log /\ State.local = local /\ State.chan = chan /\ State.disk = disk
         /\ State.tally = tally
         /\ DOMAIN State = {"log", "local", "chan", "disk", "tally"}
         /\ MaxCalls \in Nat /\ MaxMaps \in Nat
<1>1. /\ State.log = log /\ State.local = local /\ State.chan = chan /\ State.disk = disk
      /\ State.tally = tally
  BY DEF State
<1>2. Coming = Way(State)
  BY <1>1 DEF Coming, Way
<1>3. Here /\ MaxCalls \in Nat /\ MaxMaps \in Nat
  BY BoundsAssumption DEF IInv, TypeOK, Here
<1>4. /\ Sound(State, Way(State), calls) /\ Unclosed(State, Way(State))
      /\ Latched(State, Way(State), map)
      /\ \A x \in All(State.disk, Way(State)) : x.n < calls
      /\ State.tally.issued <= Accounted(State, Way(State))
  BY <1>1, <1>2 DEF IInv
<1>5. IsLogState(State)
  BY <1>4 DEF Sound
<1> QED
  BY <1>1, <1>2, <1>3, <1>4, <1>5, StateNumbers, AccountedType DEF IsLogState

\* The invariant after a step that leaves the members of the handler state t.
LEMMA After ==
  ASSUME NEW t, NEW W, Leave(t), Coming' = W,
         Sound(t, W, calls'), Unclosed(t, W), Latched(t, W, map'),
         \A x \in All(t.disk, W) : x.n < calls', t.tally.issued <= Accounted(t, W),
         hand' \in Seq(Entry), Len(hand') <= 1, map' \in 0 .. MaxMaps,
         calls' \in 0 .. MaxCalls, joining' \in BOOLEAN, crashes' \in 0 .. MaxCrashes
  PROVE  IInv'
<1> DEFINE u == State'
<1>1. /\ DOMAIN u = {"log", "local", "chan", "disk", "tally"}
      /\ u.log = t.log /\ u.local = t.local /\ u.chan = t.chan /\ u.disk = t.disk
      /\ u.tally = t.tally
      /\ log' = t.log /\ local' = t.local /\ chan' = t.chan /\ disk' = t.disk
      /\ tally' = t.tally
  BY DEF State, Leave
<1> HIDE DEF u
<1>2. IsLogState(t)
  BY DEF Sound
<1>3. IsLogState(u)
  BY <1>1, <1>2 DEF IsLogState
<1>4. Sound(u, W, calls')
  BY <1>1, <1>3 DEF Sound, Idle, KindsFit, Created, Sessions, Ordered, Headed, Numbered
<1>5. Unclosed(u, W) /\ Latched(u, W, map') /\ u.tally.issued <= Accounted(u, W)
  BY <1>1 DEF Unclosed, Latched, HeaderGiven, Accounted
<1>6. TypeOK'
  BY <1>1, <1>2 DEF IsLogState, IsDisk, TypeOK
<1> QED
  BY <1>1, <1>4, <1>5, <1>6 DEF IInv, u

LEMMA HandlerStep ==
  ASSUME IInv, NEW t, Sound(t, Way(t), calls), Unclosed(t, Way(t)), Latched(t, Way(t), map'),
         t.tally.issued <= Accounted(t, Way(t)),
         Leave(t), hand' = hand, calls < MaxCalls, calls' = calls + 1, map' \in 0 .. MaxMaps,
         joining' \in BOOLEAN, crashes' = crashes
  PROVE  IInv'
<1>1. Coming' = Way(t)
  BY DEF Coming, Way, Leave
<1>2. calls \in Nat /\ MaxCalls \in Nat
  BY InvariantGives DEF Here
<1>3. Sound(t, Way(t), calls') /\ \A x \in All(t.disk, Way(t)) : x.n < calls'
  BY <1>2, SoundLater
<1>4. hand' \in Seq(Entry) /\ Len(hand') <= 1 /\ crashes' \in 0 .. MaxCrashes
  BY DEF IInv, TypeOK
<1>5. calls' \in 0 .. MaxCalls
  BY <1>2
<1> QED
  BY <1>1, <1>3, <1>4, <1>5, After

LEMMA InitInv == Init => IInv
<1> SUFFICES ASSUME Init PROVE IInv
  OBVIOUS
<1>1. /\ log = NewLog /\ chan = [pending |-> <<>>, drops |-> 0, up |-> FALSE]
      /\ hand = <<>> /\ disk = << >> /\ map = 0 /\ calls = 0 /\ crashes = 0 /\ joining = FALSE
      /\ tally = [sessions |-> 0, issued |-> 0, reported |-> 0, alerts |-> 0,
                  destroyed |-> 0, mishaps |-> {}]
      /\ local \in [logging : Settings, async : Modes]
  BY DEF Init
<1>2. <<>> \in Seq(Entry) /\ Len(<<>>) = 0 /\ <<>> \o <<>> = <<>>
  OBVIOUS
<1>3. Coming = <<>>
  BY <1>1, <1>2 DEF Coming
<1>4. DOMAIN disk = {}
  BY <1>1
<1>5. log \in [type : 0 .. 3, file : PerMaps \cup {NoFile}, found : BOOLEAN,
               errMap : BOOLEAN, async : BOOLEAN] /\ log.file = NoFile /\ ~log.errMap /\ log.async
  BY <1>1 DEF NewLog
<1>6. local \in [logging : Settings \cup {0, 1}, async : BOOLEAN]
  BY <1>1, SettingsAssumption
<1>7. chan \in [pending : Seq(Entry), drops : Nat, up : BOOLEAN] /\ Len(chan.pending) <= QCap
      /\ chan.drops = 0
  BY <1>1, <1>2, QCapAssumption
<1>8. tally \in [sessions : Nat, issued : Nat, reported : Nat, alerts : Nat, destroyed : Nat,
                 mishaps : SUBSET {"writer", "create", "bypass"}]
  BY <1>1
<1>9. IsDisk(disk)
  BY <1>4, FS_EmptySet DEF IsDisk
<1>10. TypeOK
  <2>1. hand \in Seq(Entry) /\ Len(hand) <= 1
    BY <1>1, <1>2
  <2>2. /\ map \in 0 .. MaxMaps /\ calls \in 0 .. MaxCalls /\ crashes \in 0 .. MaxCrashes
        /\ joining \in BOOLEAN
    <3>1. map = 0 /\ calls = 0 /\ crashes = 0 /\ joining = FALSE
      BY <1>1
    <3>2. 0 \in 0 .. MaxMaps /\ 0 \in 0 .. MaxCalls /\ 0 \in 0 .. MaxCrashes
      BY BoundsAssumption
    <3> QED
      BY <3>1, <3>2
  <2> QED
    BY <1>4, <1>5, <1>6, <1>7, <1>8, <2>1, <2>2 DEF TypeOK
<1>11. All(disk, Coming) = {}
  BY <1>3, <1>4 DEF All
<1>12. /\ State.log = log /\ State.local = local /\ State.chan = chan /\ State.disk = disk
       /\ State.tally = tally /\ DOMAIN State = {"log", "local", "chan", "disk", "tally"}
  BY DEF State
<1>13. IsLogState(State)
  BY <1>5, <1>6, <1>7, <1>8, <1>9, <1>12 DEF IsLogState
<1>14. On(disk, Error) = <<>>
  BY <1>4 DEF On
<1>15. Headed(State, Coming)
  BY <1>3, <1>12, <1>14, EmptyCovered DEF Headed
<1>16. Sound(State, Coming, calls)
  BY <1>2, <1>3, <1>5, <1>11, <1>12, <1>13, <1>15
     DEF Sound, Idle, KindsFit, Created, Sessions, Ordered, Numbered
<1>17. Unclosed(State, Coming) /\ Latched(State, Coming, map)
  BY <1>5, <1>11, <1>12 DEF Unclosed, Latched
<1>18. tally.issued <= Accounted(State, Coming)
  <2>1. Numbers(disk, Coming) = {}
    BY <1>11 DEF Numbers
  <2>2. Cardinality(Numbers(disk, Coming)) = 0
    BY <2>1, FS_EmptySet
  <2> QED
    BY <1>1, <1>12, <2>2 DEF Accounted
<1> QED
  BY <1>10, <1>11, <1>16, <1>17, <1>18 DEF IInv

LEMMA MapChangeInv == ASSUME IInv, NEW f, MapChange(f) PROVE IInv'
<1> DEFINE u == MapChangeTo(State, f)
<1>1. /\ Sound(u, Way(u), calls) /\ Unclosed(u, Way(u)) /\ ~u.log.errMap
      /\ u.tally.issued = State.tally.issued
      /\ Accounted(u, Way(u)) >= Accounted(State, Way(State))
  BY InvariantGives, MapChangeSound
<1>2. PICK t : t = u
  OBVIOUS
<1>3. Leave(t)
  BY <1>2 DEF MapChange
<1> HIDE DEF u
<1>4. u.tally.issued <= Accounted(u, Way(u))
  <2>1. Accounted(u, Way(u)) \in Nat
    BY <1>1, InvariantGives, AccountedType
  <2> QED
    BY <1>1, <2>1, InvariantGives
<1>5. Latched(u, Way(u), map')
  BY <1>1 DEF Latched
<1>6. /\ hand' = hand /\ calls < MaxCalls /\ calls' = calls + 1 /\ map' \in 0 .. MaxMaps
      /\ joining' \in BOOLEAN /\ crashes' = crashes
  <2>1. map \in 0 .. MaxMaps /\ map < MaxMaps /\ map' = map + 1 /\ MaxMaps \in Nat
    BY InvariantGives DEF MapChange, Here
  <2>2. map' \in 0 .. MaxMaps
    BY <2>1
  <2> QED
    BY <2>2 DEF MapChange, Ready, IInv, TypeOK
<1> QED
  BY <1>1, <1>2, <1>3, <1>4, <1>5, <1>6, HandlerStep

LEMMA IssuedSound ==
  ASSUME IInv, NEW on \in BOOLEAN
  PROVE  LET s == Issued(State, on)
         IN  /\ Sound(s, Way(s), calls) /\ Unclosed(s, Way(s)) /\ Latched(s, Way(s), map)
             /\ \A x \in All(s.disk, Way(s)) : Counted(x) => x.n < calls
             /\ s.log = log
             /\ s.tally.issued = tally.issued + IF on THEN 1 ELSE 0
             /\ Accounted(s, Way(s)) = Accounted(State, Way(State))
<1> DEFINE s == Issued(State, on)
<1>0. /\ Here /\ IsLogState(State)
      /\ Sound(State, Way(State), calls) /\ Unclosed(State, Way(State))
      /\ Latched(State, Way(State), map)
      /\ \A x \in All(State.disk, Way(State)) : Counted(x) => x.n < calls
      /\ State.tally.issued \in Nat
      /\ State.log = log /\ State.tally = tally
  BY InvariantGives
<1>1. CASE ~on
  BY <1>0, <1>1 DEF Issued
<1>2. CASE on
  <2>1. s = [State EXCEPT !.tally.issued = @ + 1]
    BY <1>2 DEF Issued
  <2> HIDE DEF s
  <2>2. /\ DOMAIN s = DOMAIN State /\ s.log = State.log /\ s.local = State.local
        /\ s.chan = State.chan /\ s.disk = State.disk
        /\ s.tally = [State.tally EXCEPT !.issued = @ + 1]
    BY <1>0, <2>1 DEF IsLogState
  <2>3. /\ s.tally.mishaps = State.tally.mishaps /\ s.tally.sessions = State.tally.sessions
        /\ s.tally.alerts = State.tally.alerts /\ s.tally.reported = State.tally.reported
        /\ s.tally.destroyed = State.tally.destroyed
        /\ s.tally.issued = State.tally.issued + 1
    BY <1>0, <2>2 DEF IsLogState
  <2>4. IsLogState(s)
    <3>1. s.tally \in [sessions : Nat, issued : Nat, reported : Nat, alerts : Nat, destroyed : Nat,
                       mishaps : SUBSET {"writer", "create", "bypass"}]
      BY <1>0, <2>2 DEF IsLogState
    <3> QED
      BY <1>0, <2>2, <3>1 DEF IsLogState
  <2>5. /\ Sound(s, Way(s), calls) /\ Unclosed(s, Way(s)) /\ Way(s) = Way(State)
        /\ \A m : HeaderGiven(State, Way(State), m) => HeaderGiven(s, Way(s), m)
    <3>1. s.log.async = State.log.async /\ s.log.file = State.log.file
          /\ State.tally.mishaps \subseteq s.tally.mishaps
      BY <2>2, <2>3
    <3> QED
      BY <1>0, <2>2, <2>3, <2>4, <3>1, Relog
  <2>6. Latched(s, Way(s), map)
    BY <1>0, <2>2, <2>5 DEF Latched
  <2>7. Accounted(s, Way(s)) = Accounted(State, Way(State))
    BY <2>2, <2>3, <2>5 DEF Accounted
  <2> QED
    BY <1>0, <1>2, <2>2, <2>3, <2>5, <2>6, <2>7 DEF s
<1> QED
  BY <1>1, <1>2

LEMMA LogInv == ASSUME IInv, NEW f, Log(f) PROVE IInv'
<1> DEFINE on == log.type \in {1, 2}
           s == Issued(State, on)
           u == LogLine(s, "line", f)
<1>1. /\ Sound(s, Way(s), calls) /\ Unclosed(s, Way(s)) /\ Latched(s, Way(s), map)
      /\ \A x \in All(s.disk, Way(s)) : Counted(x) => x.n < calls
      /\ s.log = log
      /\ s.tally.issued = tally.issued + IF on THEN 1 ELSE 0
      /\ Accounted(s, Way(s)) = Accounted(State, Way(State))
  <2>1. on \in BOOLEAN
    OBVIOUS
  <2> HIDE DEF on
  <2> QED
    BY <2>1, IssuedSound
<1>2. Here /\ tally.issued \in Nat /\ tally.issued <= Accounted(State, Way(State))
      /\ Accounted(State, Way(State)) \in Nat
  BY InvariantGives
<1> HIDE DEF s
<1>3. /\ Sound(u, Way(u), calls) /\ Unclosed(u, Way(u)) /\ Continues(s, u)
      /\ Accounted(u, Way(u)) >= Accounted(s, Way(s))
      /\ s.log.type \in {1, 2} => Accounted(u, Way(u)) >= Accounted(s, Way(s)) + 1
  <2>1. "line" \in {"line", "mapchange"}
    OBVIOUS
  <2> QED
    BY <1>1, <1>2, <2>1, LogLineSound
<1>4. PICK t : t = u
  OBVIOUS
<1>5. Leave(t)
  BY <1>4 DEF Log, s
<1> HIDE DEF u
<1>6. u.tally.issued <= Accounted(u, Way(u))
  <2>1. Accounted(u, Way(u)) \in Nat /\ u.tally.issued = s.tally.issued
    BY <1>2, <1>3, AccountedType DEF Continues
  <2>2. CASE on
    BY <1>1, <1>2, <1>3, <2>1, <2>2
  <2>3. CASE ~on
    BY <1>1, <1>2, <1>3, <2>1, <2>3
  <2> QED
    BY <2>2, <2>3
<1>7. Latched(u, Way(u), map)
  BY <1>1, <1>3 DEF Latched, Continues
<1>8. /\ hand' = hand /\ calls < MaxCalls /\ calls' = calls + 1 /\ map' = map
      /\ map' \in 0 .. MaxMaps /\ joining' \in BOOLEAN /\ crashes' = crashes
  BY DEF Log, Ready, IInv, TypeOK
<1> QED
  BY <1>3, <1>4, <1>5, <1>6, <1>7, <1>8, HandlerStep

LEMMA LogErrorInv == ASSUME IInv, NEW f, LogError(f) PROVE IInv'
<1> DEFINE on == ~log.found
           s == Issued(State, on)
           u == LogErrorLine(s, f)
<1>1. /\ Sound(s, Way(s), calls) /\ Unclosed(s, Way(s)) /\ Latched(s, Way(s), map)
      /\ \A x \in All(s.disk, Way(s)) : Counted(x) => x.n < calls
      /\ s.log = log
      /\ s.tally.issued = tally.issued + IF on THEN 1 ELSE 0
      /\ Accounted(s, Way(s)) = Accounted(State, Way(State))
  <2>1. on \in BOOLEAN
    OBVIOUS
  <2> HIDE DEF on
  <2> QED
    BY <2>1, IssuedSound
<1>2. Here /\ tally.issued \in Nat /\ tally.issued <= Accounted(State, Way(State))
      /\ Accounted(State, Way(State)) \in Nat
  BY InvariantGives
<1> HIDE DEF s
<1>3. /\ Sound(u, Way(u), calls) /\ Unclosed(u, Way(u)) /\ Latched(u, Way(u), map)
      /\ u.tally.issued = s.tally.issued
      /\ Accounted(u, Way(u)) >= Accounted(s, Way(s))
      /\ ~s.log.found => Accounted(u, Way(u)) >= Accounted(s, Way(s)) + 1
  BY <1>1, <1>2, LogErrorSound
<1>4. PICK t : t = u
  OBVIOUS
<1>5. Leave(t)
  BY <1>4 DEF LogError, s
<1> HIDE DEF u
<1>6. u.tally.issued <= Accounted(u, Way(u))
  <2>1. Accounted(u, Way(u)) \in Nat
    BY <1>2, <1>3, AccountedType
  <2>2. CASE on
    BY <1>1, <1>2, <1>3, <2>1, <2>2
  <2>3. CASE ~on
    BY <1>1, <1>2, <1>3, <2>1, <2>3
  <2> QED
    BY <2>2, <2>3
<1>8. /\ hand' = hand /\ calls < MaxCalls /\ calls' = calls + 1 /\ map' = map
      /\ map' \in 0 .. MaxMaps /\ joining' \in BOOLEAN /\ crashes' = crashes
  BY DEF LogError, Ready, IInv, TypeOK
<1> QED
  BY <1>3, <1>4, <1>5, <1>6, <1>8, HandlerStep

LEMMA DetachInv == ASSUME IInv, NEW f, Detach(f) PROVE IInv'
<1> DEFINE u == CloseFile(State, f)
<1>1. /\ Here /\ Latched(State, Way(State), map) /\ State.tally.issued \in Nat
      /\ State.tally.issued <= Accounted(State, Way(State))
      /\ Accounted(State, Way(State)) \in Nat
      /\ Sound(State, Way(State), calls) /\ Unclosed(State, Way(State))
  BY InvariantGives
<1>2. /\ Sound(u, Way(u), calls) /\ Unclosed(u, Way(u)) /\ Carries(State, u)
  BY <1>1, CloseFileSound
<1>3. PICK t : t = u
  OBVIOUS
<1>4. Leave(t)
  BY <1>3 DEF Detach
<1> HIDE DEF u
<1>5. u.tally.issued <= Accounted(u, Way(u))
  <2>1. Accounted(u, Way(u)) >= Accounted(State, Way(State)) /\ Accounted(u, Way(u)) \in Nat
    BY <1>1, <1>2, CarriesAccounted, AccountedType
  <2>2. u.tally.issued = State.tally.issued
    BY <1>2 DEF Carries
  <2> QED
    BY <1>1, <2>1, <2>2
<1>6. Latched(u, Way(u), map)
  BY <1>1, <1>2 DEF Latched, Carries
<1>8. /\ hand' = hand /\ calls < MaxCalls /\ calls' = calls + 1 /\ map' = map
      /\ map' \in 0 .. MaxMaps /\ joining' \in BOOLEAN /\ crashes' = crashes
  BY DEF Detach, Ready, IInv, TypeOK
<1> QED
  BY <1>2, <1>3, <1>4, <1>5, <1>6, <1>8, HandlerStep

LEMMA ConfigureInv ==
  ASSUME IInv, NEW l \in Settings, NEW a \in Modes, Configure(l, a) PROVE IInv'
<1> DEFINE u == [State EXCEPT !.local = [logging |-> l, async |-> a]]
<1>1. /\ IsLogState(State) /\ Sound(State, Coming, calls) /\ Unclosed(State, Coming)
      /\ Latched(State, Coming, map) /\ \A x \in All(State.disk, Coming) : x.n < calls
      /\ State.tally.issued <= Accounted(State, Coming)
      /\ Coming \in Seq(Entry)
      /\ State.log = log /\ State.chan = chan /\ State.disk = disk /\ State.tally = tally
      /\ DOMAIN State = {"log", "local", "chan", "disk", "tally"}
  BY InvariantGives DEF IInv, Sound
<1>2. [logging |-> l, async |-> a] \in [logging : Settings \cup {0, 1}, async : BOOLEAN]
  BY SettingsAssumption
<1>3. /\ DOMAIN u = DOMAIN State /\ u.log = log /\ u.local = [logging |-> l, async |-> a]
      /\ u.chan = chan /\ u.disk = disk /\ u.tally = tally
  BY <1>1
<1>4. PICK t : t = u
  OBVIOUS
<1> HIDE DEF u
<1>5. IsLogState(t)
  BY <1>1, <1>2, <1>3, <1>4 DEF IsLogState
<1>6. Idle(t, Coming) /\ Headed(t, Coming)
  BY <1>1, <1>3, <1>4 DEF Sound, Idle, Headed
<1>7. Sound(t, Coming, calls) /\ Unclosed(t, Coming)
  BY <1>1, <1>3, <1>4, <1>5, <1>6, Fewer
<1>8. Latched(t, Coming, map) /\ Accounted(t, Coming) = Accounted(State, Coming)
  BY <1>1, <1>3, <1>4 DEF Latched, HeaderGiven, Accounted
<1>9. Leave(t) /\ Coming' = Coming
  BY <1>3, <1>4 DEF Configure, Leave, Coming
<1>10. /\ hand' = hand /\ calls' = calls /\ map' = map /\ joining' = joining /\ crashes' = crashes
  BY DEF Configure
<1>11. PICK W : W = Coming
  OBVIOUS
<1> QED
  BY <1>1, <1>3, <1>4, <1>7, <1>8, <1>9, <1>10, <1>11, After DEF IInv, TypeOK

LEMMA HandIs ==
  ASSUME hand \in Seq(Entry), Len(hand) <= 1, chan.pending \in Seq(Entry)
  PROVE  /\ hand = <<>> => Coming = chan.pending
         /\ hand # <<>> => /\ hand[1] \in Entry /\ Coming # <<>> /\ Len(hand) = 1
                           /\ Head(Coming) = hand[1] /\ Tail(Coming) = chan.pending
         /\ Len(Coming) = Len(hand) + Len(chan.pending) /\ Coming \in Seq(Entry)
<1>1. hand = <<>> => Coming = chan.pending
  BY ConcatEmptySeq DEF Coming
<1>2. Len(Coming) = Len(hand) + Len(chan.pending) /\ Coming \in Seq(Entry)
  BY ConcatProperties DEF Coming
<1>3. ASSUME hand # <<>>
      PROVE  /\ hand[1] \in Entry /\ Coming # <<>> /\ Len(hand) = 1
             /\ Head(Coming) = hand[1] /\ Tail(Coming) = chan.pending
  <2>1. Len(hand) = 1 /\ hand[1] \in Entry
    <3>1. Len(hand) \in Nat /\ Head(hand) \in Entry /\ Head(hand) = hand[1] /\ Len(hand) > 0
      BY <1>3, TailAt, LenProperties, EmptySeq
    <3>2. PICK k \in Nat : k = Len(hand)
      BY <3>1
    <3>3. k = 1
      BY <3>1, <3>2
    <3> QED
      BY <3>1, <3>2, <3>3
  <2>2. hand = <<hand[1]>>
    BY <2>1
  <2>3. Coming = <<hand[1]>> \o chan.pending
    BY <2>2 DEF Coming
  <2>4. Head(Coming) = hand[1] /\ Tail(Coming) = chan.pending
    BY <2>1, <2>3, ConcatSimplifications
  <2>5. Coming # <<>>
    BY <1>2, <2>1, LenProperties
  <2> QED
    BY <2>1, <2>4, <2>5
<1> QED
  BY <1>1, <1>2, <1>3

\* What the writer's steps start from.
LEMMA WriterStarts ==
  ASSUME IInv
  PROVE  /\ IsLogState(State) /\ Sound(State, Coming, calls) /\ Unclosed(State, Coming)
         /\ Latched(State, Coming, map) /\ \A x \in All(disk, Coming) : x.n < calls
         /\ tally.issued <= Accounted(State, Coming)
         /\ Coming \in Seq(Entry) /\ calls \in Nat
         /\ chan \in [pending : Seq(Entry), drops : Nat, up : BOOLEAN]
         /\ chan.pending \in Seq(Entry) /\ Len(chan.pending) \in Nat /\ Len(chan.pending) <= QCap
         /\ QCap \in Nat
         /\ hand \in Seq(Entry) /\ Len(hand) <= 1 /\ Len(hand) \in Nat
         /\ State.log = log /\ State.local = local /\ State.chan = chan /\ State.disk = disk
         /\ State.tally = tally
         /\ DOMAIN State = {"log", "local", "chan", "disk", "tally"}
         /\ map \in 0 .. MaxMaps /\ calls \in 0 .. MaxCalls /\ joining \in BOOLEAN
         /\ crashes \in 0 .. MaxCrashes
<1>1. chan \in [pending : Seq(Entry), drops : Nat, up : BOOLEAN] /\ hand \in Seq(Entry)
  BY DEF IInv, TypeOK
<1>2. chan.pending \in Seq(Entry) /\ Len(chan.pending) \in Nat /\ Len(hand) \in Nat
  BY <1>1, LenProperties
<1> QED
  BY <1>1, <1>2, InvariantGives, QCapAssumption DEF IInv, TypeOK, Sound, Here

\* Steps that change the queue from outside a handler: the lines on their way are
\* the same, and so is everything but the queue.
LEMMA QueueStep ==
  ASSUME IInv, NEW c, c \in [pending : Seq(Entry), drops : Nat, up : BOOLEAN],
         Len(c.pending) <= QCap, c.drops = chan.drops, c.up = chan.up \/ Coming = <<>>,
         chan' = c, Coming' = Coming, hand' \in Seq(Entry), Len(hand') <= 1, joining' \in BOOLEAN,
         UNCHANGED <<log, local, disk, map, calls, tally, crashes>>
  PROVE  IInv'
<1> DEFINE u == [State EXCEPT !.chan = c]
<1>1. /\ DOMAIN u = DOMAIN State /\ u.log = log /\ u.local = local
      /\ u.chan = c /\ u.disk = disk /\ u.tally = tally
  BY WriterStarts
<1>2. PICK t : t = u
  OBVIOUS
<1>3. PICK W : W = Coming
  OBVIOUS
<1> HIDE DEF u
<1>4. IsLogState(t)
  BY <1>1, <1>2, WriterStarts DEF IsLogState
<1>5. Idle(t, W) /\ Headed(t, W)
  BY <1>1, <1>2, <1>3, WriterStarts DEF Sound, Idle, Headed
<1>6. Sound(t, W, calls) /\ Unclosed(t, W)
  BY <1>1, <1>2, <1>3, <1>4, <1>5, WriterStarts, Fewer
<1>7. Latched(t, W, map) /\ Accounted(t, W) = Accounted(State, W)
  BY <1>1, <1>2, <1>3, WriterStarts DEF Latched, HeaderGiven, Accounted
<1>8. Leave(t) /\ Coming' = W
  BY <1>1, <1>2, <1>3 DEF Leave
<1> QED
  BY <1>1, <1>2, <1>3, <1>6, <1>7, <1>8, WriterStarts, After

LEMMA JoinedInv == ASSUME IInv, Joined PROVE IInv'
<1> DEFINE c == [chan EXCEPT !.up = FALSE]
<1>1. c \in [pending : Seq(Entry), drops : Nat, up : BOOLEAN] /\ c.pending = chan.pending
      /\ c.drops = chan.drops
  BY WriterStarts
<1>2. Coming = <<>>
  BY WriterStarts, HandIs DEF Joined
<1>3. chan' = c /\ Coming' = Coming
  BY <1>1 DEF Joined, Coming
<1> HIDE DEF c
<1> QED
  BY <1>1, <1>2, <1>3, WriterStarts, QueueStep DEF Joined

LEMMA WriterTakeInv == ASSUME IInv, WriterTake PROVE IInv'
<1> DEFINE c == [chan EXCEPT !.pending = Tail(@)]
           p == chan.pending
<1>1. p \in Seq(Entry) /\ p # <<>> /\ hand = <<>> /\ Coming = p
  BY WriterStarts, HandIs DEF WriterTake
<1>2. Tail(p) \in Seq(Entry) /\ Len(Tail(p)) = Len(p) - 1 /\ Head(p) \in Entry
  BY <1>1, TailAt
<1>3. /\ c \in [pending : Seq(Entry), drops : Nat, up : BOOLEAN] /\ c.pending = Tail(p)
      /\ c.drops = chan.drops /\ c.up = chan.up /\ Len(c.pending) <= QCap
  <2>1. /\ c \in [pending : Seq(Entry), drops : Nat, up : BOOLEAN] /\ c.pending = Tail(p)
        /\ c.drops = chan.drops /\ c.up = chan.up
    BY <1>2, WriterStarts
  <2> QED
    BY <1>2, <2>1, WriterStarts
<1>4. <<Head(p)>> \o Tail(p) = p
  BY <1>1, <1>2
<1>5. chan' = c /\ hand' = <<Head(p)>> /\ Coming' = Coming
  <2>1. chan' = c /\ hand' = <<Head(p)>>
    BY DEF WriterTake
  <2> HIDE DEF c
  <2> QED
    BY <1>1, <1>3, <1>4, <2>1 DEF Coming
<1>6. hand' \in Seq(Entry) /\ Len(hand') <= 1
  BY <1>2, <1>5
<1> HIDE DEF c
<1> QED
  BY <1>3, <1>5, <1>6, WriterStarts, QueueStep DEF WriterTake

LEMMA WriterWriteInv == ASSUME IInv, WriterWrite PROVE IInv'
<1> DEFINE l == hand[1]
           u == [State EXCEPT !.disk = AppendTo(@, l.path, l)]
<1>1. /\ hand # <<>> /\ Coming # <<>> /\ Head(Coming) = l /\ Tail(Coming) = chan.pending
  BY WriterStarts, HandIs DEF WriterWrite
<1>2. /\ DOMAIN u = DOMAIN State /\ u.log = log /\ u.local = local /\ u.chan = chan
      /\ u.tally = tally /\ u.disk = AppendTo(disk, l.path, l)
  BY WriterStarts
<1>3. PICK t : t = u
  OBVIOUS
<1>4. Leave(t) /\ hand' = <<>> /\ Coming' = Tail(Coming)
  <2>1. Coming' = <<>> \o chan.pending
    BY DEF WriterWrite, Coming
  <2>2. <<>> \o chan.pending = chan.pending
    BY WriterStarts, ConcatEmptySeq
  <2> QED
    BY <1>1, <1>2, <1>3, <2>1, <2>2 DEF WriterWrite, Leave
<1> HIDE DEF u
<1>5. PICK W : W = Coming
  OBVIOUS
<1>6. /\ Sound(t, Tail(W), calls) /\ All(t.disk, Tail(W)) = All(State.disk, W)
      /\ Unclosed(t, Tail(W)) /\ Latched(t, Tail(W), map)
  <2>1. /\ Sound(State, W, calls) /\ Unclosed(State, W) /\ Latched(State, W, map) /\ W # <<>>
    BY <1>1, <1>5, WriterStarts
  <2>2. t.disk = AppendTo(State.disk, Head(W).path, Head(W))
    BY <1>1, <1>2, <1>3, <1>5, WriterStarts
  <2>3. /\ DOMAIN t = DOMAIN State /\ t.log = State.log /\ t.local = State.local
        /\ t.tally = State.tally /\ t.chan.up = State.chan.up /\ t.chan.drops = State.chan.drops
        /\ t.chan \in [pending : Seq(Entry), drops : Nat, up : BOOLEAN]
        /\ Len(t.chan.pending) <= QCap
    BY <1>2, <1>3, WriterStarts
  <2> QED
    BY <2>1, <2>2, <2>3, WriterMoves
<1>7. Accounted(t, Tail(W)) = Accounted(State, W)
  BY <1>2, <1>3, <1>6, WriterStarts DEF Accounted, Numbers
<1>8. /\ hand' \in Seq(Entry) /\ Len(hand') <= 1 /\ map' = map /\ calls' = calls
      /\ joining' = joining /\ crashes' = crashes
  BY <1>4 DEF WriterWrite
<1> QED
  BY <1>2, <1>3, <1>4, <1>5, <1>6, <1>7, <1>8, WriterStarts, After

\* The sums of the two steps that lose lines: one by a writer that fails, and all
\* that were on their way by a crash.
LEMMA FailSum ==
  ASSUME NEW i \in Nat, NEW n \in Nat, NEW k \in Nat, NEW d \in Nat, NEW r \in Nat,
         NEW a \in Nat, NEW x \in Nat, n <= k + 1, i <= n + d + r + a + x
  PROVE  i <= k + (d + 1) + r + a + x
OBVIOUS

LEMMA CrashSum ==
  ASSUME NEW i \in Nat, NEW n \in Nat, NEW k \in Nat, NEW d \in Nat, NEW r \in Nat,
         NEW a \in Nat, NEW x \in Nat, NEW w \in Nat, n <= k + w, i <= n + d + r + a + x
  PROVE  i <= k + 0 + r + a + (x + (w + d))
OBVIOUS

LEMMA WriterFailInv == ASSUME IInv, WriterFail PROVE IInv'
<1> DEFINE c == [chan EXCEPT !.drops = @ + 1]
           y == [tally EXCEPT !.mishaps = @ \cup {"writer"}]
           u == [State EXCEPT !.chan = c, !.tally = y]
<1>1. /\ hand # <<>> /\ Coming # <<>> /\ Head(Coming) \in Entry /\ Tail(Coming) = chan.pending
  BY WriterStarts, HandIs, TailAt DEF WriterFail
<1>2. /\ c \in [pending : Seq(Entry), drops : Nat, up : BOOLEAN] /\ c.pending = chan.pending
      /\ c.up = chan.up /\ c.drops = chan.drops + 1 /\ chan.drops \in Nat
  <2>1. chan.drops \in Nat /\ chan.drops + 1 \in Nat
    BY WriterStarts
  <2> QED
    BY <2>1, WriterStarts
<1>3. /\ y \in [sessions : Nat, issued : Nat, reported : Nat, alerts : Nat, destroyed : Nat,
                mishaps : SUBSET {"writer", "create", "bypass"}]
      /\ y.mishaps = tally.mishaps \cup {"writer"} /\ y.sessions = tally.sessions
      /\ y.issued = tally.issued /\ y.alerts = tally.alerts /\ y.reported = tally.reported
      /\ y.destroyed = tally.destroyed
  BY DEF IInv, TypeOK
<1> HIDE DEF c, y
<1>4. /\ DOMAIN u = DOMAIN State /\ u.log = log /\ u.local = local /\ u.chan = c
      /\ u.tally = y /\ u.disk = disk
  BY WriterStarts
<1>5. PICK t : t = u
  OBVIOUS
<1>6. Leave(t) /\ hand' = <<>> /\ Coming' = Tail(Coming)
  <2>1. Coming' = <<>> \o chan.pending
    BY <1>2 DEF WriterFail, Coming, c
  <2>2. <<>> \o chan.pending = chan.pending
    BY WriterStarts, ConcatEmptySeq
  <2> QED
    BY <1>1, <1>4, <1>5, <2>1, <2>2 DEF WriterFail, Leave, c, y
<1> HIDE DEF u
<1>7. PICK W : W = Coming
  OBVIOUS
<1>8. /\ Sound(State, W, calls) /\ Unclosed(State, W) /\ W # <<>> /\ W \in Seq(Entry)
  BY <1>1, <1>7, WriterStarts
<1>9. IsLogState(t)
  BY <1>2, <1>3, <1>4, <1>5, WriterStarts DEF IsLogState
<1>10. Idle(t, Tail(W)) /\ Headed(t, Tail(W)) /\ Latched(t, Tail(W), map)
  BY <1>2, <1>3, <1>4, <1>5, <1>8, WriterStarts DEF Sound, Idle, Headed, Latched, HeaderGiven
<1>11. /\ Tail(W) \in Seq(Entry) /\ \A x : Has(Tail(W), x) => Has(W, x)
       /\ \A x, z : Precedes(Tail(W), x, z) => Precedes(W, x, z)
       /\ \A x : Has(W, x) => Has(Tail(W), x) \/ x = Head(W)
  BY <1>8, TailAt, TailHas, TailPrecedes
<1>12. /\ Sound(t, Tail(W), calls) /\ Unclosed(t, Tail(W))
       /\ All(t.disk, Tail(W)) \subseteq All(State.disk, W)
  <2>1. /\ t.disk = State.disk /\ State.tally.mishaps \subseteq t.tally.mishaps
        /\ t.log.file = State.log.file /\ t.tally.sessions = State.tally.sessions
    BY <1>3, <1>4, <1>5, WriterStarts
  <2> QED
    BY <1>8, <1>9, <1>10, <1>11, <2>1, Fewer
<1>13. tally.issued <= Accounted(t, Tail(W))
  <2> DEFINE X == <<Head(W)>>
             n == Cardinality(Numbers(disk, W))
             k == Cardinality(Numbers(disk, Tail(W)))
  <2>1. X \in Seq(Entry) /\ Len(X) = 1 /\ Has(X, Head(W))
    BY <1>1, <1>7 DEF Has
  <2>2. \A x : Has(W, x) => Has(Tail(W), x) \/ Has(X, x)
    BY <1>11, <2>1
  <2>3. t.disk = State.disk /\ State.disk = disk /\ calls \in Nat
    BY <1>4, <1>5, WriterStarts
  <2> HIDE DEF X
  <2>4. n <= k + 1
    BY <1>8, <1>12, <2>1, <2>2, <2>3, NumbersLost
  <2>5. n \in Nat /\ k \in Nat
    BY <1>8, <1>12, <2>3, NumbersOf
  <2>6. tally.issued <= Accounted(State, W)
    BY <1>7, WriterStarts
  <2> HIDE DEF n, k
  <2>7. Accounted(State, W) = n + chan.drops + tally.reported + tally.alerts + tally.destroyed
    BY WriterStarts DEF Accounted, n
  <2>8. Accounted(t, Tail(W)) = k + (chan.drops + 1) + tally.reported + tally.alerts + tally.destroyed
    BY <1>2, <1>3, <1>4, <1>5 DEF Accounted, k
  <2>9. /\ tally.issued \in Nat /\ tally.reported \in Nat /\ tally.alerts \in Nat
        /\ tally.destroyed \in Nat
    BY WriterStarts, StateNumbers
  <2>10. tally.issued <= n + chan.drops + tally.reported + tally.alerts + tally.destroyed
    BY <2>6, <2>7
  <2>11. chan.drops \in Nat
    BY <1>2
  <2>12. tally.issued <= k + (chan.drops + 1) + tally.reported + tally.alerts + tally.destroyed
    BY <2>4, <2>5, <2>9, <2>10, <2>11, FailSum
  <2> QED
    BY <2>8, <2>12
<1>14. /\ hand' \in Seq(Entry) /\ Len(hand') <= 1 /\ map' = map /\ calls' = calls
       /\ joining' = joining /\ crashes' = crashes
  BY <1>6 DEF WriterFail
<1> QED
  BY <1>3, <1>4, <1>5, <1>6, <1>7, <1>10, <1>12, <1>13, <1>14, WriterStarts, After

LEMMA CrashInv == ASSUME IInv, Crash PROVE IInv'
<1> DEFINE lost == Len(chan.pending) + Len(hand) + chan.drops
           c == [pending |-> <<>>, drops |-> 0, up |-> FALSE]
           y == [tally EXCEPT !.destroyed = @ + lost]
           u == [State EXCEPT !.log = NewLog, !.chan = c, !.tally = y]
<1>0. tally.destroyed \in Nat /\ chan.drops \in Nat /\ lost \in Nat
  BY WriterStarts, StateNumbers
<1>01. /\ tally.destroyed + Len(chan.pending) + Len(hand) + chan.drops = tally.destroyed + lost
      /\ tally.issued \in Nat
  <2>1. Len(chan.pending) \in Nat /\ Len(hand) \in Nat
    BY WriterStarts
  <2>2. tally.issued \in Nat
    BY WriterStarts, StateNumbers
  <2>3. PICK a \in Nat, b \in Nat, e \in Nat, d \in Nat :
          a = tally.destroyed /\ b = Len(chan.pending) /\ e = Len(hand) /\ d = chan.drops
    BY <1>0, <2>1
  <2>4. a + b + e + d = a + (b + e + d)
    OBVIOUS
  <2> QED
    BY <2>2, <2>3, <2>4
<1>1. /\ c \in [pending : Seq(Entry), drops : Nat, up : BOOLEAN] /\ c.pending = <<>>
      /\ c.drops = 0 /\ Len(c.pending) <= QCap
  <2>1. <<>> \in Seq(Entry) /\ Len(<<>>) = 0
    OBVIOUS
  <2> QED
    BY <2>1, QCapAssumption
<1>2. /\ y \in [sessions : Nat, issued : Nat, reported : Nat, alerts : Nat, destroyed : Nat,
                mishaps : SUBSET {"writer", "create", "bypass"}]
      /\ y.mishaps = tally.mishaps /\ y.sessions = tally.sessions
      /\ y.issued = tally.issued /\ y.alerts = tally.alerts /\ y.reported = tally.reported
      /\ y.destroyed = tally.destroyed + lost
  <2>1. tally.destroyed + lost \in Nat
    BY <1>0
  <2> HIDE DEF lost
  <2> QED
    BY <2>1 DEF IInv, TypeOK
<1>3. NewLog \in [type : 0 .. 3, file : PerMaps \cup {NoFile}, found : BOOLEAN,
                  errMap : BOOLEAN, async : BOOLEAN]
      /\ NewLog.file = NoFile /\ NewLog.errMap = FALSE
  BY DEF NewLog
<1>4. chan' = c /\ tally' = [tally EXCEPT !.destroyed = @ + lost]
  <2>1. /\ chan' = c
        /\ tally' = [tally EXCEPT !.destroyed = tally.destroyed + Len(chan.pending) + Len(hand)
                                                + chan.drops]
    BY DEF Crash
  <2> QED
    BY <1>01, <2>1
<1>5. Coming' = <<>>
  <2>1. hand' = <<>> /\ chan'.pending = <<>>
    BY <1>1, <1>4 DEF Crash
  <2>2. <<>> \o <<>> = <<>>
    OBVIOUS
  <2> QED
    BY <2>1, <2>2 DEF Coming
<1> HIDE DEF c, lost
<1>6. tally' = y
  BY <1>4
<1> HIDE DEF y
<1>7. /\ DOMAIN u = DOMAIN State /\ u.log = NewLog /\ u.local = local /\ u.chan = c
      /\ u.tally = y /\ u.disk = disk
  BY WriterStarts
<1>8. PICK t : t = u
  OBVIOUS
<1> HIDE DEF u
<1>9. Leave(t)
  BY <1>4, <1>6, <1>7, <1>8 DEF Crash, Leave
<1>10. PICK W : W = Coming
  OBVIOUS
<1>11. Sound(State, W, calls) /\ Unclosed(State, W) /\ W \in Seq(Entry)
  BY <1>10, WriterStarts
<1>12. IsLogState(t)
  BY <1>1, <1>2, <1>3, <1>7, <1>8, WriterStarts DEF IsLogState
<1>13. Idle(t, <<>>) /\ Headed(t, <<>>) /\ Latched(t, <<>>, map)
  BY <1>2, <1>3, <1>7, <1>8, <1>11, WriterStarts, EmptyCovered DEF Sound, Idle, Headed, Latched
<1>14. <<>> \in Seq(Entry) /\ \A x, z : ~Has(<<>>, x) /\ ~Precedes(<<>>, x, z)
  BY EmptyHas
<1>15. /\ Sound(t, <<>>, calls) /\ Unclosed(t, <<>>)
       /\ All(t.disk, <<>>) \subseteq All(State.disk, W)
  <2>1. /\ t.disk = State.disk /\ State.tally.mishaps \subseteq t.tally.mishaps
        /\ t.log.file = NoFile
    BY <1>2, <1>3, <1>7, <1>8, WriterStarts
  <2> QED
    BY <1>11, <1>12, <1>13, <1>14, <2>1, Fewer
<1>16. tally.issued <= Accounted(t, <<>>)
  <2> DEFINE n == Cardinality(Numbers(disk, W))
             k == Cardinality(Numbers(disk, <<>>))
  <2>1. t.disk = State.disk /\ State.disk = disk /\ calls \in Nat
    BY <1>7, <1>8, WriterStarts
  <2>2. n <= k + Len(W)
    BY <1>11, <1>15, <2>1, NumbersLost
  <2>3. n \in Nat /\ k \in Nat
    BY <1>11, <1>14, <1>15, <2>1, NumbersOf
  <2>4. tally.issued <= Accounted(State, W)
    BY <1>10, WriterStarts
  <2> HIDE DEF n, k
  <2>5. Accounted(State, W) = n + chan.drops + tally.reported + tally.alerts + tally.destroyed
    BY WriterStarts DEF Accounted, n
  <2>6. Accounted(t, <<>>) = k + 0 + tally.reported + tally.alerts + (tally.destroyed + lost)
    BY <1>1, <1>2, <1>7, <1>8 DEF Accounted, k
  <2>7. /\ tally.issued \in Nat /\ tally.reported \in Nat /\ tally.alerts \in Nat
    BY WriterStarts, StateNumbers
  <2>8. lost = Len(W) + chan.drops /\ Len(W) \in Nat
    <3>1. Len(W) = Len(hand) + Len(chan.pending)
      BY <1>10, WriterStarts, HandIs
    <3> QED
      BY <1>0, <3>1, WriterStarts DEF lost
  <2>9. tally.issued <= n + chan.drops + tally.reported + tally.alerts + tally.destroyed
    BY <2>4, <2>5
  <2>10. tally.issued <= k + 0 + tally.reported + tally.alerts
                         + (tally.destroyed + (Len(W) + chan.drops))
    BY <1>0, <1>01, <2>2, <2>3, <2>7, <2>8, <2>9, CrashSum
  <2> QED
    BY <2>6, <2>8, <2>10
<1>17. /\ hand' \in Seq(Entry) /\ Len(hand') <= 1 /\ map' = map /\ calls' = calls
       /\ joining' \in BOOLEAN /\ crashes' \in 0 .. MaxCrashes
  <2>1. hand' = <<>> /\ map' = map /\ calls' = calls /\ joining' = FALSE
    BY DEF Crash
  <2>2. crashes' \in 0 .. MaxCrashes
    <3>1. crashes < MaxCrashes /\ crashes' = crashes + 1
      BY DEF Crash
    <3> QED
      BY <3>1, WriterStarts, BoundsAssumption
  <2>3. <<>> \in Seq(Entry) /\ Len(<<>>) <= 1
    OBVIOUS
  <2> QED
    BY <2>1, <2>2, <2>3
<1> QED
  BY <1>2, <1>5, <1>7, <1>8, <1>9, <1>10, <1>13, <1>15, <1>16, <1>17, WriterStarts, After

LEMMA StutterInv == ASSUME IInv, UNCHANGED vars PROVE IInv'
<1>1. /\ chan' = chan /\ hand' = hand /\ joining' = joining
      /\ UNCHANGED <<log, local, disk, map, calls, tally, crashes>>
  BY DEF vars
<1>2. Coming' = Coming
  BY <1>1 DEF Coming
<1>3. PICK c : c = chan
  OBVIOUS
<1> QED
  BY <1>1, <1>2, <1>3, WriterStarts, QueueStep

LEMMA NextInv == IInv /\ [Next]_vars => IInv'
<1> SUFFICES ASSUME IInv, [Next]_vars PROVE IInv'
  OBVIOUS
<1>1. ASSUME NEW l \in Settings, NEW a \in Modes, Configure(l, a) PROVE IInv'
  BY <1>1, ConfigureInv
<1>2. ASSUME NEW f, MapChange(f) PROVE IInv'
  BY <1>2, MapChangeInv
<1>3. ASSUME NEW f, Log(f) PROVE IInv'
  BY <1>3, LogInv
<1>4. ASSUME NEW f, LogError(f) PROVE IInv'
  BY <1>4, LogErrorInv
<1>5. ASSUME NEW f, Detach(f) PROVE IInv'
  BY <1>5, DetachInv
<1>6. CASE Joined
  BY <1>6, JoinedInv
<1>7. CASE WriterTake
  BY <1>7, WriterTakeInv
<1>8. CASE WriterWrite
  BY <1>8, WriterWriteInv
<1>9. CASE WriterFail
  BY <1>9, WriterFailInv
<1>10. CASE Crash
  BY <1>10, CrashInv
<1>11. CASE UNCHANGED vars
  BY <1>11, StutterInv
<1> QED
  BY <1>1, <1>2, <1>3, <1>4, <1>5, <1>6, <1>7, <1>8, <1>9, <1>10, <1>11 DEF Next

\* Whatever the operator sets, whatever files fail, wherever the writer is and
\* whenever the process dies, CLog's state, the lines on their way and the files on
\* disk are as the parts of IInv say.
THEOREM Invariant == Spec => []IInv
<1> QED
  BY InitInv, NextInv, PTL DEF Spec

\* The members of g_log, the queue, every file and every count keep their types:
\* only values of amxx_logging that CLog::SetLogType accepts reach m_LogType.
THEOREM Types == Spec => []TypeOK
<1>1. IInv => TypeOK
  BY DEF IInv
<1> QED
  BY <1>1, Invariant, PTL

-----------------------------------------------------------------------------
(* A file as it will be *)

LEMMA FutureAt ==
  ASSUME IInv, NEW p, NEW i \in Spots(p)
  PROVE  /\ Future(p)[i].path = p /\ Future(p)[i] \in All(disk, Coming)
         /\ Future(p)[i] \in Entry /\ i \in Nat
         /\ \/ i \in 1 .. Len(On(disk, p)) /\ Future(p)[i] = On(disk, p)[i]
            \/ /\ i - Len(On(disk, p)) \in 1 .. Len(Coming)
               /\ Future(p)[i] = Coming[i - Len(On(disk, p))]
         /\ Len(On(disk, p)) \in Nat
<1> DEFINE S == On(disk, p)
<1>1. IsDisk(disk) /\ Coming \in Seq(Entry) /\ Len(Coming) \in Nat
  BY WriterStarts, LenProperties DEF IsLogState
<1>2. S \in Seq(Entry) /\ Len(S) \in Nat
  <2>1. S \in Seq(Entry)
    BY <1>1, EmptySeq DEF IsDisk, On
  <2> QED
    BY <2>1, LenProperties
<1>3. Future(p) = S \o Coming
  BY DEF Future, OnDisk, On
<1>4. PICK W : W = Coming
  OBVIOUS
<1>5. /\ Len(S \o W) = Len(S) + Len(W)
      /\ \A k \in 1 .. Len(S) + Len(W) :
           (S \o W)[k] = IF k <= Len(S) THEN S[k] ELSE W[k - Len(S)]
  BY <1>1, <1>2, <1>4, ConcatProperties
<1>6. i \in 1 .. Len(S) + Len(W) /\ Future(p)[i].path = p
  BY <1>3, <1>4, <1>5 DEF Spots
<1> HIDE DEF S
<1>7. i \in Nat /\ (i \in 1 .. Len(S) \/ (~(i <= Len(S)) /\ i - Len(S) \in 1 .. Len(W)))
  BY <1>1, <1>2, <1>4, <1>6
<1>8. CASE i \in 1 .. Len(S)
  <2>1. i <= Len(S)
    BY <1>2, <1>8
  <2>2. Future(p)[i] = S[i]
    BY <1>3, <1>4, <1>5, <1>6, <2>1
  <2>3. Has(S, S[i]) /\ S[i] \in Entry
    BY <1>2, <1>8, HasEntry DEF Has
  <2>4. Has(On(disk, S[i].path), S[i])
    BY <1>6, <2>2, <2>3 DEF S
  <2> QED
    BY <1>1, <1>2, <1>6, <1>7, <1>8, <2>2, <2>3, <2>4, AllIs DEF S
<1>9. CASE ~(i <= Len(S)) /\ i - Len(S) \in 1 .. Len(W)
  <2>1. Future(p)[i] = W[i - Len(S)]
    BY <1>3, <1>4, <1>5, <1>6, <1>9
  <2>2. Has(W, Future(p)[i])
    BY <1>9, <2>1 DEF Has
  <2> QED
    BY <1>1, <1>2, <1>4, <1>6, <1>7, <1>9, <2>1, <2>2, AllIs DEF S
<1> QED
  BY <1>7, <1>8, <1>9

LEMMA FutureBefore ==
  ASSUME IInv, NEW p, NEW i \in Spots(p), NEW j \in Spots(p), i < j
  PROVE  Before(disk, Coming, Future(p)[i], Future(p)[j])
<1> DEFINE S == On(disk, p)
           x == Future(p)[i]
           y == Future(p)[j]
<1>1. /\ x.path = p /\ y.path = p /\ i \in Nat /\ j \in Nat /\ Len(S) \in Nat
      /\ \/ i \in 1 .. Len(S) /\ x = S[i]
         \/ i - Len(S) \in 1 .. Len(Coming) /\ x = Coming[i - Len(S)]
      /\ \/ j \in 1 .. Len(S) /\ y = S[j]
         \/ j - Len(S) \in 1 .. Len(Coming) /\ y = Coming[j - Len(S)]
  BY FutureAt
<1>2. Len(Coming) \in Nat
  BY WriterStarts, LenProperties
<1> HIDE DEF S, x, y
<1>3. CASE i \in 1 .. Len(S) /\ x = S[i] /\ j \in 1 .. Len(S) /\ y = S[j]
  BY <1>1, <1>3 DEF Before, Precedes, S, x, y
<1>4. CASE /\ i \in 1 .. Len(S) /\ x = S[i]
           /\ j - Len(S) \in 1 .. Len(Coming) /\ y = Coming[j - Len(S)]
  <2>1. Has(S, x) /\ Has(Coming, y)
    BY <1>4 DEF Has
  <2> QED
    BY <1>1, <2>1 DEF Before, S, x, y
<1>5. CASE /\ i - Len(S) \in 1 .. Len(Coming) /\ x = Coming[i - Len(S)]
           /\ j - Len(S) \in 1 .. Len(Coming) /\ y = Coming[j - Len(S)]
  <2>1. i - Len(S) < j - Len(S)
    BY <1>1
  <2>2. Precedes(Coming, x, y)
    BY <1>5, <2>1 DEF Precedes
  <2> QED
    BY <1>1, <2>2 DEF Before, x, y
<1>6. CASE /\ i - Len(S) \in 1 .. Len(Coming) /\ x = Coming[i - Len(S)]
           /\ j \in 1 .. Len(S) /\ y = S[j]
  BY <1>1, <1>2, <1>6
<1> QED
  BY <1>1, <1>3, <1>4, <1>5, <1>6

\* What asynchronous CLog::Log, CLog::CloseFile and CLog::CreateNewFile queue and
\* what they write themselves reaches each file in the order of the calls: a file
\* starts with its header and ends with the line that closes it.
THEOREM FileOrderAlways == Spec => []FileOrder
<1>1. IInv => FileOrder
  <2> SUFFICES ASSUME IInv, {"bypass", "create"} \cap tally.mishaps = {}, NEW p \in Touched,
                      NEW i \in Spots(p), NEW j \in Spots(p), i < j
               PROVE  /\ Future(p)[i].n <= Future(p)[j].n /\ Future(p)[i].kind # "closed"
                      /\ Future(p)[j].kind # "header"
    BY DEF IInv, FileOrder
  <2>1. /\ Future(p)[i] \in All(disk, Coming) /\ Future(p)[j] \in All(disk, Coming)
        /\ Before(disk, Coming, Future(p)[i], Future(p)[j])
    BY FutureAt, FutureBefore
  <2>2. Ordered(State, Coming) /\ State.disk = disk /\ State.tally = tally
    BY WriterStarts DEF Sound
  <2>3. InOrder(Future(p)[i], Future(p)[j])
    BY <2>1, <2>2 DEF Ordered
  <2> QED
    BY <2>3 DEF InOrder
<1> QED
  BY <1>1, Invariant, PTL

\* The name CLog::CreateNewFile probes for is one that no line of an earlier
\* session is in or on its way to, although the writer thread may not have reached
\* that session's lines yet.
THEOREM OneSessionPerFileAlways == Spec => []OneSessionPerFile
<1>1. IInv => OneSessionPerFile
  <2> SUFFICES ASSUME IInv, "create" \notin tally.mishaps, NEW p \in Touched \ {Daily, Error},
                      NEW i \in Spots(p), NEW j \in Spots(p)
               PROVE  Future(p)[i].session = Future(p)[j].session
    BY DEF OneSessionPerFile
  <2>1. /\ Future(p)[i] \in All(disk, Coming) /\ Future(p)[j] \in All(disk, Coming)
        /\ Future(p)[i].path = p /\ Future(p)[j].path = p /\ Future(p)[i] \in Entry
    BY FutureAt
  <2>2. Sessions(State, Coming) /\ State.disk = disk /\ State.tally = tally
    BY WriterStarts DEF Sound
  <2>3. p \in PerMaps
    BY <2>1, EntryPath DEF Files
  <2> QED
    BY <2>1, <2>2, <2>3 DEF Sessions
<1> QED
  BY <1>1, Invariant, PTL

\* The latch m_LoggedErrMap of CLog::LogError: an error is in the error log, or on
\* its way there, only behind a session header of its own map.
THEOREM ErrorsHaveHeaderAlways == Spec => []ErrorsHaveHeader
<1>1. IInv => ErrorsHaveHeader
  <2> SUFFICES ASSUME IInv, "writer" \notin tally.mishaps, NEW j \in Spots(Error)
               PROVE  \E i \in Spots(Error) : /\ i <= j /\ Future(Error)[i].head
                                              /\ Future(Error)[i].map = Future(Error)[j].map
    BY DEF ErrorsHaveHeader
  <2> DEFINE S == On(disk, Error)
             m == Future(Error)[j].map
  <2>1. /\ Future(Error)[j].path = Error /\ j \in Nat /\ Len(S) \in Nat
        /\ \/ j \in 1 .. Len(S) /\ Future(Error)[j] = S[j]
           \/ j - Len(S) \in 1 .. Len(Coming) /\ Future(Error)[j] = Coming[j - Len(S)]
    BY FutureAt
  <2>2. Covered(S) /\ WillBeCovered(S, Coming)
    <3>1. Headed(State, Coming) /\ State.disk = disk /\ State.tally = tally
      BY WriterStarts DEF Sound
    <3> QED
      BY <3>1 DEF Headed
  <2>3. /\ S \in Seq(Entry) /\ Coming \in Seq(Entry) /\ Len(Coming) \in Nat
        /\ Future(Error) = S \o Coming
    <3>1. S \in Seq(Entry)
      BY WriterStarts, FilesApart, OnFacts DEF IsLogState
    <3>2. Future(Error) = S \o Coming
      BY DEF Future, OnDisk, On
    <3> QED
      BY <3>1, <3>2, WriterStarts, LenProperties
  <2> HIDE DEF S
  <2>4. /\ Len(Future(Error)) = Len(S) + Len(Coming)
        /\ \A k \in 1 .. Len(S) : Future(Error)[k] = S[k]
        /\ \A k \in 1 .. Len(Coming) : Future(Error)[Len(S) + k] = Coming[k]
    <3>1. PICK W : W = Coming
      OBVIOUS
    <3>2. /\ Len(S \o W) = Len(S) + Len(W)
          /\ \A k \in 1 .. Len(S) + Len(W) :
               (S \o W)[k] = IF k <= Len(S) THEN S[k] ELSE W[k - Len(S)]
      BY <2>3, <3>1, ConcatProperties
    <3>3. \A k \in 1 .. Len(S) : (S \o W)[k] = S[k]
      BY <2>1, <2>3, <3>1, <3>2
    <3>4. ASSUME NEW k \in 1 .. Len(W) PROVE (S \o W)[Len(S) + k] = W[k]
      <4>1. /\ Len(S) + k \in 1 .. Len(S) + Len(W) /\ ~(Len(S) + k <= Len(S))
            /\ (Len(S) + k) - Len(S) = k
        BY <2>1, <2>3, <3>1
      <4> QED
        BY <3>2, <4>1
    <3> QED
      BY <2>3, <3>1, <3>2, <3>3, <3>4
  <2>5. ASSUME NEW i \in 1 .. Len(S), i <= j, Heads(S[i], m)
        PROVE  \E k \in Spots(Error) : /\ k <= j /\ Future(Error)[k].head
                                       /\ Future(Error)[k].map = m
    <3>1. i \in 1 .. Len(Future(Error)) /\ Future(Error)[i] = S[i]
      BY <2>1, <2>3, <2>4
    <3> QED
      BY <2>5, <3>1 DEF Heads, Spots
  <2>6. ASSUME NEW i \in 1 .. Len(Coming), Len(S) + i <= j, Heads(Coming[i], m)
        PROVE  \E k \in Spots(Error) : /\ k <= j /\ Future(Error)[k].head
                                       /\ Future(Error)[k].map = m
    <3>1. Len(S) + i \in 1 .. Len(Future(Error)) /\ Future(Error)[Len(S) + i] = Coming[i]
      BY <2>1, <2>3, <2>4
    <3> QED
      BY <2>6, <3>1 DEF Heads, Spots
  <2>7. CASE j \in 1 .. Len(S) /\ Future(Error)[j] = S[j]
    <3>1. PICK i \in 1 .. j : Heads(S[i], m)
      BY <2>2, <2>7 DEF Covered
    <3>2. i \in 1 .. Len(S) /\ i <= j
      BY <2>1, <2>7
    <3> QED
      BY <2>5, <3>1, <3>2
  <2>8. CASE j - Len(S) \in 1 .. Len(Coming) /\ Future(Error)[j] = Coming[j - Len(S)]
    <3>1. HeaderIn(S, m) \/ \E i \in 1 .. j - Len(S) : Heads(Coming[i], m)
      BY <2>1, <2>2, <2>8 DEF WillBeCovered
    <3>2. CASE HeaderIn(S, m)
      <4>1. PICK i \in 1 .. Len(S) : Heads(S[i], m)
        BY <3>2 DEF HeaderIn
      <4>2. i <= j
        BY <2>1, <2>3, <2>8
      <4> QED
        BY <2>5, <4>1, <4>2
    <3>3. CASE \E i \in 1 .. j - Len(S) : Heads(Coming[i], m)
      <4>1. PICK i \in 1 .. j - Len(S) : Heads(Coming[i], m)
        BY <3>3
      <4>2. i \in 1 .. Len(Coming) /\ Len(S) + i <= j
        BY <2>1, <2>3, <2>8
      <4> QED
        BY <2>6, <4>1, <4>2
    <3> QED
      BY <3>1, <3>2, <3>3
  <2> QED
    BY <2>1, <2>7, <2>8
<1> QED
  BY <1>1, Invariant, PTL

\* Every call of CLog::Log or CLog::LogError with logging on leaves its line in a
\* file or on its way, or is covered by a count or an alert that says so: a full
\* ring, a failed open, a writer that cannot write and a crash included.
THEOREM NothingLostSilentlyAlways == Spec => []NothingLostSilently
<1>1. IInv => NothingLostSilently
  <2> SUFFICES ASSUME IInv PROVE NothingLostSilently
    OBVIOUS
  <2>1. Lines = All(disk, Coming)
    BY DEF Lines, All
  <2>2. Kept = Numbers(disk, Coming)
    BY <2>1 DEF Kept, Numbers, Counted
  <2>3. tally.issued <= Accounted(State, Coming) /\ State.disk = disk /\ State.chan = chan
        /\ State.tally = tally
    BY WriterStarts
  <2> QED
    BY <2>2, <2>3 DEF NothingLostSilently, Accounted
<1> QED
  BY <1>1, Invariant, PTL

=============================================================================
