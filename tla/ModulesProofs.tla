---------------------------- MODULE ModulesProofs ---------------------------
(***************************************************************************)
(* Proofs about the two loadable modules modelled: SqlWorker, for any      *)
(* number of queries and of lives of the worker, and NVault, for any keys  *)
(* and values, journals of any length and any number of crashes.  They     *)
(* share no state, and each theorem speaks of one specification only.      *)
(***************************************************************************)
EXTENDS SqlWorker, NVault, SequenceTheorems, FiniteSetTheorems, WellFoundedInduction, TLAPS

-----------------------------------------------------------------------------
(* Threaded queries: the inductive invariant *)

\* Where each thread can be while the other is where it is, and what is empty
\* then: a worker is joined with nothing left to run, and forgotten with nothing
\* left to hand out.
WorkerFollows ==
  /\ state = "none" => wpc = "done" /\ queue = <<>>
  /\ state = "running" => wpc \notin {"done", "drain"}
  /\ wpc = "drain" => ~cancel
  /\ work # <<>> => wpc \in {"run", "drain"}
  /\ wpc = "done" /\ state = "stopped" /\ ~cancel => queue = <<>>

GameLeads ==
  /\ gpc = "frame" => state \in {"none", "running"} /\ base = 0
  /\ gpc \in {"stop", "quit"} => state = "running"
  /\ gpc \in {"wake", "join"} => state = "stopped"
  /\ gpc \in {"deliver", "gone"} => state = "none"
  /\ gpc = "frame" /\ state = "none" => results = <<>>
  /\ gpc = "quit" \/ (gpc \in {"wake", "join"} /\ cancel) => calls = <<>>
  /\ gpc = "gone" => results = <<>> /\ calls = <<>> /\ free = <<>> /\ query = <<>>

\* No object occurs twice, in one pile or in two of them.
Once(s) == \A j, k \in 1 .. Len(s) : s[j] = s[k] => j = k
Apart(s, t) == ToSet(s) \cap ToSet(t) = {}

InOnePlace ==
  /\ Once(queue) /\ Once(work) /\ Once(results) /\ Once(calls) /\ Once(free)
  /\ Apart(queue, work) /\ Apart(queue, results) /\ Apart(queue, calls)
  /\ Apart(queue, free) /\ Apart(work, results) /\ Apart(work, calls)
  /\ Apart(work, free) /\ Apart(results, calls) /\ Apart(results, free)
  /\ Apart(calls, free)
  /\ Objects = ToSet(queue) \cup ToSet(work) \cup ToSet(results) \cup ToSet(calls) \cup ToSet(free)

FreeCarryNothing == \A o \in Objects : query[o] = NoQuery <=> o \in ToSet(free)

\* The objects that are still to be handed out carry different queries, and the
\* queries that were accepted and are not among theirs have been answered.
Pending == ToSet(queue) \cup ToSet(work) \cup ToSet(results)
Carried(q) == \E o \in Pending : query[o] = q

PendingDiffer ==
  /\ \A o \in Pending : query[o] \in 1 .. asked
  /\ \A o, p \in Pending : query[o] = query[p] => o = p

Answers ==
  \A q \in Queries :
    /\ answered[q] \in {0, 1}
    /\ gpc # "gone" => (answered[q] = 1 <=> q <= asked /\ ~Carried(q))

IInv == /\ TypeOK /\ WorkerFollows /\ GameLeads
        /\ InOnePlace /\ FreeCarryNothing /\ PendingDiffer /\ Answers
USE BoundsAssumption, NoQueryAssumption

-----------------------------------------------------------------------------
(* Piles of objects *)

\* What a pile holds.
LEMMA PileElements ==
  ASSUME NEW S, NEW s \in Seq(S)
  PROVE  /\ Len(s) \in Nat
         /\ ToSet(s) = {s[k] : k \in 1 .. Len(s)}
         /\ ToSet(s) \subseteq S
         /\ s = <<>> <=> ToSet(s) = {}
<1>1. Len(s) \in Nat /\ DOMAIN s = 1 .. Len(s)
  BY LenProperties
<1>2. \A k \in 1 .. Len(s) : s[k] \in S
  BY ElementOfSeq
<1>3. s = <<>> => Len(s) = 0
  BY EmptySeq
<1>4. s # <<>> => 1 \in 1 .. Len(s)
  BY <1>1, EmptySeq
<1>5. ToSet(s) = {s[k] : k \in 1 .. Len(s)}
  BY <1>1 DEF ToSet
<1>6. ToSet(s) \subseteq S
  BY <1>2, <1>5
<1>7. s = <<>> => ToSet(s) = {}
  <2>1. Len(s) = 0 => 1 .. Len(s) = {}
    OBVIOUS
  <2> QED
    BY <2>1, <1>3, <1>5
<1>8. s # <<>> => ToSet(s) # {}
  BY <1>4, <1>5
<1> QED
  BY <1>1, <1>5, <1>6, <1>7, <1>8

LEMMA EmptyPile == ToSet(<<>>) = {} /\ Once(<<>>) /\ (\A S : <<>> \in Seq(S))
<1>1. \A S : <<>> \in Seq(S)
  BY EmptySeq
<1>2. Len(<<>>) = 0
  BY EmptySeq
<1>3. ToSet(<<>>) = {}
  BY <1>1, PileElements
<1> QED
  BY <1>1, <1>2, <1>3 DEF Once

\* A pile may be said to hold objects of another set that has all it holds.
LEMMA Retyped ==
  ASSUME NEW S, NEW T, NEW s \in Seq(S), ToSet(s) \subseteq T
  PROVE  s \in Seq(T)
<1>1. Len(s) \in Nat /\ s \in [1 .. Len(s) -> S]
  BY LenProperties
<1>2. \A k \in 1 .. Len(s) : s[k] \in T
  BY PileElements
<1>3. s \in [1 .. Len(s) -> T]
  BY <1>1, <1>2
<1> QED
  BY <1>1, <1>3, SeqDef

LEMMA Pushed ==
  ASSUME NEW S, NEW s \in Seq(S), NEW x \in S
  PROVE  /\ Push(s, x) \in Seq(S) /\ Len(Push(s, x)) = Len(s) + 1
         /\ ToSet(Push(s, x)) = ToSet(s) \cup {x}
         /\ Once(s) /\ x \notin ToSet(s) => Once(Push(s, x))
<1> DEFINE t == Push(s, x)
<1>1. <<x>> \in Seq(S) /\ Len(<<x>>) = 1 /\ <<x>>[1] = x
  OBVIOUS
<1>2. Len(s) \in Nat /\ ToSet(s) = {s[k] : k \in 1 .. Len(s)}
  BY PileElements
<1>3. /\ t \in Seq(S) /\ Len(t) = Len(s) + 1
      /\ \A i \in 1 .. Len(s) + 1 : t[i] = IF i <= 1 THEN <<x>>[i] ELSE s[i - 1]
  BY <1>1, <1>2, ConcatProperties DEF Push
<1>4. t[1] = x /\ \A i \in 2 .. Len(s) + 1 : t[i] = s[i - 1]
  BY <1>1, <1>2, <1>3
<1>5. ToSet(t) = {t[k] : k \in 1 .. Len(t)}
  BY <1>3, PileElements
<1>6. \A k \in 1 .. Len(s) : t[k + 1] = s[k] /\ k + 1 \in 1 .. Len(t)
  BY <1>2, <1>3, <1>4
<1>7. ToSet(t) = ToSet(s) \cup {x}
  <2>1. ToSet(s) \subseteq ToSet(t)
    <3>1. ASSUME NEW k \in 1 .. Len(s)  PROVE s[k] \in ToSet(t)
      BY <1>5, <1>6
    <3> QED
      BY <3>1, <1>2
  <2>0. x \in ToSet(t)
    <3>1. 1 \in 1 .. Len(t)
      BY <1>2, <1>3
    <3> QED
      BY <3>1, <1>4, <1>5
  <2>2. ASSUME NEW k \in 1 .. Len(t)  PROVE t[k] \in ToSet(s) \cup {x}
    <3>1. k = 1 \/ (k \in 2 .. Len(s) + 1 /\ k - 1 \in 1 .. Len(s))
      BY <1>2, <1>3
    <3> QED
      BY <3>1, <1>2, <1>4
  <2> QED
    BY <2>0, <2>1, <2>2, <1>5
<1>8. ASSUME Once(s), x \notin ToSet(s)  PROVE Once(t)
  <2>1. ASSUME NEW j \in 1 .. Len(t), NEW k \in 1 .. Len(t), t[j] = t[k]  PROVE j = k
    <3>1. /\ j = 1 \/ (j - 1 \in 1 .. Len(s) /\ t[j] = s[j - 1])
          /\ k = 1 \/ (k - 1 \in 1 .. Len(s) /\ t[k] = s[k - 1])
      BY <1>2, <1>3, <1>4
    <3>2. j # 1 /\ k # 1 => j - 1 = k - 1
      BY <3>1, <2>1, <1>8 DEF Once
    <3>3. j = 1 <=> k = 1
      BY <3>1, <2>1, <1>8, <1>2, <1>4
    <3> QED
      BY <3>2, <3>3, <1>3, <1>2
  <2> QED
    BY <2>1 DEF Once
<1> QED
  BY <1>3, <1>7, <1>8

LEMMA Appended ==
  ASSUME NEW S, NEW s \in Seq(S), NEW x \in S
  PROVE  /\ Append(s, x) \in Seq(S)
         /\ ToSet(Append(s, x)) = ToSet(s) \cup {x}
         /\ Once(s) /\ x \notin ToSet(s) => Once(Append(s, x))
<1> DEFINE t == Append(s, x)
<1>1. Len(s) \in Nat /\ ToSet(s) = {s[k] : k \in 1 .. Len(s)}
  BY PileElements
<1>2. /\ t \in Seq(S) /\ Len(t) = Len(s) + 1
      /\ \A i \in 1 .. Len(s) : t[i] = s[i]
      /\ t[Len(s) + 1] = x
  BY AppendProperties
<1>3. ToSet(t) = {t[k] : k \in 1 .. Len(t)}
  BY <1>2, PileElements
<1>4. \A k \in 1 .. Len(t) : k \in 1 .. Len(s) \/ k = Len(s) + 1
  BY <1>1, <1>2
<1>5. 1 .. Len(s) \subseteq 1 .. Len(t) /\ Len(s) + 1 \in 1 .. Len(t)
  BY <1>1, <1>2
<1> HIDE DEF t
<1>6. ToSet(t) = ToSet(s) \cup {x}
  BY <1>1, <1>2, <1>3, <1>4, <1>5
<1>7. ASSUME Once(s), x \notin ToSet(s)  PROVE Once(t)
  <2>1. ASSUME NEW j \in 1 .. Len(t), NEW k \in 1 .. Len(t), t[j] = t[k]  PROVE j = k
    <3>1. CASE j \in 1 .. Len(s) /\ k \in 1 .. Len(s)
      BY <3>1, <2>1, <1>2, <1>7 DEF Once
    <3>2. CASE j \notin 1 .. Len(s) \/ k \notin 1 .. Len(s)
      BY <3>2, <2>1, <1>1, <1>2, <1>4, <1>7
    <3> QED
      BY <3>1, <3>2
  <2> QED
    BY <2>1 DEF Once
<1> QED
  BY <1>2, <1>6, <1>7 DEF t

LEMMA Popped ==
  ASSUME NEW S, NEW s \in Seq(S), s # <<>>
  PROVE  /\ Head(s) = s[1] /\ Head(s) \in S
         /\ Tail(s) \in Seq(S) /\ Len(Tail(s)) = Len(s) - 1
         /\ ToSet(s) = {Head(s)} \cup ToSet(Tail(s))
         /\ Once(s) => Once(Tail(s)) /\ Head(s) \notin ToSet(Tail(s))
<1> DEFINE t == Tail(s)
<1>1. Len(s) \in Nat \ {0} /\ ToSet(s) = {s[k] : k \in 1 .. Len(s)}
  BY PileElements, EmptySeq
<1>2. /\ Head(s) \in S /\ t \in Seq(S) /\ Len(t) = Len(s) - 1
      /\ \A i \in 1 .. Len(t) : t[i] = s[i + 1]
  BY HeadTailProperties
<1>3. Head(s) = s[1]
  BY DEF Head
<1>4. ToSet(t) = {t[k] : k \in 1 .. Len(t)}
  BY <1>2, PileElements
<1>5. /\ \A k \in 1 .. Len(s) : k = 1 \/ (k - 1 \in 1 .. Len(t) /\ t[k - 1] = s[k])
      /\ \A k \in 1 .. Len(t) : k + 1 \in 1 .. Len(s) /\ k + 1 # 1
      /\ 1 \in 1 .. Len(s)
  BY <1>1, <1>2
<1> HIDE DEF t
<1>6. ToSet(s) = {Head(s)} \cup ToSet(t)
  BY <1>1, <1>2, <1>3, <1>4, <1>5
<1>7. ASSUME Once(s)  PROVE Once(t) /\ Head(s) \notin ToSet(t)
  <2>1. Head(s) \notin ToSet(t)
    BY <1>7, <1>2, <1>3, <1>4, <1>5 DEF Once
  <2>2. ASSUME NEW j \in 1 .. Len(t), NEW k \in 1 .. Len(t), t[j] = t[k]  PROVE j = k
    <3>1. s[j + 1] = s[k + 1]
      BY <2>2, <1>2
    <3>2. j + 1 = k + 1
      BY <3>1, <1>5, <1>7 DEF Once
    <3> QED
      BY <3>2
  <2> QED
    BY <2>1, <2>2 DEF Once
<1> QED
  BY <1>2, <1>3, <1>6, <1>7 DEF t

LEMMA Concatenated ==
  ASSUME NEW S, NEW s \in Seq(S), NEW t \in Seq(S)
  PROVE  /\ s \o t \in Seq(S)
         /\ ToSet(s \o t) = ToSet(s) \cup ToSet(t)
         /\ Once(s) /\ Once(t) /\ Apart(s, t) => Once(s \o t)
<1> DEFINE u == s \o t
           m == Len(s)
           n == Len(t)
<1>1. m \in Nat /\ n \in Nat
  BY PileElements
<1>2. /\ u \in Seq(S) /\ Len(u) = m + n
      /\ \A i \in 1 .. m + n : u[i] = IF i <= m THEN s[i] ELSE t[i - m]
  BY ConcatProperties
<1>3. /\ ToSet(s) = {s[k] : k \in 1 .. m} /\ ToSet(t) = {t[k] : k \in 1 .. n}
      /\ ToSet(u) = {u[k] : k \in 1 .. m + n}
  <2>1. /\ ToSet(s) = {s[k] : k \in 1 .. m} /\ ToSet(t) = {t[k] : k \in 1 .. n}
    BY PileElements
  <2> HIDE DEF u
  <2>2. ToSet(u) = {u[k] : k \in 1 .. Len(u)}
    BY <1>2, PileElements
  <2> QED
    BY <2>1, <2>2, <1>2
<1>4. \A i \in 1 .. m + n :
        \/ i \in 1 .. m /\ u[i] = s[i]
        \/ i - m \in 1 .. n /\ u[i] = t[i - m]
  BY <1>1, <1>2
<1>5. /\ \A k \in 1 .. m : k \in 1 .. m + n /\ u[k] = s[k]
      /\ \A k \in 1 .. n : m + k \in 1 .. m + n /\ u[m + k] = t[k]
  BY <1>1, <1>2
<1> HIDE DEF u, m, n
<1>6. ToSet(u) = ToSet(s) \cup ToSet(t)
  <2>1. ToSet(u) \subseteq ToSet(s) \cup ToSet(t)
    BY <1>3, <1>4
  <2>2. ToSet(s) \subseteq ToSet(u)
    BY <1>3, <1>5
  <2>3. ToSet(t) \subseteq ToSet(u)
    BY <1>3, <1>5
  <2> QED
    BY <2>1, <2>2, <2>3
<1>7. ASSUME Once(s), Once(t), Apart(s, t)  PROVE Once(u)
  <2>1. ASSUME NEW j \in 1 .. m + n, NEW k \in 1 .. m + n, u[j] = u[k]  PROVE j = k
    <3>1. \A x \in ToSet(s) : x \notin ToSet(t)
      BY <1>7 DEF Apart
    <3>2. CASE j \in 1 .. m /\ u[j] = s[j]
      <4>1. k \in 1 .. m /\ u[k] = s[k]
        BY <3>1, <3>2, <2>1, <1>3, <1>4
      <4> QED
        BY <3>2, <4>1, <2>1, <1>7 DEF Once, m
    <3>3. CASE j - m \in 1 .. n /\ u[j] = t[j - m]
      <4>1. k - m \in 1 .. n /\ u[k] = t[k - m]
        BY <3>1, <3>3, <2>1, <1>3, <1>4
      <4>2. j - m = k - m
        BY <3>3, <4>1, <2>1, <1>7 DEF Once, n
      <4> QED
        BY <4>2, <1>1
    <3> QED
      BY <3>2, <3>3, <1>4
  <2> QED
    BY <2>1, <1>2 DEF Once, m, n
<1> QED
  BY <1>2, <1>6, <1>7 DEF u

\* A pile without repetition that holds all of a finite set is as long as that is large.
LEMMA OnceCounts ==
  ASSUME NEW S, NEW s \in Seq(S), ToSet(s) = S, Once(s)
  PROVE  Len(s) = Cardinality(S)
<1> DEFINE n == Len(s)
<1>1. n \in Nat /\ n \in Int /\ 1 \in Int /\ ToSet(s) = {s[k] : k \in 1 .. n}
      /\ s \in [1 .. n -> S]
  BY PileElements, LenProperties
<1>2. IsFiniteSet(1 .. n) /\ Cardinality(1 .. n) = n
  <2> HIDE DEF n
  <2>1. IsFiniteSet(1 .. n) /\ Cardinality(1 .. n) = IF 1 > n THEN 0 ELSE n - 1 + 1
    BY <1>1, FS_Interval
  <2> QED
    BY <1>1, <2>1
<1>3. s \in Surjection(1 .. n, S) /\ s \in Injection(1 .. n, S)
  BY <1>1 DEF Surjection, Injection, IsInjective, Once
<1> QED
  BY <1>2, <1>3, FS_Surjection

-----------------------------------------------------------------------------
(* The data the steps of control leave alone *)

TypeControl ==
  /\ state \in {"none", "running", "stopped"}
  /\ cancel \in BOOLEAN /\ burst \in BOOLEAN /\ waiting \in BOOLEAN
  /\ wpc \in {"look", "check", "unlocked", "asleep", "woken", "again", "run", "drain", "done"}
  /\ gpc \in {"frame", "stop", "quit", "wake", "join", "deliver", "gone"}

TypePiles ==
  /\ queue \in Pile /\ work \in Pile /\ results \in Pile /\ free \in Pile /\ calls \in Pile
  /\ Len(work) <= 1 /\ Len(calls) <= base + 1 /\ base \in 0 .. 1
  /\ query \in Seq(Queries \cup {NoQuery})

TypeCounts ==
  /\ asked \in 0 .. MaxQueries /\ lives \in 0 .. MaxLives
  /\ answered \in [Queries -> Nat]

LEMMA TypeParts == TypeOK <=> TypeControl /\ TypePiles /\ TypeCounts
BY DEF TypeOK, TypeControl, TypePiles, TypeCounts

LEMMA ObjectsCount ==
  ASSUME TypePiles
  PROVE  /\ Objects = 1 .. Len(query) /\ Len(query) \in Nat
         /\ IsFiniteSet(Objects) /\ Cardinality(Objects) = Len(query)
<1>1. Objects = 1 .. Len(query) /\ Len(query) \in Nat
  BY LenProperties DEF TypePiles, Objects
<1>2. Len(query) \in Int /\ 1 \in Int
  BY <1>1
<1>3. IsFiniteSet(1 .. Len(query))
      /\ Cardinality(1 .. Len(query)) = IF 1 > Len(query) THEN 0 ELSE Len(query) - 1 + 1
  BY <1>2, FS_Interval
<1> QED
  BY <1>1, <1>3

\* A step that moves no object and counts nothing.
Still == UNCHANGED <<queue, work, pools, calls, asked, answered>>

LEMMA StillKept ==
  ASSUME IInv, Still, gpc # "gone"
  PROVE  InOnePlace' /\ FreeCarryNothing' /\ PendingDiffer' /\ Answers'
<1>1. Pending' = Pending /\ Objects' = Objects /\ \A q : Carried(q)' <=> Carried(q)
  BY DEF Still, pools, Pending, Objects, Carried
<1>2. InOnePlace'
  BY <1>1 DEF IInv, InOnePlace, Still, pools, Once, Apart
<1>3. FreeCarryNothing'
  BY <1>1 DEF IInv, FreeCarryNothing, Still, pools
<1>4. PendingDiffer'
  BY <1>1 DEF IInv, PendingDiffer, Still, pools
<1>5. Answers'
  BY <1>1 DEF IInv, Answers, Still
<1> QED
  BY <1>2, <1>3, <1>4, <1>5

-----------------------------------------------------------------------------
(* Control *)

LEMMA ControlKept ==
  ASSUME IInv, Next
  PROVE  TypeControl' /\ WorkerFollows' /\ GameLeads'
<1>0. TypeControl /\ TypePiles /\ WorkerFollows /\ GameLeads
  BY TypeParts DEF IInv
<1> USE DEF TypeControl, worker, pools, game, history
<1>1. CASE Look
  BY <1>1, <1>0 DEF Look, WorkerFollows, GameLeads
<1>2. CASE Check
  BY <1>2, <1>0 DEF Check, WorkerFollows, GameLeads
<1>3. CASE Wait
  BY <1>3, <1>0 DEF Wait, WorkerFollows, GameLeads
<1>4. CASE Woken
  BY <1>4, <1>0 DEF Woken, WorkerFollows, GameLeads
<1>5. CASE Again
  BY <1>5, <1>0 DEF Again, WorkerFollows, GameLeads
<1>6. CASE Pop
  BY <1>6, <1>0 DEF Pop, WorkerFollows, GameLeads
<1>7. CASE Ran
  BY <1>7, <1>0 DEF Ran, WorkerFollows, GameLeads
<1>8. CASE SpuriousWake
  BY <1>8, <1>0 DEF SpuriousWake, WorkerFollows, GameLeads
<1>9. CASE Start
  BY <1>9, <1>0 DEF Start, WorkerFollows, GameLeads
<1>10. CASE ThreadQuery
  BY <1>10, <1>0 DEF ThreadQuery, PluginRuns, Signalled, WorkerFollows, GameLeads
<1>11. CASE Call
  BY <1>11, <1>0 DEF Call, Delivering, WorkerFollows, GameLeads
<1>12. CASE Return
  BY <1>12, <1>0 DEF Return, PluginRuns, WorkerFollows, GameLeads
<1>13. CASE Unload
  BY <1>13, <1>0 DEF Unload, WorkerFollows, GameLeads
<1>14. CASE Detach
  BY <1>14, <1>0 DEF Detach, WorkerFollows, GameLeads
<1>15. CASE SetStopped
  BY <1>15, <1>0 DEF SetStopped, WorkerFollows, GameLeads
<1>16. CASE Wake
  BY <1>16, <1>0 DEF Wake, Signalled, WorkerFollows, GameLeads
<1>17. CASE Join
  BY <1>17, <1>0 DEF Join, WorkerFollows, GameLeads
<1>18. CASE Unloaded
  BY <1>18, <1>0 DEF Unloaded, WorkerFollows, GameLeads
<1> QED
  BY <1>1, <1>2, <1>3, <1>4, <1>5, <1>6, <1>7, <1>8, <1>9, <1>10, <1>11, <1>12, <1>13, <1>14, <1>15, <1>16, <1>17, <1>18
  DEF Next, WorkerStep, UnloadStep

-----------------------------------------------------------------------------
(* Data *)

DataKept ==
  TypePiles' /\ TypeCounts' /\ InOnePlace' /\ FreeCarryNothing' /\ PendingDiffer' /\ Answers'

LEMMA PendingAreObjects ==
  ASSUME TypePiles, InOnePlace
  PROVE  /\ Pending \subseteq Objects /\ Pending \cap ToSet(free) = {}
         /\ Pending \cap ToSet(calls) = {}
BY DEF InOnePlace, Pending, Apart

LEMMA PopKept ==
  ASSUME IInv, Pop
  PROVE  DataKept
<1>0. TypePiles /\ TypeCounts /\ InOnePlace /\ work = <<>>
  BY TypeParts DEF IInv, Pop
<1>1. CASE queue = <<>>
  <2>1. Still /\ gpc # "gone"
    BY <1>1 DEF Pop, Still, pools, game, history, IInv, GameLeads, WorkerFollows
  <2>2. TypePiles' /\ TypeCounts'
    BY <1>0, <1>1 DEF Pop, TypePiles, TypeCounts, pools, game, history, Pile, Objects
  <2> QED
    BY <2>1, <2>2, StillKept DEF DataKept
<1>2. CASE queue # <<>>
  <2> DEFINE o == Head(queue)
  <2>1. /\ work' = <<o>> /\ queue' = Tail(queue)
        /\ UNCHANGED <<results, free, query, calls, base, asked, answered, lives, gpc>>
    BY <1>2 DEF Pop, pools, game, history
  <2>2. /\ queue \in Seq(Objects) /\ o \in Objects /\ Tail(queue) \in Seq(Objects)
        /\ ToSet(queue) = {o} \cup ToSet(Tail(queue))
        /\ Once(Tail(queue)) /\ o \notin ToSet(Tail(queue))
    BY <1>0, <1>2, Popped DEF TypePiles, Pile, InOnePlace
  <2>3. <<o>> = Push(work, o)
    BY <1>0, EmptyPile DEF Push
  <2>4. /\ <<o>> \in Seq(Objects) /\ Len(<<o>>) = 1 /\ ToSet(<<o>>) = {o} /\ Once(<<o>>)
        /\ ToSet(work) = {}
    <3>1. /\ work \in Seq(Objects) /\ Len(work) = 0 /\ ToSet(work) = {} /\ Once(work)
          /\ o \notin ToSet(work) /\ o \in Objects
      BY <1>0, <2>2, EmptyPile, EmptySeq
    <3> HIDE DEF o
    <3>2. /\ Push(work, o) \in Seq(Objects) /\ Len(Push(work, o)) = Len(work) + 1
          /\ ToSet(Push(work, o)) = ToSet(work) \cup {o} /\ Once(Push(work, o))
      BY <3>1, Pushed
    <3> QED
      BY <2>3, <3>1, <3>2
  <2>5. TypePiles' /\ TypeCounts'
    BY <1>0, <2>1, <2>2, <2>4 DEF TypePiles, TypeCounts, Pile, Objects
  <2>6. Pending' = Pending /\ Objects' = Objects
    BY <2>1, <2>2, <2>4 DEF Pending, Objects
  <2>7. InOnePlace'
    BY <1>0, <2>1, <2>2, <2>4, <2>6 DEF InOnePlace, Apart
  <2>8. FreeCarryNothing' /\ PendingDiffer' /\ Answers'
    BY <2>1, <2>6 DEF IInv, FreeCarryNothing, PendingDiffer, Answers, Carried
  <2> QED
    BY <2>5, <2>7, <2>8 DEF DataKept
<1> QED
  BY <1>1, <1>2

LEMMA RanKept ==
  ASSUME IInv, Ran
  PROVE  DataKept
<1>0. TypePiles /\ TypeCounts /\ InOnePlace /\ work # <<>>
  BY TypeParts DEF IInv, Ran
<1> DEFINE o == work[1]
<1>1. /\ results' = Push(results, o) /\ work' = <<>>
      /\ UNCHANGED <<queue, free, query, calls, base, asked, answered, lives, gpc>>
  BY DEF Ran, game, history
<1>2. /\ o \in Objects /\ ToSet(work) = {o}
  <2>1. /\ o = Head(work) /\ o \in Objects /\ ToSet(work) = {o} \cup ToSet(Tail(work))
        /\ Len(Tail(work)) = Len(work) - 1 /\ Tail(work) \in Seq(Objects) /\ Len(work) \in Nat
    BY <1>0, Popped, PileElements DEF TypePiles, Pile
  <2>2. Len(Tail(work)) = 0
    BY <2>1, <1>0, PileElements DEF TypePiles
  <2>3. ToSet(Tail(work)) = {}
    BY <2>1, <2>2, EmptySeq, PileElements
  <2> QED
    BY <2>1, <2>3
<1>3. o \notin ToSet(results)
  BY <1>0, <1>2 DEF InOnePlace, Apart
<1>4. /\ Push(results, o) \in Seq(Objects) /\ ToSet(Push(results, o)) = ToSet(results) \cup {o}
      /\ Once(Push(results, o))
  <2>1. results \in Seq(Objects) /\ Once(results)
    BY <1>0 DEF TypePiles, Pile, InOnePlace
  <2> HIDE DEF o
  <2> QED
    BY <1>2, <1>3, <2>1, Pushed
<1>5. ToSet(<<>>) = {} /\ Once(<<>>) /\ <<>> \in Seq(Objects) /\ Len(<<>>) = 0
  BY EmptyPile, EmptySeq
<1>6. TypePiles' /\ TypeCounts'
  BY <1>0, <1>1, <1>4, <1>5 DEF TypePiles, TypeCounts, Pile, Objects
<1>7. Pending' = Pending /\ Objects' = Objects
  BY <1>1, <1>2, <1>4, <1>5 DEF Pending, Objects
<1>8. InOnePlace'
  BY <1>0, <1>1, <1>2, <1>4, <1>5, <1>7 DEF InOnePlace, Apart
<1>9. FreeCarryNothing' /\ PendingDiffer' /\ Answers'
  BY <1>1, <1>7 DEF IInv, FreeCarryNothing, PendingDiffer, Answers, Carried
<1> QED
  BY <1>6, <1>8, <1>9 DEF DataKept

\* A frame or the end of the map hands out the top result.
LEMMA CallKept ==
  ASSUME IInv, Call
  PROVE  DataKept
<1>0. /\ TypePiles /\ TypeCounts /\ InOnePlace /\ results # <<>> /\ Len(calls) = base
      /\ gpc # "gone" /\ PendingDiffer /\ Answers
  BY TypeParts DEF IInv, Call, Delivering
<1> DEFINE o == Head(results)
           q == query[o]
<1>1. /\ results' = Tail(results) /\ calls' = Push(calls, o)
      /\ answered' = [answered EXCEPT ![q] = @ + 1]
      /\ UNCHANGED <<queue, work, free, query, base, asked, lives, gpc>>
  BY DEF Call, worker
<1>2. /\ o \in Objects /\ Tail(results) \in Seq(Objects)
      /\ ToSet(results) = {o} \cup ToSet(Tail(results))
      /\ Once(Tail(results)) /\ o \notin ToSet(Tail(results))
  BY <1>0, Popped DEF TypePiles, Pile, InOnePlace
<1>3. o \notin ToSet(calls)
  BY <1>0, <1>2 DEF InOnePlace, Apart
<1>4. /\ Push(calls, o) \in Seq(Objects) /\ Len(Push(calls, o)) = Len(calls) + 1
      /\ ToSet(Push(calls, o)) = ToSet(calls) \cup {o} /\ Once(Push(calls, o))
  <2>1. calls \in Seq(Objects) /\ Once(calls)
    BY <1>0 DEF TypePiles, Pile, InOnePlace
  <2> HIDE DEF o
  <2> QED
    BY <1>2, <1>3, <2>1, Pushed
<1>5. o \in Pending /\ Pending' = Pending \ {o} /\ Objects' = Objects
  BY <1>0, <1>1, <1>2 DEF Pending, Objects, InOnePlace, Apart
<1>6. q \in 1 .. asked /\ q \in Queries /\ asked \in Nat
  BY <1>0, <1>5 DEF PendingDiffer, TypeCounts, Queries
<1>7. answered[q] = 0
  BY <1>0, <1>5, <1>6 DEF Answers, Carried
<1>8. /\ answered' \in [Queries -> Nat] /\ answered'[q] = 1
      /\ \A r \in Queries : r # q => answered'[r] = answered[r]
  BY <1>0, <1>1, <1>6, <1>7 DEF TypeCounts
<1>9. TypePiles' /\ TypeCounts'
  <2>1. Len(calls') <= base' + 1
    BY <1>0, <1>1, <1>4 DEF TypePiles
  <2> QED
    BY <1>0, <1>1, <1>2, <1>4, <1>8, <2>1 DEF TypePiles, TypeCounts, Pile, Objects
<1>10. InOnePlace'
  BY <1>0, <1>1, <1>2, <1>4, <1>5 DEF InOnePlace, Apart
<1>11. FreeCarryNothing'
  BY <1>1, <1>5 DEF IInv, FreeCarryNothing
<1>12. PendingDiffer'
  BY <1>0, <1>1, <1>5 DEF PendingDiffer
<1>13. ASSUME NEW r \in Queries
       PROVE  Carried(r)' <=> r # q /\ Carried(r)
  BY <1>0, <1>1, <1>5 DEF PendingDiffer, Carried
<1>14. Answers'
  <2>1. ASSUME NEW r \in Queries
        PROVE  /\ answered'[r] \in {0, 1}
               /\ answered'[r] = 1 <=> r <= asked' /\ ~Carried(r)'
    <3>1. CASE r = q
      BY <3>1, <1>1, <1>6, <1>8, <1>13
    <3>2. CASE r # q
      BY <3>2, <1>0, <1>1, <1>8, <1>13 DEF Answers
    <3> QED
      BY <3>1, <3>2
  <2> QED
    BY <2>1 DEF Answers
<1> QED
  BY <1>9, <1>10, <1>11, <1>12, <1>14 DEF DataKept

\* The object of the call that returns is free.
LEMMA ReturnKept ==
  ASSUME IInv, Return
  PROVE  DataKept
<1>0. /\ TypePiles /\ TypeCounts /\ InOnePlace /\ calls # <<>> /\ gpc # "gone"
      /\ PendingDiffer /\ Answers /\ FreeCarryNothing
  BY TypeParts DEF IInv, Return, PluginRuns
<1> DEFINE o == Head(calls)
<1>1. /\ free' = Push(free, o) /\ calls' = Tail(calls)
      /\ query' = [query EXCEPT ![o] = NoQuery]
      /\ UNCHANGED <<queue, work, results, base, asked, answered, lives, gpc>>
  BY DEF Return, worker, history
<1>2. /\ o \in Objects /\ Tail(calls) \in Seq(Objects) /\ Len(Tail(calls)) = Len(calls) - 1
      /\ ToSet(calls) = {o} \cup ToSet(Tail(calls)) /\ Len(calls) \in Nat
      /\ Once(Tail(calls)) /\ o \notin ToSet(Tail(calls))
  BY <1>0, Popped, PileElements DEF TypePiles, Pile, InOnePlace
<1>3. o \notin ToSet(free)
  BY <1>0, <1>2 DEF InOnePlace, Apart
<1>4. /\ Push(free, o) \in Seq(Objects)
      /\ ToSet(Push(free, o)) = ToSet(free) \cup {o} /\ Once(Push(free, o))
  <2>1. free \in Seq(Objects) /\ Once(free)
    BY <1>0 DEF TypePiles, Pile, InOnePlace
  <2> HIDE DEF o
  <2> QED
    BY <1>2, <1>3, <2>1, Pushed
<1>5. /\ query' \in Seq(Queries \cup {NoQuery}) /\ Objects' = Objects
      /\ \A p \in Objects : query'[p] = IF p = o THEN NoQuery ELSE query[p]
  <2>1. query \in Seq(Queries \cup {NoQuery}) /\ o \in 1 .. Len(query) /\ Objects = 1 .. Len(query)
    BY <1>0, <1>2, ObjectsCount DEF TypePiles
  <2> HIDE DEF o
  <2>2. /\ [query EXCEPT ![o] = NoQuery] \in Seq(Queries \cup {NoQuery})
        /\ Len([query EXCEPT ![o] = NoQuery]) = Len(query)
        /\ \A p \in 1 .. Len(query) : [query EXCEPT ![o] = NoQuery][p]
                                        = IF p = o THEN NoQuery ELSE query[p]
    BY <2>1, ExceptSeq
  <2>3. DOMAIN [query EXCEPT ![o] = NoQuery] = DOMAIN query
    OBVIOUS
  <2> QED
    BY <1>1, <2>1, <2>2, <2>3 DEF Objects
<1>6. TypePiles' /\ TypeCounts'
  <2>1. Len(calls') <= base' + 1
    BY <1>0, <1>1, <1>2 DEF TypePiles
  <2> QED
    BY <1>0, <1>1, <1>2, <1>4, <1>5, <2>1 DEF TypePiles, TypeCounts, Pile
<1>7. InOnePlace'
  BY <1>0, <1>1, <1>2, <1>4, <1>5 DEF InOnePlace, Apart
<1>8. /\ Pending' = Pending /\ Pending \subseteq Objects
      /\ \A p \in Pending : p # o /\ query'[p] = query[p]
  BY <1>0, <1>1, <1>2, <1>5, PendingAreObjects DEF Pending
<1>9. FreeCarryNothing'
  BY <1>0, <1>1, <1>4, <1>5 DEF FreeCarryNothing
<1>10. PendingDiffer'
  BY <1>0, <1>1, <1>8 DEF PendingDiffer
<1>11. ASSUME NEW r \in Queries  PROVE Carried(r)' <=> Carried(r)
  BY <1>8 DEF Carried
<1>12. Answers'
  BY <1>0, <1>1, <1>11 DEF Answers
<1> QED
  BY <1>6, <1>7, <1>9, <1>10, <1>12 DEF DataKept

\* A query takes the object on top of the free ones, or a new one.
LEMMA ThreadQueryKept ==
  ASSUME IInv, ThreadQuery
  PROVE  DataKept
<1>0. /\ TypePiles /\ TypeCounts /\ InOnePlace /\ gpc # "gone" /\ asked < MaxQueries
      /\ PendingDiffer /\ Answers /\ FreeCarryNothing
  BY TypeParts DEF IInv, ThreadQuery, PluginRuns
<1>1. PICK o \in Objects \cup {Cardinality(Objects) + 1} :
        /\ IF free = <<>> THEN o \notin Objects /\ UNCHANGED free
                          ELSE o = Head(free) /\ free' = Tail(free)
        /\ query' = [p \in Objects \cup {o} |-> IF p = o THEN asked + 1 ELSE query[p]]
        /\ queue' = Append(queue, o)
  BY DEF ThreadQuery
<1>2. asked' = asked + 1 /\ UNCHANGED <<work, results, calls, base, answered, lives, gpc>>
  BY DEF ThreadQuery, game
<1>3. /\ Objects = 1 .. Len(query) /\ Len(query) \in Nat /\ Cardinality(Objects) = Len(query)
      /\ query \in Seq(Queries \cup {NoQuery})
  BY <1>0, ObjectsCount DEF TypePiles
<1>4. /\ asked \in Nat /\ MaxQueries \in Nat /\ asked + 1 \in Queries
      /\ asked + 1 \notin 1 .. asked /\ asked' \in 0 .. MaxQueries
      /\ 1 .. asked \subseteq 1 .. asked' /\ asked + 1 \in 1 .. asked'
  BY <1>0, <1>2 DEF TypeCounts, Queries
<1>5. /\ Objects' = Objects \cup {o}
      /\ \A p \in Objects : p # o => query'[p] = query[p]
      /\ query'[o] = asked + 1
  BY <1>1 DEF Objects
<1>6. query' \in Seq(Queries \cup {NoQuery})
  <2>1. \A p \in Objects : query[p] \in Queries \cup {NoQuery}
    BY <1>3, ElementOfSeq
  <2>2. query' \in [Objects \cup {o} -> Queries \cup {NoQuery}]
    BY <1>1, <1>4, <2>1
  <2>3. \E m \in Nat : Objects \cup {o} = 1 .. m
    <3>1. CASE o \in Objects
      BY <3>1, <1>3
    <3>2. CASE o \notin Objects
      <4>1. Objects \cup {o} = 1 .. Len(query) + 1
        BY <3>2, <1>1, <1>3
      <4> QED
        BY <4>1, <1>3
    <3> QED
      BY <3>1, <3>2
  <2>4. PICK m \in Nat : Objects \cup {o} = 1 .. m
    BY <2>3
  <2>5. query' \in [1 .. m -> Queries \cup {NoQuery}]
    BY <2>2, <2>4
  <2> QED
    BY <2>5, SeqDef
<1>7. /\ free' \in Seq(Objects) /\ Once(free') /\ o \notin ToSet(free')
      /\ ToSet(free) = ToSet(free') \cup ({o} \cap Objects)
  <2>1. free \in Seq(Objects) /\ Once(free)
    BY <1>0 DEF TypePiles, Pile, InOnePlace
  <2>2. CASE free = <<>>
    BY <2>1, <2>2, <1>1, EmptyPile
  <2>3. CASE free # <<>>
    <3>1. /\ Head(free) \in Objects /\ Tail(free) \in Seq(Objects)
          /\ ToSet(free) = {Head(free)} \cup ToSet(Tail(free))
          /\ Once(Tail(free)) /\ Head(free) \notin ToSet(Tail(free))
      BY <2>1, <2>3, Popped
    <3>2. o = Head(free) /\ free' = Tail(free)
      BY <2>3, <1>1
    <3> QED
      BY <3>1, <3>2
  <2> QED
    BY <2>2, <2>3
<1>8. /\ o \notin ToSet(queue) /\ o \notin ToSet(work) /\ o \notin ToSet(results)
      /\ o \notin ToSet(calls)
  BY <1>0, <1>7, PileElements DEF InOnePlace, Apart, TypePiles, Pile
<1>9. /\ queue \in Seq(Objects') /\ work \in Seq(Objects') /\ results \in Seq(Objects')
      /\ calls \in Seq(Objects') /\ free' \in Seq(Objects') /\ o \in Objects'
  BY <1>0, <1>5, <1>7, SeqMonotonic DEF TypePiles, Pile
<1>10. /\ queue' \in Seq(Objects') /\ ToSet(queue') = ToSet(queue) \cup {o} /\ Once(queue')
  <2>1. Once(queue)
    BY <1>0 DEF InOnePlace
  <2> QED
    BY <1>1, <1>8, <1>9, <2>1, Appended
<1>11. TypePiles' /\ TypeCounts'
  BY <1>0, <1>2, <1>4, <1>6, <1>9, <1>10 DEF TypePiles, TypeCounts, Pile
<1>12. InOnePlace'
  BY <1>0, <1>2, <1>5, <1>7, <1>8, <1>10 DEF InOnePlace, Apart
<1>13. /\ Pending' = Pending \cup {o} /\ o \notin Pending /\ Pending \subseteq Objects
       /\ \A p \in Pending : query'[p] = query[p]
  BY <1>0, <1>2, <1>5, <1>8, <1>10, PendingAreObjects DEF Pending
<1>14. FreeCarryNothing'
  <2>1. asked + 1 # NoQuery
    BY <1>4
  <2> QED
    BY <1>0, <1>5, <1>7, <2>1 DEF FreeCarryNothing
<1>15. PendingDiffer'
  BY <1>0, <1>2, <1>4, <1>5, <1>13 DEF PendingDiffer
<1>16. ASSUME NEW r \in Queries  PROVE Carried(r)' <=> r = asked + 1 \/ Carried(r)
  BY <1>5, <1>13 DEF Carried
<1>17. Answers'
  <2>1. ASSUME NEW r \in Queries
        PROVE  r <= asked' /\ ~Carried(r)' <=> r <= asked /\ ~Carried(r)
    <3>1. r \in Nat
      BY DEF Queries
    <3> QED
      BY <3>1, <1>2, <1>4, <1>16
  <2> QED
    BY <1>0, <1>2, <2>1 DEF Answers
<1> QED
  BY <1>11, <1>12, <1>14, <1>15, <1>17 DEF DataKept

\* ShutdownThreading leaves nothing.
LEMMA NothingLeft ==
  ASSUME IInv, queue' = <<>>, work' = <<>>, results' = <<>>, free' = <<>>, query' = <<>>,
         calls' = <<>>, gpc' = "gone", UNCHANGED <<base, history>>
  PROVE  DataKept
<1>1. TypePiles /\ TypeCounts /\ Answers
  BY TypeParts DEF IInv
<1>2. /\ ToSet(<<>>) = {} /\ Once(<<>>) /\ Len(<<>>) = 0 /\ DOMAIN <<>> = {}
      /\ \A S : <<>> \in Seq(S)
  BY EmptyPile, EmptySeq
<1>3. Objects' = {} /\ Pending' = {}
  BY <1>2 DEF Objects, Pending
<1>4. TypePiles' /\ TypeCounts'
  BY <1>1, <1>2 DEF TypePiles, TypeCounts, Pile, history
<1>5. InOnePlace'
  BY <1>2, <1>3 DEF InOnePlace, Apart
<1> QED
  BY <1>1, <1>3, <1>4, <1>5
  DEF DataKept, FreeCarryNothing, PendingDiffer, Answers, history

LEMMA DetachKept ==
  ASSUME IInv, Detach
  PROVE  DataKept
<1>0. TypePiles /\ TypeCounts /\ WorkerFollows /\ GameLeads
  BY TypeParts DEF IInv
<1>1. CASE state = "running"
  <2>1. Still /\ gpc # "gone"
    BY <1>1 DEF Detach, Still, worker, history
  <2>2. TypePiles' /\ TypeCounts'
    BY <1>0, <1>1 DEF Detach, TypePiles, TypeCounts, Pile, Objects, pools, worker, history
  <2> QED
    BY <2>1, <2>2, StillKept DEF DataKept
<1>2. CASE state # "running"
  BY <1>0, <1>2, NothingLeft DEF Detach, WorkerFollows, GameLeads, worker
<1> QED
  BY <1>1, <1>2

LEMMA JoinKept ==
  ASSUME IInv, Join
  PROVE  DataKept
<1>0. TypePiles /\ TypeCounts /\ WorkerFollows /\ GameLeads /\ work = <<>>
  BY TypeParts DEF IInv, WorkerFollows, Join
<1>1. CASE cancel
  BY <1>0, <1>1, NothingLeft DEF Join, GameLeads, worker
<1>2. CASE ~cancel
  <2>1. queue = <<>> /\ queue' = <<>>
    BY <1>0, <1>2 DEF Join, WorkerFollows, GameLeads
  <2>2. Len(queue) = 0
    BY <2>1, EmptySeq
  <2>3. Reverse(queue) \o free = free
    <3>1. Reverse(queue) = <<>>
      <4>1. Reverse(queue) = [i \in 1 .. 0 |-> queue[(0 - i) + 1]]
        BY <2>2 DEF Reverse
      <4> QED
        BY <4>1
    <3>2. free \in Seq(Objects)
      BY <1>0 DEF TypePiles, Pile
    <3> QED
      BY <3>1, <3>2, ConcatEmptySeq
  <2>4. \A p : ~Contains(queue, p)
    <3>1. 1 .. 0 = {}
      OBVIOUS
    <3> QED
      BY <2>2, <3>1 DEF Contains
  <2>5. [p \in Objects |-> IF Contains(queue, p) THEN NoQuery ELSE query[p]] = query
    <3>1. query \in [1 .. Len(query) -> Queries \cup {NoQuery}]
      BY <1>0, LenProperties DEF TypePiles
    <3> QED
      BY <2>4, <3>1 DEF Objects
  <2>6. Still /\ gpc # "gone"
    BY <1>2, <2>1, <2>3, <2>5 DEF Join, Still, pools, worker, history
  <2>7. TypePiles' /\ TypeCounts'
    BY <1>0, <1>2, <2>6 DEF Join, Still, TypePiles, TypeCounts, Pile, Objects, pools, worker, history
  <2> QED
    BY <2>6, <2>7, StillKept DEF DataKept
<1> QED
  BY <1>1, <1>2

-----------------------------------------------------------------------------
(* Theorems *)

LEMMA InvInit == Init => IInv
<1> SUFFICES ASSUME Init  PROVE IInv
  OBVIOUS
<1>1. /\ ToSet(<<>>) = {} /\ Once(<<>>) /\ Len(<<>>) = 0 /\ DOMAIN <<>> = {}
      /\ \A S : <<>> \in Seq(S)
  BY EmptyPile, EmptySeq
<1>2. Objects = {} /\ Pending = {}
  BY <1>1 DEF Init, Objects, Pending
<1>3. TypeControl /\ TypePiles /\ TypeCounts
  <2>1. TypeControl
    BY DEF Init, TypeControl
  <2>2. TypePiles
    <3>1. 0 <= 1 /\ 0 <= 0 + 1 /\ 0 \in 0 .. 1
      OBVIOUS
    <3> QED
      BY <1>1, <3>1 DEF Init, TypePiles, Pile
  <2>3. TypeCounts
    BY DEF Init, TypeCounts
  <2> QED
    BY <2>1, <2>2, <2>3
<1>4. TypeOK
  BY <1>3, TypeParts
<1>5. WorkerFollows /\ GameLeads
  BY DEF Init, WorkerFollows, GameLeads
<1>6. InOnePlace
  BY <1>1, <1>2 DEF Init, InOnePlace, Apart
<1>7. FreeCarryNothing /\ PendingDiffer
  BY <1>2 DEF FreeCarryNothing, PendingDiffer
<1>8. Answers
  BY <1>2 DEF Init, Answers, Queries
<1> QED
  BY <1>4, <1>5, <1>6, <1>7, <1>8 DEF IInv

LEMMA InvNext == IInv /\ [Next]_vars => IInv'
<1> SUFFICES ASSUME IInv, [Next]_vars  PROVE IInv'
  OBVIOUS
<1>0. TypeControl /\ TypePiles /\ TypeCounts
  BY TypeParts DEF IInv
<1> DEFINE moves == Pop \/ Ran \/ ThreadQuery \/ Call \/ Return \/ Detach \/ Join
<1>1. CASE Next /\ moves
  <2>1. DataKept
    BY <1>1, PopKept, RanKept, ThreadQueryKept, CallKept, ReturnKept, DetachKept, JoinKept
  <2>2. TypeControl' /\ WorkerFollows' /\ GameLeads'
    BY <1>1, ControlKept
  <2> QED
    BY <2>1, <2>2, TypeParts DEF DataKept, IInv, TypeOK, TypeControl, TypePiles, TypeCounts
<1>2. CASE Next /\ ~moves
  <2> USE DEF Look, Check, Wait, Woken, Again, SpuriousWake, Start, Unload, SetStopped, Wake,
          Unloaded
  <2>1. \/ Look \/ Check \/ Wait \/ Woken \/ Again
        \/ SpuriousWake \/ Start \/ Unload \/ SetStopped \/ Wake \/ Unloaded
    BY <1>2 DEF Next, WorkerStep, UnloadStep
  <2>2. Still /\ gpc # "gone"
    <3>1. Still
      BY <2>1 DEF Still, worker, pools, game, history
    <3>2. wpc # "done" => gpc # "gone"
      BY DEF IInv, WorkerFollows, GameLeads
    <3> QED
      BY <2>1, <3>1, <3>2
  <2>3. asked' \in 0 .. MaxQueries /\ lives' \in 0 .. MaxLives /\ answered' \in [Queries -> Nat]
    BY <1>0, <2>1 DEF TypeCounts, worker, pools, game, history
  <2>4. base' \in 0 .. 1 /\ Len(calls') <= base' + 1
    <3>1. Len(calls) \in Nat /\ calls' = calls
      BY <1>0, <2>2, PileElements DEF TypePiles, Pile, Still
    <3>2. base' = base \/ (base = 0 /\ base' = Len(calls))
            \/ (base' = 0 /\ Len(calls) = base)
      BY <2>1 DEF IInv, GameLeads, worker, pools, game, history
    <3> QED
      BY <1>0, <3>1, <3>2 DEF TypePiles
  <2>5. TypePiles' /\ TypeCounts'
    BY <1>0, <2>2, <2>3, <2>4 DEF Still, pools, TypePiles, TypeCounts, Pile, Objects
  <2>6. InOnePlace' /\ FreeCarryNothing' /\ PendingDiffer' /\ Answers'
    BY <2>2, StillKept
  <2>7. TypeControl' /\ WorkerFollows' /\ GameLeads'
    BY <1>2, ControlKept
  <2> QED
    BY <2>5, <2>6, <2>7 DEF IInv, TypeOK, TypeControl, TypePiles, TypeCounts
<1>3. CASE UNCHANGED vars
  <2> USE <1>3 DEF vars
  <2>1. Pending' = Pending /\ Objects' = Objects /\ (\A q : Carried(q)' <=> Carried(q))
    BY DEF Pending, Objects, Carried
  <2>2. TypeControl' /\ TypePiles' /\ TypeCounts'
    BY <1>0, <2>1 DEF TypeControl, TypePiles, TypeCounts, Pile
  <2>3. WorkerFollows' /\ GameLeads'
    BY DEF IInv, WorkerFollows, GameLeads
  <2>4. InOnePlace'
    BY <2>1 DEF IInv, InOnePlace, Once, Apart
  <2>5. FreeCarryNothing' /\ PendingDiffer' /\ Answers'
    BY <2>1 DEF IInv, FreeCarryNothing, PendingDiffer, Answers
  <2> QED
    BY <2>2, <2>3, <2>4, <2>5 DEF IInv, TypeOK, TypeControl, TypePiles, TypeCounts
<1> QED
  BY <1>1, <1>2, <1>3

\* The variables keep their types.
THEOREM Types == Spec => []TypeOK
<1>1. IInv => TypeOK
  BY DEF IInv
<1> QED
  BY <1>1, InvInit, InvNext, PTL DEF Spec

LEMMA InvAlways == Spec => []IInv
BY InvInit, InvNext, PTL DEF Spec

LEMMA InvObjects == IInv => ObjectsInOnePlace
<1> SUFFICES ASSUME IInv  PROVE ObjectsInOnePlace
  OBVIOUS
<1> DEFINE inUse == queue \o work \o results \o calls
           all == inUse \o free
<1>1. /\ queue \in Seq(Objects) /\ work \in Seq(Objects) /\ results \in Seq(Objects)
      /\ calls \in Seq(Objects) /\ free \in Seq(Objects)
  BY TypeParts DEF IInv, TypePiles, Pile
<1> DEFINE two == queue \o work
           three == two \o results
<1>2. /\ two \in Seq(Objects) /\ ToSet(two) = ToSet(queue) \cup ToSet(work) /\ Once(two)
  BY <1>1, Concatenated DEF IInv, InOnePlace
<1>3. /\ three \in Seq(Objects) /\ ToSet(three) = ToSet(two) \cup ToSet(results) /\ Once(three)
  <2>1. Apart(two, results) /\ Once(results)
    BY <1>2 DEF IInv, InOnePlace, Apart
  <2> HIDE DEF two
  <2> QED
    BY <1>1, <1>2, <2>1, Concatenated
<1>4. /\ inUse \in Seq(Objects) /\ ToSet(inUse) = ToSet(three) \cup ToSet(calls) /\ Once(inUse)
  <2>1. Apart(three, calls) /\ Once(calls)
    BY <1>2, <1>3 DEF IInv, InOnePlace, Apart
  <2>2. inUse = three \o calls
    OBVIOUS
  <2> HIDE DEF three, inUse
  <2> QED
    BY <1>1, <1>3, <2>1, <2>2, Concatenated
<1>5. /\ all \in Seq(Objects) /\ ToSet(all) = ToSet(inUse) \cup ToSet(free) /\ Once(all)
  <2>1. Apart(inUse, free) /\ Once(free)
    BY <1>2, <1>3, <1>4 DEF IInv, InOnePlace, Apart
  <2> HIDE DEF inUse
  <2> QED
    BY <1>1, <1>4, <2>1, Concatenated
<1>6. ToSet(all) = Objects
  BY <1>2, <1>3, <1>4, <1>5 DEF IInv, InOnePlace
<1>7. Len(all) = Cardinality(Objects)
  <2> HIDE DEF all
  <2> QED
    BY <1>5, <1>6, OnceCounts
<1>8. \A o : Contains(free, o) <=> o \in ToSet(free)
  BY <1>1, PileElements DEF Contains
<1>9. \A o \in Objects : query[o] = NoQuery <=> Contains(free, o)
  BY <1>8 DEF IInv, FreeCarryNothing
<1>10. TypeOK
  BY DEF IInv
<1> QED
  BY <1>6, <1>7, <1>9, <1>10 DEF ObjectsInOnePlace

\* Every MysqlThread object is in one place, and carries a query unless it is
\* free: none is taken for a new query while its plugin is being called.
THEOREM OnePlace == Spec => []ObjectsInOnePlace
BY InvAlways, InvObjects, PTL

LEMMA InvAnswered == IInv => AnsweredOnce
<1> SUFFICES ASSUME IInv  PROVE AnsweredOnce
  OBVIOUS
<1>1. /\ queue \in Seq(Objects) /\ work \in Seq(Objects) /\ results \in Seq(Objects)
  BY TypeParts DEF IInv, TypePiles, Pile
<1> DEFINE two == queue \o work
<1>2. two \in Seq(Objects) /\ ToSet(two) = ToSet(queue) \cup ToSet(work)
  BY <1>1, Concatenated
<1>3. ToSet(two \o results) = ToSet(two) \cup ToSet(results)
  <2> HIDE DEF two
  <2> QED
    BY <1>1, <1>2, Concatenated
<1>4. ToSet(queue \o work \o results) = Pending
  BY <1>2, <1>3 DEF Pending
<1>5. ASSUME NEW q \in Queries
      PROVE  /\ answered[q] <= 1
             /\ gpc # "gone" => (answered[q] = 1 <=> q <= asked /\ \A o \in Pending : query[o] # q)
  <2>1. answered[q] \in {0, 1}
    BY DEF IInv, Answers
  <2>2. answered[q] <= 1
    BY <2>1
  <2> QED
    BY <2>2 DEF IInv, Answers, Carried
<1> QED
  BY <1>4, <1>5 DEF AnsweredOnce

\* The callback of a query is called once, and only when the query was run.
THEOREM CalledOnce == Spec => []AnsweredOnce
BY InvAlways, InvAnswered, PTL

\* When OnPluginsUnloading has returned no query is left over.
THEOREM NothingLeftOver == Spec => []NothingOutlivesPlugins
<1>1. IInv => NothingOutlivesPlugins
  BY DEF IInv, WorkerFollows, GameLeads, NothingOutlivesPlugins
<1> QED
  BY <1>1, InvAlways, PTL

-----------------------------------------------------------------------------
(* Vaults: reading a journal, record by record *)

LEMMA Least ==
  ASSUME NEW T, T \subseteq Nat, T # {}
  PROVE  \E m \in T : \A k \in T : m <= k
<1>1. PICK m \in T : \A k \in T : <<k, m>> \notin OpToRel(<, Nat)
  BY NatLessThanWellFounded, WFMin
<1>2. ASSUME NEW k \in T PROVE m <= k
  <2>1. k \in Nat /\ m \in Nat
    OBVIOUS
  <2>2. ~(k < m)
    BY <1>1, <2>1 DEF OpToRel
  <2> QED
    BY <2>1, <2>2
<1> QED
  BY <1>2

\* Induction over the numbers from 0 to n, for a set of numbers.
LEMMA UpTo ==
  ASSUME NEW n \in Nat, NEW T, 0 \in T, \A i \in 0 .. n - 1 : i \in T => i + 1 \in T
  PROVE  0 .. n \subseteq T
<1> DEFINE F == (0 .. n) \ T
<1> SUFFICES ASSUME F # {} PROVE FALSE
  OBVIOUS
<1>1. PICK m \in F : \A k \in F : m <= k
  <2>1. F \subseteq Nat
    OBVIOUS
  <2> HIDE DEF F
  <2> QED
    BY <2>1, Least
<1>2. m \in Nat /\ m # 0 /\ m <= n /\ m \notin T
  OBVIOUS
<1>3. m - 1 \in 0 .. n - 1 /\ (m - 1) + 1 = m /\ ~(m <= m - 1) /\ m - 1 \in 0 .. n
  BY <1>2
<1>4. m - 1 \in T
  BY <1>1, <1>3
<1> QED
  BY <1>2, <1>3, <1>4

\* What the map is after each of the first n records of j.
IsRun(a, m, j, n) == a = [i \in 0 .. n |-> IF i = 0 THEN m ELSE Apply(a[i - 1], j[i])]

LEMMA RunExists ==
  ASSUME NEW m, NEW j, NEW n \in Nat
  PROVE  \E a : IsRun(a, m, j, n)
<1> DEFINE T == {k \in Nat : \E a : IsRun(a, m, j, k)}
<1>1. 0 \in T
  <2> DEFINE a == [i \in 0 .. 0 |-> m]
  <2>1. IsRun(a, m, j, 0)
    BY DEF IsRun
  <2> QED
    BY <2>1
<1>2. ASSUME NEW k \in 0 .. n - 1, k \in T PROVE k + 1 \in T
  <2>1. PICK a : IsRun(a, m, j, k)
    BY <1>2
  <2> DEFINE b == [i \in 0 .. k + 1 |-> IF i <= k THEN a[i] ELSE Apply(a[k], j[k + 1])]
  <2>2. k \in Nat /\ k + 1 \in Nat
    OBVIOUS
  <2>3. a = [i \in 0 .. k |-> IF i = 0 THEN m ELSE Apply(a[i - 1], j[i])]
    BY <2>1 DEF IsRun
  <2>4. ASSUME NEW i \in 0 .. k + 1
        PROVE  b[i] = IF i = 0 THEN m ELSE Apply(b[i - 1], j[i])
    <3>1. CASE i = 0
      <4>1. b[0] = a[0] /\ a[0] = m
        BY <2>2, <2>3
      <4> QED
        BY <3>1, <4>1
    <3>2. CASE i # 0 /\ i <= k
      <4>1. i \in 0 .. k /\ i - 1 \in 0 .. k + 1 /\ i - 1 <= k
        BY <2>2, <3>2
      <4>2. b[i] = a[i] /\ b[i - 1] = a[i - 1]
        BY <3>2, <4>1
      <4>3. a[i] = Apply(a[i - 1], j[i])
        BY <2>3, <3>2, <4>1
      <4> QED
        BY <3>2, <4>2, <4>3
    <3>3. CASE i = k + 1
      <4>1. i # 0 /\ ~(i <= k) /\ i - 1 = k /\ k \in 0 .. k + 1 /\ k <= k
        BY <2>2, <3>3
      <4>2. b[i] = Apply(a[k], j[k + 1]) /\ b[k] = a[k]
        BY <4>1
      <4> QED
        BY <3>3, <4>1, <4>2
    <3> QED
      BY <2>2, <3>1, <3>2, <3>3
  <2>5. b = [i \in 0 .. k + 1 |-> b[i]]
    OBVIOUS
  <2> HIDE DEF b
  <2>6. b = [i \in 0 .. k + 1 |-> IF i = 0 THEN m ELSE Apply(b[i - 1], j[i])]
    BY <2>4, <2>5
  <2> QED
    BY <2>2, <2>6 DEF IsRun
<1> HIDE DEF T
<1>3. n \in T
  BY <1>1, <1>2, UpTo
<1> QED
  BY <1>3 DEF T

LEMMA AfterIsRun ==
  ASSUME NEW m, NEW j, Len(j) \in Nat
  PROVE  IsRun(After(m, j), m, j, Len(j))
<1>1. \E a : IsRun(a, m, j, Len(j))
  BY RunExists
<1>2. After(m, j) = CHOOSE a : a = [i \in 0 .. Len(j) |-> IF i = 0 THEN m ELSE Apply(a[i - 1], j[i])]
  BY DEF After
<1> QED
  BY <1>1, <1>2 DEF IsRun

LEMMA AfterStep ==
  ASSUME NEW m, NEW j, Len(j) \in Nat
  PROVE  /\ DOMAIN After(m, j) = 0 .. Len(j) /\ After(m, j)[0] = m
         /\ \A i \in 1 .. Len(j) : After(m, j)[i] = Apply(After(m, j)[i - 1], j[i])
<1> DEFINE a == After(m, j)
<1>1. a = [i \in 0 .. Len(j) |-> IF i = 0 THEN m ELSE Apply(a[i - 1], j[i])]
  BY AfterIsRun DEF IsRun
<1> HIDE DEF a
<1>2. DOMAIN a = 0 .. Len(j)
  BY <1>1
<1>3. a[0] = m
  BY <1>1
<1>4. ASSUME NEW i \in 1 .. Len(j) PROVE a[i] = Apply(a[i - 1], j[i])
  <2>1. i \in 0 .. Len(j) /\ i # 0
    OBVIOUS
  <2> QED
    BY <1>1, <2>1
<1> QED
  BY <1>2, <1>3, <1>4 DEF a

\* Journals that agree on their first n records make the same of them.
LEMMA AfterAgrees ==
  ASSUME NEW m, NEW j, NEW k, NEW n \in Nat, Len(j) \in Nat, Len(k) \in Nat,
         n <= Len(j), n <= Len(k), \A i \in 1 .. n : j[i] = k[i]
  PROVE  \A i \in 0 .. n : After(m, j)[i] = After(m, k)[i]
<1> DEFINE T == {i \in Nat : After(m, j)[i] = After(m, k)[i]}
<1>1. 0 \in T
  BY AfterStep
<1>2. ASSUME NEW i \in 0 .. n - 1, i \in T PROVE i + 1 \in T
  <2>1. /\ i + 1 \in 1 .. n /\ i + 1 \in 1 .. Len(j) /\ i + 1 \in 1 .. Len(k) /\ (i + 1) - 1 = i
        /\ i + 1 \in Nat
    OBVIOUS
  <2>2. /\ After(m, j)[i + 1] = Apply(After(m, j)[i], j[i + 1])
        /\ After(m, k)[i + 1] = Apply(After(m, k)[i], k[i + 1])
    BY <2>1, AfterStep
  <2> QED
    BY <1>2, <2>1, <2>2
<1> HIDE DEF T
<1>3. 0 .. n \subseteq T
  BY <1>1, <1>2, UpTo
<1> QED
  BY <1>3 DEF T

\* Open of a vault without a journal, and of one with one record more.
LEMMA ReplayNothing == ASSUME NEW m PROVE Replay(m, <<>>) = m
<1>1. Len(<<>>) = 0
  OBVIOUS
<1> QED
  BY <1>1, AfterStep DEF Replay

LEMMA ReplayAppend ==
  ASSUME NEW m, NEW j \in Seq(Records), NEW r \in Records
  PROVE  /\ Replay(m, Append(j, r)) = Apply(Replay(m, j), r)
         /\ \A i \in 0 .. Len(j) : After(m, Append(j, r))[i] = After(m, j)[i]
<1> DEFINE k == Append(j, r)
<1>1. /\ Len(j) \in Nat /\ Len(k) = Len(j) + 1 /\ k[Len(j) + 1] = r
      /\ \A i \in 1 .. Len(j) : k[i] = j[i]
  BY AppendProperties, LenProperties
<1> HIDE DEF k
<1>2. \A i \in 0 .. Len(j) : After(m, k)[i] = After(m, j)[i]
  <2>1. Len(j) <= Len(k) /\ Len(j) <= Len(j) /\ Len(k) \in Nat
    BY <1>1
  <2> QED
    BY <1>1, <2>1, AfterAgrees
<1>3. Len(j) + 1 \in 1 .. Len(k) /\ (Len(j) + 1) - 1 = Len(j) /\ Len(k) \in Nat
  BY <1>1
<1>4. After(m, k)[Len(j) + 1] = Apply(After(m, k)[Len(j)], r)
  BY <1>1, <1>3, AfterStep
<1>5. Replay(m, k) = Apply(Replay(m, j), r)
  <2>1. Len(j) \in 0 .. Len(j)
    BY <1>1
  <2> QED
    BY <1>1, <1>2, <1>4, <2>1 DEF Replay
<1> QED
  BY <1>2, <1>5 DEF k

\* What a crash leaves of a journal is read like the journal up to there.
LEMMA ReplayPrefix ==
  ASSUME NEW m, NEW j \in Seq(Records), NEW n \in 0 .. Len(j)
  PROVE  /\ SubSeq(j, 1, n) \in Seq(Records) /\ Len(SubSeq(j, 1, n)) = n
         /\ Replay(m, SubSeq(j, 1, n)) = After(m, j)[n]
<1> DEFINE k == SubSeq(j, 1, n)
<1>1. Len(j) \in Nat /\ n \in Nat /\ n <= Len(j)
  BY LenProperties
<1>2. k \in Seq(Records) /\ Len(k) = n /\ \A i \in 1 .. n : k[i] = j[i]
  <2>1. \A i \in 1 .. n : j[i] \in Records
    BY <1>1, ElementOfSeq
  <2> QED
    BY <1>1, <2>1, SubSeqProperties
<1> HIDE DEF k
<1>3. \A i \in 0 .. n : After(m, k)[i] = After(m, j)[i]
  <2>1. n <= Len(k) /\ Len(k) \in Nat
    BY <1>1, <1>2
  <2> QED
    BY <1>1, <1>2, <2>1, AfterAgrees
<1>4. Replay(m, k) = After(m, j)[n]
  BY <1>1, <1>2, <1>3 DEF Replay
<1> QED
  BY <1>2, <1>4 DEF k

-----------------------------------------------------------------------------
(* Vaults: what the map is *)

LEMMA EmptyIsVault == Empty \in Vaults
<1>1. Empty \in [1 .. 0 -> Entry]
  BY EmptySeq, LenProperties DEF Empty
<1>2. 1 .. 0 = {} /\ {} \in SUBSET Keys
  OBVIOUS
<1> QED
  BY <1>1, <1>2 DEF Vaults

LEMMA VaultsAre ==
  ASSUME NEW m
  PROVE  m \in Vaults <=> /\ m = [x \in DOMAIN m |-> m[x]] /\ DOMAIN m \subseteq Keys
                          /\ \A k \in DOMAIN m : m[k] \in Entry
BY DEF Vaults

LEMMA PutIsVault ==
  ASSUME NEW m \in Vaults, NEW k \in Keys, NEW v \in Values \cup {NoText}, NEW t \in 0 .. MaxTime
  PROVE  Put(m, k, v, t) \in Vaults
<1>1. [value |-> v, stamp |-> t] \in Entry
  BY DEF Entry
<1> DEFINE e == [value |-> v, stamp |-> t]
<1> HIDE DEF e
<1>2. DOMAIN m \subseteq Keys /\ \A x \in DOMAIN m : m[x] \in Entry
  BY VaultsAre
<1>3. [x \in DOMAIN m \cup {k} |-> IF x = k THEN e ELSE m[x]] \in [DOMAIN m \cup {k} -> Entry]
  BY <1>1, <1>2 DEF e
<1>4. DOMAIN m \cup {k} \in SUBSET Keys
  BY <1>2
<1> QED
  BY <1>3, <1>4 DEF Put, Vaults, e

LEMMA RestrictIsVault ==
  ASSUME NEW m \in Vaults, NEW S, S \subseteq DOMAIN m
  PROVE  Restrict(m, S) \in Vaults
<1>1. DOMAIN m \subseteq Keys /\ \A x \in DOMAIN m : m[x] \in Entry
  BY VaultsAre
<1>2. Restrict(m, S) \in [S -> Entry] /\ S \in SUBSET Keys
  BY <1>1 DEF Restrict
<1> QED
  BY <1>2 DEF Vaults

LEMMA WithoutIsVault ==
  ASSUME NEW m \in Vaults, NEW S
  PROVE  Without(m, S) \in Vaults
BY RestrictIsVault DEF Without

LEMMA ApplyIs ==
  ASSUME NEW m
  PROVE  /\ \A k, v, t : Apply(m, Insert(k, v, t)) = Put(m, k, v, t)
         /\ \A k : Apply(m, Drop(k)) = Without(m, {k})
         /\ Apply(m, Wipe) = Empty
         /\ \A s, e : Apply(m, Cut(s, e)) = Pruned(m, s, e)
BY DEF Apply, Insert, Drop, Wipe, Cut

LEMMA RecordIs ==
  ASSUME NEW r \in Records
  PROVE  \/ \E k \in Keys, v \in Values \cup {NoText}, t \in 0 .. MaxTime : r = Insert(k, v, t)
         \/ \E k \in Keys : r = Drop(k)
         \/ r = Wipe
         \/ \E s, e \in 0 .. MaxTime : r = Cut(s, e)
BY DEF Records, Insert, Drop, Wipe, Cut

LEMMA RecordTypes ==
  /\ \A k \in Keys, v \in Values \cup {NoText}, t \in 0 .. MaxTime : Insert(k, v, t) \in Records
  /\ \A k \in Keys : Drop(k) \in Records
  /\ Wipe \in Records
  /\ \A s, e \in 0 .. MaxTime : Cut(s, e) \in Records
BY DEF Records, Insert, Drop, Wipe, Cut

LEMMA ApplyIsVault ==
  ASSUME NEW m \in Vaults, NEW r \in Records
  PROVE  Apply(m, r) \in Vaults
<1>1. CASE \E k \in Keys, v \in Values \cup {NoText}, t \in 0 .. MaxTime : r = Insert(k, v, t)
  <2>1. PICK k \in Keys, v \in Values \cup {NoText}, t \in 0 .. MaxTime : r = Insert(k, v, t)
    BY <1>1
  <2>2. Apply(m, r) = Put(m, k, v, t)
    BY <2>1, ApplyIs
  <2> QED
    BY <2>2, PutIsVault
<1>2. CASE \E k \in Keys : r = Drop(k)
  <2>1. PICK k \in Keys : r = Drop(k)
    BY <1>2
  <2> QED
    BY <2>1, ApplyIs, WithoutIsVault
<1>3. CASE r = Wipe
  BY <1>3, ApplyIs, EmptyIsVault
<1>4. CASE \E s, e \in 0 .. MaxTime : r = Cut(s, e)
  <2>1. PICK s \in 0 .. MaxTime, e \in 0 .. MaxTime : r = Cut(s, e)
    BY <1>4
  <2>2. Pruned(m, s, e) \in Vaults
    BY WithoutIsVault DEF Pruned
  <2> QED
    BY <2>1, <2>2, ApplyIs
<1> QED
  BY <1>1, <1>2, <1>3, <1>4, RecordIs

LEMMA ReplayIsVault ==
  ASSUME NEW m \in Vaults, NEW j \in Seq(Records)
  PROVE  Replay(m, j) \in Vaults
<1> DEFINE T == {i \in Nat : After(m, j)[i] \in Vaults}
<1>1. Len(j) \in Nat
  BY LenProperties
<1>2. 0 \in T
  BY <1>1, AfterStep
<1>3. ASSUME NEW i \in 0 .. Len(j) - 1, i \in T PROVE i + 1 \in T
  <2>1. i + 1 \in 1 .. Len(j) /\ (i + 1) - 1 = i /\ i + 1 \in Nat
    BY <1>1
  <2>2. After(m, j)[i + 1] = Apply(After(m, j)[i], j[i + 1]) /\ j[i + 1] \in Records
    BY <1>1, <2>1, AfterStep, ElementOfSeq
  <2> QED
    BY <1>3, <2>1, <2>2, ApplyIsVault
<1> HIDE DEF T
<1>4. Len(j) \in T
  <2>1. 0 .. Len(j) \subseteq T
    BY <1>1, <1>2, <1>3, UpTo
  <2> QED
    BY <1>1, <2>1
<1> QED
  BY <1>4 DEF T, Replay

-----------------------------------------------------------------------------
(* Vaults: the inductive invariant *)

Clean == mishaps = {} /\ ~restored

\* A saved file is the map; the journal of a session without mishaps leads to the
\* map as long as no write to it fails, and each prefix of it to a map there was; a closed vault is opened with
\* one of those.
SavedIsMap == phase = "saved" => file = mem
JournalLeadsToMap ==
  phase = "open" /\ journaling /\ ~torn /\ Clean => Replay(file, jrnl) = mem
PrefixesLeadToPast ==
  phase = "open" /\ Clean => \A i \in 0 .. Len(jrnl) : After(file, jrnl)[i] \in past
ClosedOpensInPast == phase = "closed" /\ mishaps = {} => Replay(file, jrnl) \in past

VaultInv == /\ VaultTypeOK /\ SavedIsMap /\ JournalLeadsToMap /\ PrefixesLeadToPast
            /\ ClosedOpensInPast

LEMMA VaultStart == VaultInit => VaultInv
<1> SUFFICES ASSUME VaultInit PROVE VaultInv
  OBVIOUS
<1>1. /\ phase = "closed" /\ mem = Empty /\ journaling = FALSE /\ file = Empty /\ jrnl = <<>>
      /\ torn = FALSE /\ now = 1 /\ restored = FALSE /\ past = {Empty} /\ mishaps = {} /\ faults = 0
  BY DEF VaultInit
<1>2. Replay(file, jrnl) = Empty
  BY <1>1, ReplayNothing
<1>3. /\ 1 \in 1 .. MaxTime /\ <<>> \in Seq(Records) /\ Len(<<>>) <= MaxRecords
      /\ 0 \in 0 .. MaxFaults
  <2>1. 1 \in 1 .. MaxTime /\ 0 \in 0 .. MaxFaults /\ MaxRecords \in Nat
    BY VaultAssumption
  <2> QED
    BY <2>1, EmptySeq
<1>4. VaultTypeOK
  BY <1>1, <1>3, EmptyIsVault DEF VaultTypeOK
<1> QED
  BY <1>1, <1>2, <1>4
     DEF VaultInv, SavedIsMap, JournalLeadsToMap, PrefixesLeadToPast, ClosedOpensInPast

LEMMA OpenInv == ASSUME VaultInv, Open PROVE VaultInv'
<1>1. /\ phase = "closed" /\ mem' = Replay(file, jrnl) /\ jrnl' = <<>> /\ journaling' \in BOOLEAN
      /\ phase' = "open" /\ restored' = (jrnl # <<>>) /\ past' = {mem'} /\ mishaps' = {}
      /\ file' = file /\ torn' = torn /\ now' = now /\ faults' = faults
  BY DEF Open
<1>2. VaultTypeOK
  BY DEF VaultInv
<1>3. mem' \in Vaults
  BY <1>1, <1>2, ReplayIsVault DEF VaultTypeOK
<1>4. <<>> \in Seq(Records) /\ Len(<<>>) = 0 /\ 0 <= MaxRecords
  BY VaultAssumption, EmptySeq
<1>5. VaultTypeOK'
  BY <1>1, <1>2, <1>3, <1>4 DEF VaultTypeOK
<1>6. ~restored' => mem' = file' /\ Replay(file', jrnl') = mem'
  BY <1>1, ReplayNothing
<1>7. \A i \in 0 .. Len(jrnl') : i = 0 /\ After(file', jrnl')[i] = file'
  <2>1. Len(jrnl') = 0
    BY <1>1, <1>4
  <2> QED
    BY <2>1, AfterStep
<1> QED
  BY <1>1, <1>5, <1>6, <1>7
     DEF VaultInv, SavedIsMap, JournalLeadsToMap, PrefixesLeadToPast, ClosedOpensInPast, Clean

LEMMA TypesGive ==
  ASSUME VaultInv
  PROVE  /\ mem \in Vaults /\ file \in Vaults /\ past \subseteq Vaults /\ jrnl \in Seq(Records)
         /\ now \in 1 .. MaxTime /\ now \in 0 .. MaxTime
         /\ \A k \in DOMAIN mem : mem[k].value \in Values \cup {NoText}
<1>1. /\ mem \in Vaults /\ file \in Vaults /\ past \subseteq Vaults /\ jrnl \in Seq(Records)
      /\ now \in 1 .. MaxTime
  BY DEF VaultInv, VaultTypeOK
<1>2. now \in 0 .. MaxTime
  BY <1>1, VaultAssumption
<1>3. \A k \in DOMAIN mem : mem[k].value \in Values \cup {NoText}
  BY <1>1, VaultsAre DEF Entry
<1> QED
  BY <1>1, <1>2, <1>3

\* What a write to the journal does, whether it succeeds or not: the record is at
\* its end, or nothing is changed, or something is there behind a failed write.
LEMMA LogEffect ==
  ASSUME VaultInv, NEW r \in Records, Log(r)
  PROVE  /\ jrnl' \in Seq(Records) /\ Len(jrnl') <= MaxRecords
         /\ torn' \in BOOLEAN /\ faults' \in 0 .. MaxFaults
         /\ \/ jrnl' = jrnl /\ (journaling => torn')
            \/ journaling /\ ~torn /\ jrnl' = Append(jrnl, r)
            \/ torn /\ jrnl' # jrnl
<1>1. /\ Len(jrnl) \in Nat /\ jrnl \in Seq(Records) /\ Len(jrnl) <= MaxRecords
      /\ torn \in BOOLEAN /\ faults \in 0 .. MaxFaults
      /\ MaxRecords \in Nat /\ MaxFaults \in Nat
  BY LenProperties, VaultAssumption DEF VaultInv, VaultTypeOK
<1>2. CASE jrnl' = jrnl /\ torn' = torn /\ faults' = faults /\ (journaling => torn)
  BY <1>1, <1>2
<1>3. CASE journaling /\ Write(r)
  <2>1. jrnl' = Append(jrnl, r) /\ Len(jrnl) < MaxRecords /\ ~torn
        /\ torn' = torn /\ faults' = faults
    BY <1>3 DEF Write
  <2>2. Append(jrnl, r) \in Seq(Records) /\ Len(Append(jrnl, r)) = Len(jrnl) + 1
    BY <1>1, AppendProperties
  <2> QED
    BY <1>1, <1>3, <2>1, <2>2
<1>4. CASE journaling /\ WriteFails
  BY <1>1, <1>4 DEF WriteFails
<1>5. CASE /\ torn /\ torn' = torn /\ faults' = faults
           /\ \E i \in 0 .. Len(jrnl), x \in {r} \cup Misread :
                i < MaxRecords /\ jrnl' = Append(SubSeq(jrnl, 1, i), x)
  <2>1. PICK i \in 0 .. Len(jrnl), x \in {r} \cup Misread :
          i < MaxRecords /\ jrnl' = Append(SubSeq(jrnl, 1, i), x)
    BY <1>5
  <2>2. x \in Records
    BY <2>1, MisreadAssumption
  <2>3. SubSeq(jrnl, 1, i) \in Seq(Records) /\ Len(SubSeq(jrnl, 1, i)) = i
    BY <1>1, ReplayPrefix
  <2>4. jrnl' \in Seq(Records) /\ Len(jrnl') = i + 1
    BY <2>1, <2>2, <2>3, AppendProperties
  <2> QED
    BY <1>1, <1>5, <2>1, <2>4
<1> QED
  BY <1>2, <1>3, <1>4, <1>5 DEF Log, WriteBehind

\* What the operation does besides; without mishaps nothing was written behind a
\* failed write.
LEMMA BecomeEffect ==
  ASSUME VaultInv, NEW m, NEW wrong \in SUBSET {"second", "touch"}, Become(m, wrong)
  PROVE  /\ phase = "open" /\ mem' = m
         /\ mishaps' \subseteq {"second", "touch", "save", "again", "gap"}
         /\ mishaps' = {} => mishaps = {} /\ wrong = {} /\ (torn => jrnl' = jrnl)
         /\ past' = (IF mishaps' = {} THEN past \cup {m} ELSE {})
         /\ phase' = phase /\ journaling' = journaling /\ file' = file /\ restored' = restored
<1> DEFINE gap == IF torn /\ jrnl' # jrnl THEN {"gap"} ELSE {}
<1>1. /\ phase = "open" /\ mem' = m
      /\ mishaps' = IF mishaps = {} THEN wrong \cup gap ELSE mishaps
      /\ past' = (IF mishaps' = {} THEN past \cup {m} ELSE {})
      /\ phase' = phase /\ journaling' = journaling /\ file' = file /\ restored' = restored
  BY DEF Become, Blame
<1>2. mishaps \subseteq {"second", "touch", "save", "again", "gap"}
  BY DEF VaultInv, VaultTypeOK
<1> QED
  BY <1>1, <1>2

\* An operation that is journaled as the record r ...
LEMMA LoggedInv ==
  ASSUME VaultInv, NEW m \in Vaults, NEW wrong \in SUBSET {"second", "touch"}, Become(m, wrong),
         NEW r \in Records, Log(r), wrong = {} => m = Apply(mem, r), now' \in 1 .. MaxTime
  PROVE  VaultInv'
<1>1. /\ phase = "open" /\ mem' = m
      /\ mishaps' \subseteq {"second", "touch", "save", "again", "gap"}
      /\ mishaps' = {} => mishaps = {} /\ wrong = {} /\ (torn => jrnl' = jrnl)
      /\ past' = (IF mishaps' = {} THEN past \cup {m} ELSE {})
      /\ phase' = phase /\ journaling' = journaling /\ file' = file /\ restored' = restored
  BY BecomeEffect
<1>2. VaultTypeOK /\ JournalLeadsToMap /\ PrefixesLeadToPast
  BY DEF VaultInv
<1>3. Len(jrnl) \in Nat /\ jrnl \in Seq(Records)
  BY <1>2, LenProperties DEF VaultTypeOK
<1>4. /\ jrnl' \in Seq(Records) /\ Len(jrnl') <= MaxRecords
      /\ torn' \in BOOLEAN /\ faults' \in 0 .. MaxFaults
      /\ \/ jrnl' = jrnl /\ (journaling => torn')
         \/ journaling /\ ~torn /\ jrnl' = Append(jrnl, r)
         \/ torn /\ jrnl' # jrnl
  BY LogEffect
<1>5. VaultTypeOK'
  BY <1>1, <1>2, <1>4 DEF VaultTypeOK
<1>6. ASSUME mishaps' = {}, ~restored'
      PROVE  /\ journaling' /\ ~torn' => Replay(file', jrnl') = mem'
             /\ \A i \in 0 .. Len(jrnl') : After(file', jrnl')[i] \in past'
  <2>1. Clean /\ wrong = {} /\ past' = past \cup {m} /\ (torn => jrnl' = jrnl)
    BY <1>1, <1>6 DEF Clean
  <2>2. \A i \in 0 .. Len(jrnl) : After(file, jrnl)[i] \in past
    BY <1>1, <1>2, <2>1 DEF PrefixesLeadToPast
  <2>3. CASE journaling /\ ~torn /\ jrnl' = Append(jrnl, r)
    <3>1. jrnl' = Append(jrnl, r)
      BY <2>3
    <3>2. Replay(file, jrnl') = m
      BY <1>1, <1>2, <1>3, <2>1, <2>3, <3>1, ReplayAppend DEF JournalLeadsToMap
    <3>3. Len(jrnl') = Len(jrnl) + 1
      BY <1>3, <3>1, AppendProperties
    <3>4. ASSUME NEW i \in 0 .. Len(jrnl') PROVE After(file, jrnl')[i] \in past'
      <4>1. CASE i \in 0 .. Len(jrnl)
        BY <1>3, <2>1, <2>2, <3>1, <4>1, ReplayAppend
      <4>2. CASE i = Len(jrnl')
        BY <2>1, <3>2, <4>2 DEF Replay
      <4> QED
        BY <1>3, <3>3, <4>1, <4>2
    <3> QED
      BY <1>1, <3>2, <3>4
  <2>4. CASE jrnl' = jrnl /\ (journaling => torn')
    BY <1>1, <2>1, <2>2, <2>4
  <2> QED
    BY <1>4, <2>1, <2>3, <2>4
<1> QED
  BY <1>1, <1>5, <1>6
     DEF VaultInv, SavedIsMap, JournalLeadsToMap, PrefixesLeadToPast, ClosedOpensInPast, Clean

\* ... and a touch, which is not.
LEMMA UnloggedInv ==
  ASSUME VaultInv, NEW m \in Vaults, Become(m, {"touch"}), jrnl' = jrnl, torn' = torn,
         faults' = faults, now' = now
  PROVE  VaultInv'
<1>1. /\ phase = "open" /\ mem' = m
      /\ mishaps' \subseteq {"second", "touch", "save", "again", "gap"}
      /\ mishaps' # {} /\ past' = {}
      /\ phase' = phase /\ journaling' = journaling /\ file' = file /\ restored' = restored
  BY BecomeEffect
<1>2. VaultTypeOK'
  BY <1>1 DEF VaultInv, VaultTypeOK
<1> QED
  BY <1>1, <1>2
     DEF VaultInv, SavedIsMap, JournalLeadsToMap, PrefixesLeadToPast, ClosedOpensInPast, Clean

LEMMA SetInv ==
  ASSUME VaultInv, NEW k \in Keys, NEW v \in Values, Set(k, v) PROVE VaultInv'
<1>1. PICK later \in {now, now + 1} :
        /\ later <= MaxTime
        /\ Log(Insert(k, v, now))
        /\ Become(Put(mem, k, v, later), IF later = now THEN {} ELSE {"second"})
        /\ now' = later
  BY DEF Set
<1>2. later \in 0 .. MaxTime /\ later \in 1 .. MaxTime
  BY <1>1, TypesGive, VaultAssumption
<1>3. Put(mem, k, v, later) \in Vaults /\ Insert(k, v, now) \in Records
  BY <1>2, TypesGive, PutIsVault, RecordTypes
<1>4. later = now => Put(mem, k, v, later) = Apply(mem, Insert(k, v, now))
  BY ApplyIs
<1> DEFINE wrong == IF later = now THEN {} ELSE {"second"}
<1>5. wrong \in SUBSET {"second", "touch"} /\ (wrong = {} => later = now)
  OBVIOUS
<1>6. Become(Put(mem, k, v, later), wrong)
  BY <1>1
<1> HIDE DEF wrong
<1> QED
  BY <1>1, <1>2, <1>3, <1>4, <1>5, <1>6, LoggedInv

LEMMA PlainInv ==
  ASSUME VaultInv, NEW r \in Records, Log(r), Become(Apply(mem, r), {}), now' = now
  PROVE  VaultInv'
<1>1. Apply(mem, r) \in Vaults /\ now' \in 1 .. MaxTime /\ {} \in SUBSET {"second", "touch"}
  BY TypesGive, ApplyIsVault
<1> QED
  BY <1>1, LoggedInv

LEMMA TouchInv ==
  ASSUME VaultInv, NEW k \in Keys, NEW param \in {-1} \cup 0 .. MaxTime, Touch(k, param)
  PROVE  VaultInv'
<1>1. Stamp(param) \in 0 .. MaxTime /\ now' = now
  BY TypesGive DEF Stamp, Touch
<1>2. CASE k \in DOMAIN mem
  <2>1. /\ Become(Put(mem, k, mem[k].value, Stamp(param)), {"touch"})
        /\ jrnl' = jrnl /\ torn' = torn /\ faults' = faults
    BY <1>2 DEF Touch
  <2>2. Put(mem, k, mem[k].value, Stamp(param)) \in Vaults
    BY <1>1, <1>2, TypesGive, PutIsVault
  <2> QED
    BY <1>1, <2>1, <2>2, UnloggedInv
<1>3. CASE k \notin DOMAIN mem
  <2>1. Log(Insert(k, NoText, now)) /\ Become(Put(mem, k, NoText, Stamp(param)), {"touch"})
    BY <1>3 DEF Touch
  <2>2. Put(mem, k, NoText, Stamp(param)) \in Vaults /\ Insert(k, NoText, now) \in Records
    BY <1>1, TypesGive, PutIsVault, RecordTypes
  <2>3. {"touch"} \in SUBSET {"second", "touch"} /\ {"touch"} # {} /\ now' \in 1 .. MaxTime
    BY <1>1, TypesGive
  <2> QED
    BY <2>1, <2>2, <2>3, LoggedInv
<1> QED
  BY <1>2, <1>3

LEMMA PartialIsVault == ASSUME VaultInv, NEW m \in Partial PROVE m \in Vaults
<1>1. PICK S \in SUBSET DOMAIN mem : m = Restrict(mem, S)
  BY DEF Partial
<1> QED
  BY <1>1, TypesGive, RestrictIsVault

LEMMA StartSaveInv == ASSUME VaultInv, StartSave PROVE VaultInv'
<1>1. VaultTypeOK'
  BY EmptyIsVault DEF StartSave, VaultInv, VaultTypeOK
<1> QED
  BY <1>1
     DEF StartSave, VaultInv, SavedIsMap, JournalLeadsToMap, PrefixesLeadToPast, ClosedOpensInPast

LEMMA FinishSaveInv == ASSUME VaultInv, FinishSave PROVE VaultInv'
<1>1. VaultTypeOK'
  BY DEF FinishSave, VaultInv, VaultTypeOK
<1> QED
  BY <1>1
     DEF FinishSave, VaultInv, SavedIsMap, JournalLeadsToMap, PrefixesLeadToPast, ClosedOpensInPast

LEMMA EndJournalInv == ASSUME VaultInv, EndJournal PROVE VaultInv'
<1>1. /\ phase = "saved" /\ jrnl' = <<>> /\ phase' = "closed" /\ mem' = Empty
      /\ journaling' = FALSE /\ torn' = FALSE /\ past' = {mem} /\ mishaps' = {}
      /\ file' = file /\ now' = now /\ restored' = restored /\ faults' = faults
  BY DEF EndJournal, Gone
<1>2. <<>> \in Seq(Records) /\ Len(<<>>) <= MaxRecords
  BY EmptySeq, VaultAssumption
<1>3. VaultTypeOK'
  BY <1>1, <1>2, EmptyIsVault DEF VaultInv, VaultTypeOK
<1>4. file' = mem /\ Replay(file', jrnl') = file'
  BY <1>1, ReplayNothing DEF VaultInv, SavedIsMap
<1> QED
  BY <1>1, <1>3, <1>4
     DEF VaultInv, SavedIsMap, JournalLeadsToMap, PrefixesLeadToPast, ClosedOpensInPast

LEMMA SaveFailsInv == ASSUME VaultInv, SaveFails PROVE VaultInv'
<1>1. /\ jrnl' = <<>> /\ phase' = "closed" /\ mem' = Empty
      /\ journaling' = FALSE /\ torn' = FALSE /\ past' = {}
      /\ mishaps' = IF mishaps = {} THEN {"save"} ELSE mishaps
      /\ file' = file \/ file' \in Partial
      /\ now' = now /\ restored' = FALSE /\ faults' = faults
  BY DEF SaveFails, Gone, Blame
<1>2. <<>> \in Seq(Records) /\ Len(<<>>) <= MaxRecords
  BY EmptySeq, VaultAssumption
<1>3. file' \in Vaults
  BY <1>1, PartialIsVault, TypesGive
<1>4. VaultTypeOK'
  BY <1>1, <1>2, <1>3, EmptyIsVault DEF VaultInv, VaultTypeOK
<1> QED
  BY <1>1, <1>4
     DEF VaultInv, SavedIsMap, JournalLeadsToMap, PrefixesLeadToPast, ClosedOpensInPast

LEMMA VaultCrashInv == ASSUME VaultInv, Crash PROVE VaultInv'
<1>1. /\ phase # "closed" /\ faults < MaxFaults /\ faults' = faults + 1
      /\ phase' = "closed" /\ mem' = Empty /\ journaling' = FALSE /\ restored' = FALSE
      /\ torn' = FALSE /\ now' = now
      /\ mishaps' = IF mishaps = {}
                    THEN (IF restored THEN {"again"} ELSE {})
                         \cup (IF phase # "open" THEN {"save"} ELSE {})
                    ELSE mishaps
      /\ past' = IF phase = "open" THEN past ELSE {}
      /\ IF phase = "saving" THEN file' \in Partial ELSE file' = file
  BY DEF Crash, Gone, Blame
<1>2. PICK n \in 0 .. Len(jrnl) : jrnl' = SubSeq(jrnl, 1, n)
  BY DEF Crash
<1>3. /\ jrnl' \in Seq(Records) /\ Len(jrnl') = n
      /\ Replay(file, jrnl') = After(file, jrnl)[n]
  BY <1>2, TypesGive, ReplayPrefix
<1>4. file' \in Vaults
  BY <1>1, PartialIsVault, TypesGive
<1>5. faults' \in 0 .. MaxFaults /\ Len(jrnl') <= MaxRecords
  <2>1. Len(jrnl) \in Nat /\ Len(jrnl) <= MaxRecords /\ faults \in 0 .. MaxFaults
    BY LenProperties DEF VaultInv, VaultTypeOK
  <2> QED
    BY <1>1, <1>3, <2>1, VaultAssumption
<1>6. VaultTypeOK'
  <2>1. mishaps' \subseteq {"second", "touch", "save", "again", "gap"} /\ past' \subseteq Vaults
    BY <1>1 DEF VaultInv, VaultTypeOK
  <2> QED
    BY <1>1, <1>3, <1>4, <1>5, <2>1, EmptyIsVault, TypesGive DEF VaultTypeOK
<1>7. mishaps' = {} => Replay(file', jrnl') \in past'
  <2> SUFFICES ASSUME mishaps' = {} PROVE Replay(file', jrnl') \in past'
    OBVIOUS
  <2>1. phase = "open" /\ mishaps = {} /\ ~restored
    BY <1>1
  <2>2. After(file, jrnl)[n] \in past /\ past' = past /\ file' = file
    BY <1>1, <2>1 DEF VaultInv, PrefixesLeadToPast, Clean
  <2> QED
    BY <1>3, <2>2
<1> QED
  BY <1>1, <1>6, <1>7
     DEF VaultInv, SavedIsMap, JournalLeadsToMap, PrefixesLeadToPast, ClosedOpensInPast

LEMMA TickInv == ASSUME VaultInv, Tick \/ UNCHANGED vaultVars PROVE VaultInv'
<1>1. /\ UNCHANGED <<phase, mem, journaling, file, jrnl, torn, restored, past, mishaps, faults>>
      /\ now' \in 1 .. MaxTime
  BY TypesGive, VaultAssumption DEF Tick, vaultVars
<1>2. VaultTypeOK'
  BY <1>1 DEF VaultInv, VaultTypeOK
<1> QED
  BY <1>1, <1>2
     DEF VaultInv, SavedIsMap, JournalLeadsToMap, PrefixesLeadToPast, ClosedOpensInPast, Clean

LEMMA VaultStep == VaultInv /\ [VaultNext]_vaultVars => VaultInv'
<1> SUFFICES ASSUME VaultInv, [VaultNext]_vaultVars PROVE VaultInv'
  OBVIOUS
<1>1. CASE Open
  BY <1>1, OpenInv
<1>2. ASSUME NEW k \in Keys, NEW v \in Values, Set(k, v) PROVE VaultInv'
  BY <1>2, SetInv
<1>3. ASSUME NEW k \in Keys, NEW v \in Values, SetPermanent(k, v) PROVE VaultInv'
  <2>1. /\ Log(Insert(k, v, 0)) /\ Become(Apply(mem, Insert(k, v, 0)), {}) /\ now' = now
    BY <1>3, ApplyIs DEF SetPermanent
  <2>2. 0 \in 0 .. MaxTime
    BY VaultAssumption
  <2>3. Insert(k, v, 0) \in Records
    BY <2>2, RecordTypes
  <2> QED
    BY <2>1, <2>3, PlainInv
<1>4. ASSUME NEW k \in Keys, RemoveKey(k) PROVE VaultInv'
  <2>1. /\ Log(Drop(k)) /\ Become(Apply(mem, Drop(k)), {}) /\ now' = now
    BY <1>4, ApplyIs DEF RemoveKey
  <2> QED
    BY <2>1, RecordTypes, PlainInv
<1>5. ASSUME NEW k \in Keys, NEW param \in {-1} \cup 0 .. MaxTime, Touch(k, param) PROVE VaultInv'
  BY <1>5, TouchInv
<1>6. CASE Clear
  <2>1. /\ Log(Wipe) /\ Become(Apply(mem, Wipe), {}) /\ now' = now
    BY <1>6, ApplyIs DEF Clear
  <2> QED
    BY <2>1, RecordTypes, PlainInv
<1>7. ASSUME NEW s \in 0 .. MaxTime, NEW e \in 0 .. MaxTime, Prune(s, e) PROVE VaultInv'
  <2>1. /\ Log(Cut(s, e)) /\ Become(Apply(mem, Cut(s, e)), {}) /\ now' = now
    BY <1>7, ApplyIs DEF Prune
  <2> QED
    BY <2>1, RecordTypes, PlainInv
<1>8. CASE StartSave
  BY <1>8, StartSaveInv
<1>9. CASE FinishSave
  BY <1>9, FinishSaveInv
<1>10. CASE EndJournal
  BY <1>10, EndJournalInv
<1>11. CASE SaveFails
  BY <1>11, SaveFailsInv
<1>12. CASE Crash
  BY <1>12, VaultCrashInv
<1>13. CASE Tick \/ UNCHANGED vaultVars
  BY <1>13, TickInv
<1> QED
  BY <1>1, <1>2, <1>3, <1>4, <1>5, <1>6, <1>7, <1>8, <1>9, <1>10, <1>11, <1>12, <1>13
     DEF VaultNext

\* Whatever is stored, however often the vault is closed and wherever the server
\* faults, file, journal and memory fit together.
THEOREM VaultInvariant == VaultSpec => []VaultInv
<1> QED
  BY VaultStart, VaultStep, PTL DEF VaultSpec

\* While a vault is open, and no write to its journal failed, reading its file and
\* replaying its journal gives what is in memory, for a journal of any length: what Journal::Write_... append and what
\* Journal::Replay makes of it agree with what NVault does in memory.
THEOREM JournalCovers == VaultSpec => []JournalCoversSession
<1>1. VaultInv => JournalCoversSession
  BY DEF VaultInv, JournalCoversSession, JournalLeadsToMap, Clean
<1> QED
  BY <1>1, VaultInvariant, PTL

\* NVault::Open finds what the vault was closed with or, after a crash that cut the
\* journal anywhere, what it was after one of the operations of that session, also
\* when writes to the journal failed, unless one behind them succeeded.
THEOREM VaultRecovers == VaultSpec => RecoversAState
<1>1. VaultInv /\ [VaultNext]_vaultVars => [Opened /\ mishaps = {} => mem' \in past]_vaultVars
  <2> SUFFICES ASSUME VaultInv, VaultNext, Opened, mishaps = {} PROVE mem' \in past
    BY DEF vaultVars
  <2>1. phase = "closed" /\ phase' = "open"
    BY DEF Opened
  <2>2. Open
    BY <2>1 DEF VaultNext, Set, SetPermanent, RemoveKey, Touch, Clear, Prune, Become,
                StartSave, FinishSave, EndJournal, SaveFails, Crash, Tick
  <2>3. mem' = Replay(file, jrnl)
    BY <2>2 DEF Open
  <2> QED
    BY <2>1, <2>3 DEF VaultInv, ClosedOpensInPast
<1> QED
  BY <1>1, VaultInvariant, PTL DEF VaultSpec, RecoversAState

=============================================================================
