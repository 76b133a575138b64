--------------------------- MODULE TaskMngrProofs ---------------------------
(***************************************************************************)
(* Proofs about TaskMngr, for any tasks, kinds, intervals and repeats, any *)
(* length of the vector and any nesting of frames.                         *)
(***************************************************************************)
EXTENDS TaskMngr, SequenceTheorems, FiniteSetTheorems, TLAPS

-----------------------------------------------------------------------------
(* The inductive invariant *)

\* Every frame but the last is in a call.  One that still has its vector calls a
\* task of it; the others are in a call that will not find its task again.
InCall(k) == frames[k].calling /\ ~frames[k].stale

FramesNest ==
  /\ \A k \in 1 .. Len(frames) : k # Len(frames) \/ frames[k].stale => frames[k].calling
  /\ \A k \in 1 .. Len(frames) :
       ~frames[k].stale => frames[k].last <= n /\ (frames[k].calling => frames[k].at <= frames[k].last)
  /\ deferred => frames # <<>>

CallsMatch ==
  /\ \A i \in Slot : task[i].inExec <=> \E k \in 1 .. Len(frames) : InCall(k) /\ frames[k].at = i
  /\ \A j, k \in 1 .. Len(frames) :
       InCall(j) /\ InCall(k) /\ frames[j].at = frames[k].at => j = k

\* Slots that the vector has not reached are those of a task nobody set.
BlankBeyond == \A i \in Slot : i > n => task[i].free /\ ~task[i].inExec

\* What is left of the calls a task was set for.
Left(t) == IF t.loop THEN t.repeat ELSE 1

Counted(t) ==
  ~t.free => /\ t.asked = -1 <=> t.loop /\ t.repeat = -1
             /\ t.asked # -1 => t.called + Left(t) = t.asked + (IF t.inExec THEN 1 ELSE 0)

CallsCounted == \A i \in Slot : Counted(task[i])

TasksOf(d) == {i \in Slot : ~task[i].free /\ task[i].id = d}
BookingsKept == \A d \in Ids : booked[d] = IF deferred THEN 0 ELSE Cardinality(TasksOf(d))

\* While no nested frame shares a clear, the frame that will carry it out is the
\* outermost one, in its call, and the vector it destroys holds only tasks that
\* were set since; these are on the count, and not executing.
Taken == {i \in Slot : ~task[i].free \/ task[i].inExec}
Set == {i \in Slot : ~task[i].free}

NoneStale == \A k \in 1 .. Len(frames) : ~frames[k].stale

ClearIsOurs ==
  deferred => /\ Len(frames) = 1 /\ frames[1].calling
              /\ \A i \in Slot : task[i].inExec => task[i].free

CountExact == active = lost + (IF deferred THEN Cardinality(Set) ELSE Cardinality(Taken))

Unshared == ~SharesClear => NoneStale /\ ClearIsOurs /\ CountExact

IInv == /\ TypeOK /\ FramesNest /\ CallsMatch /\ BlankBeyond /\ HintSkipsNoFreeSlot
        /\ CallsCounted /\ BookingsKept
        /\ Unshared

LEMMA OnlyOne ==
  ASSUME NEW m \in Nat \ {0}, ~(m > 1)
  PROVE  m = 1
OBVIOUS

USE MaxTasksAssumption, KindsAssumption, NumbersAssumption

-----------------------------------------------------------------------------
(* Records of tasks and of frames *)

TaskOf(free, inExec, id, kind, loop, repeat, base, wait, asked, called) ==
  [free |-> free, inExec |-> inExec, id |-> id, kind |-> kind, loop |-> loop,
   repeat |-> repeat, base |-> base, wait |-> wait, asked |-> asked, called |-> called]

LEMMA BlankFacts ==
  /\ Blank \in Tasks /\ Blank.free /\ ~Blank.inExec
  /\ Blank = TaskOf(TRUE, FALSE, NoId, "timed", FALSE, 0, 0, 0, 0, 0)
BY DEF Blank, Tasks, EventKinds, TaskOf

LEMMA ExecChanged ==
  ASSUME NEW t \in Tasks, NEW b \in BOOLEAN
  PROVE  /\ [t EXCEPT !.inExec = b] \in Tasks
         /\ [t EXCEPT !.inExec = b] = TaskOf(t.free, b, t.id, t.kind, t.loop,
                                             t.repeat, t.base, t.wait, t.asked, t.called)
BY DEF Tasks, TaskOf

LEMMA CalledChanged ==
  ASSUME NEW t \in Tasks, NEW m \in Nat
  PROVE  /\ [t EXCEPT !.called = m] \in Tasks
         /\ [t EXCEPT !.called = m] = TaskOf(t.free, t.inExec, t.id, t.kind, t.loop,
                                             t.repeat, t.base, t.wait, t.asked, m)
BY DEF Tasks, TaskOf

LEMMA RepeatChanged ==
  ASSUME NEW t \in Tasks, NEW m \in Int
  PROVE  /\ [t EXCEPT !.repeat = m] \in Tasks
         /\ [t EXCEPT !.repeat = m] = TaskOf(t.free, t.inExec, t.id, t.kind, t.loop,
                                             m, t.base, t.wait, t.asked, t.called)
BY DEF Tasks, TaskOf

LEMMA BaseChanged ==
  ASSUME NEW t \in Tasks, NEW m \in Int
  PROVE  /\ [t EXCEPT !.base = m] \in Tasks
         /\ [t EXCEPT !.base = m] = TaskOf(t.free, t.inExec, t.id, t.kind, t.loop,
                                             t.repeat, m, t.wait, t.asked, t.called)
BY DEF Tasks, TaskOf

LEMMA WaitChanged ==
  ASSUME NEW t \in Tasks, NEW m \in Int
  PROVE  /\ [t EXCEPT !.wait = m] \in Tasks
         /\ [t EXCEPT !.wait = m] = TaskOf(t.free, t.inExec, t.id, t.kind, t.loop,
                                             t.repeat, t.base, m, t.asked, t.called)
BY DEF Tasks, TaskOf

LEMMA TypedFields ==
  ASSUME NEW t \in Tasks
  PROVE  /\ t.free \in BOOLEAN /\ t.inExec \in BOOLEAN /\ t.loop \in BOOLEAN
         /\ t.repeat \in Int /\ t.base \in Int /\ t.wait \in Int /\ t.asked \in Int
         /\ t.called \in Nat
BY DEF Tasks

LEMMA ClearedFacts ==
  ASSUME NEW t \in Tasks
  PROVE  Cleared(t) \in Tasks /\ Cleared(t).free /\ Cleared(t).inExec = t.inExec
<1>1. t.inExec \in BOOLEAN
  BY TypedFields
<1> QED
  BY <1>1, BlankFacts, ExecChanged DEF Cleared, TaskOf

LEMMA EnteredFacts ==
  ASSUME NEW t \in Tasks, ~t.free, ~t.inExec, Counted(t)
  PROVE  LET e == Entered(t)
         IN e \in Tasks /\ e.free = t.free /\ e.inExec /\ e.id = t.id /\ Counted(e)
<1> DEFINE u == [t EXCEPT !.inExec = TRUE]
           c == IF t.asked = -1 THEN 0 ELSE t.called + 1
<1>1. t.asked \in Int /\ t.called \in Nat /\ c \in Nat
  BY TypedFields
<1>2. u \in Tasks
      /\ u = TaskOf(t.free, TRUE, t.id, t.kind, t.loop, t.repeat, t.base, t.wait, t.asked, t.called)
  BY ExecChanged
<1>3. Entered(t) = [u EXCEPT !.called = c]
  BY DEF Entered
<1>4. Entered(t) \in Tasks
      /\ Entered(t) = TaskOf(t.free, TRUE, t.id, t.kind, t.loop, t.repeat, t.base, t.wait, t.asked, c)
  <2>1. /\ u.free = t.free /\ u.inExec = TRUE /\ u.id = t.id /\ u.kind = t.kind
        /\ u.loop = t.loop /\ u.repeat = t.repeat /\ u.base = t.base /\ u.wait = t.wait
        /\ u.asked = t.asked
    BY <1>2 DEF TaskOf
  <2> HIDE DEF u, c
  <2>2. /\ [u EXCEPT !.called = c] \in Tasks
        /\ [u EXCEPT !.called = c] = TaskOf(u.free, u.inExec, u.id, u.kind, u.loop,
                                            u.repeat, u.base, u.wait, u.asked, c)
    BY <1>1, <1>2, CalledChanged
  <2> QED
    BY <1>3, <2>1, <2>2
<1> DEFINE e == Entered(t)
<1>5. /\ e.free = t.free /\ e.inExec = TRUE /\ e.id = t.id /\ e.loop = t.loop
      /\ e.repeat = t.repeat /\ e.asked = t.asked /\ e.called = c
  BY <1>4 DEF TaskOf
<1>6. Counted(e)
  <2> HIDE DEF e
  <2>1. t.repeat \in Int
    BY TypedFields
  <2> QED
    BY <1>1, <1>5, <2>1 DEF Counted, Left
<1> QED
  BY <1>4, <1>5, <1>6

\* A call that ends leaves a task that is over, or one with a call less to make.
LEMMA CalledFacts ==
  ASSUME NEW t \in Tasks, ~t.free, t.inExec, Counted(t)
  PROVE  LET c == Called([t EXCEPT !.inExec = FALSE])
         IN  /\ c \in Tasks /\ ~c.inExec /\ Counted(c)
             /\ ~c.free => c.id = t.id
<1> DEFINE u == [t EXCEPT !.inExec = FALSE]
<1>0. /\ t.repeat \in Int /\ t.asked \in Int /\ t.called \in Nat /\ t.base \in Int /\ t.wait \in Int
      /\ t.loop \in BOOLEAN
  BY TypedFields
<1>1. u \in Tasks
      /\ u = TaskOf(t.free, FALSE, t.id, t.kind, t.loop, t.repeat, t.base, t.wait, t.asked, t.called)
  BY ExecChanged
<1>2. /\ u.free = t.free /\ u.inExec = FALSE /\ u.id = t.id /\ u.kind = t.kind
      /\ u.loop = t.loop /\ u.repeat = t.repeat /\ u.base = t.base /\ u.wait = t.wait
      /\ u.asked = t.asked /\ u.called = t.called
  BY <1>1 DEF TaskOf
<1> HIDE DEF u
<1>3. CASE u.loop /\ (u.repeat = -1 \/ u.repeat > 1)
  <2> DEFINE r == IF u.repeat = -1 THEN u.repeat ELSE u.repeat - 1
             v == [u EXCEPT !.repeat = r]
             w == u.wait + u.base
             c == Called(u)
  <2>1. r \in Int /\ w \in Int
    BY <1>0, <1>2
  <2>2. c = [v EXCEPT !.wait = w]
    BY <1>3 DEF Called
  <2>3. v \in Tasks
        /\ v = TaskOf(u.free, u.inExec, u.id, u.kind, u.loop, r, u.base, u.wait, u.asked, u.called)
    <3> HIDE DEF r
    <3> QED
      BY <1>1, <2>1, RepeatChanged
  <2>4. /\ v.free = u.free /\ v.inExec = u.inExec /\ v.id = u.id /\ v.kind = u.kind
        /\ v.loop = u.loop /\ v.repeat = r /\ v.base = u.base
        /\ v.asked = u.asked /\ v.called = u.called
    <3> HIDE DEF r, v
    <3> QED
      BY <2>3 DEF TaskOf
  <2>5. c \in Tasks
        /\ c = TaskOf(u.free, u.inExec, u.id, u.kind, u.loop, r, u.base, w, u.asked, u.called)
    <3> HIDE DEF r, v, w, c
    <3> QED
      BY <2>1, <2>2, <2>3, <2>4, WaitChanged
  <2>6. /\ c.free = u.free /\ c.inExec = u.inExec /\ c.id = u.id
        /\ c.loop = u.loop /\ c.repeat = r /\ c.asked = u.asked /\ c.called = u.called
    <3> HIDE DEF r, v, w, c
    <3> QED
      BY <2>5 DEF TaskOf
  <2> HIDE DEF c
  <2>7. Counted(c)
    BY <1>0, <1>2, <1>3, <2>6 DEF Counted, Left
  <2> QED
    BY <1>2, <2>5, <2>6, <2>7 DEF u, c
<1>4. CASE ~(u.loop /\ (u.repeat = -1 \/ u.repeat > 1))
  <2>1. Called(u) = Cleared(u)
    BY <1>4 DEF Called
  <2>2. Called(u) \in Tasks /\ Called(u).free /\ ~Called(u).inExec
    BY <1>1, <1>2, <2>1, ClearedFacts
  <2> QED
    BY <2>2 DEF Counted, u
<1> QED
  BY <1>3, <1>4

\* A loop that was set for no call is over.
LEMMA VoidIsOver ==
  ASSUME NEW t \in Tasks, t.loop, t.repeat = 0
  PROVE  Called(t) = Cleared(t)
BY DEF Called

LEMMA NewTaskFacts ==
  ASSUME NEW d \in Ids, NEW kind \in Kinds[d], NEW base \in Bases, NEW flag \in {"once", "a", "b"},
         NEW repeat \in Int
  PROVE  LET t == NewTask(d, kind, base, flag, repeat)
         IN t \in Tasks /\ ~t.free /\ ~t.inExec /\ t.id = d /\ Counted(t)
<1> DEFINE times == IF flag = "b" THEN -1 ELSE IF flag = "a" THEN repeat ELSE 0
           b == Interval(kind, base)
           asked == IF flag = "once" THEN 1 ELSE times
           t == NewTask(d, kind, base, flag, repeat)
<1>1. kind \in EventKinds
  OBVIOUS
<1>2. b \in Int
  BY DEF Interval
<1>3. times \in Int
  OBVIOUS
<1>4. asked \in Int
  <2> HIDE DEF times
  <2> QED
    BY <1>3
<1>5. flag = "once" => times = 0
  OBVIOUS
<1>6. t = TaskOf(FALSE, FALSE, d, kind, flag # "once", times, b, b, asked, 0)
  BY DEF NewTask, TaskOf
<1> HIDE DEF times, b, asked, t
<1>7. /\ t.free = FALSE /\ t.inExec = FALSE /\ t.id = d /\ t.loop = (flag # "once")
      /\ t.repeat = times /\ t.asked = asked /\ t.called = 0
  BY <1>6 DEF TaskOf
<1>8. t \in Tasks
  BY <1>1, <1>2, <1>3, <1>4, <1>6 DEF Tasks, TaskOf
<1>9. Counted(t)
  <2>1. CASE flag = "once"
    <3>1. t.loop = FALSE /\ t.asked = 1
      BY <2>1, <1>7 DEF asked
    <3> QED
      BY <3>1, <1>7 DEF Counted, Left
  <2>2. CASE flag # "once"
    <3>1. t.loop = TRUE /\ t.asked = times
      BY <2>2, <1>7 DEF asked
    <3> QED
      BY <3>1, <1>3, <1>7 DEF Counted, Left
  <2> QED
    BY <2>1, <2>2
<1> QED
  BY <1>7, <1>8, <1>9 DEF t

-----------------------------------------------------------------------------
(* The stack of frames, and sets of slots *)

LEMMA FrameTyped ==
  ASSUME NEW f \in Frames
  PROVE  /\ f.at \in 1 .. MaxTasks + 1 /\ f.last \in 0 .. MaxTasks
         /\ f.calling \in BOOLEAN /\ f.stale \in BOOLEAN
BY DEF Frames

LEMMA StackFacts ==
  ASSUME frames \in Seq(Frames), frames # <<>>
  PROVE  /\ Len(frames) \in Nat \ {0} /\ Len(frames) \in 1 .. Len(frames)
         /\ Frame \in Frames /\ Frame = frames[Len(frames)]
         /\ Outer \in Seq(Frames) /\ Len(Outer) = Len(frames) - 1
         /\ \A k \in 1 .. Len(frames) - 1 : Outer[k] = frames[k]
<1> DEFINE m == Len(frames) - 1
<1>1. Len(frames) \in Nat \ {0}
  BY EmptySeq
<1>2. Len(frames) \in 1 .. Len(frames) /\ 1 \in Int /\ m \in Int /\ m \in Nat
  BY <1>1
<1>3. \A k \in 1 .. m : frames[k] \in Frames
  BY <1>1, ElementOfSeq
<1>4. /\ Outer \in Seq(Frames) /\ Len(Outer) = (IF 1 <= m THEN m - 1 + 1 ELSE 0)
      /\ \A k \in 1 .. m - 1 + 1 : Outer[k] = frames[1 + k - 1]
  <2> HIDE DEF m
  <2>1. Outer = SubSeq(frames, 1, m)
    BY DEF Outer, m
  <2> QED
    BY <1>2, <1>3, <2>1, SubSeqProperties
<1>5. Frame \in Frames /\ Frame = frames[Len(frames)]
  BY <1>2, ElementOfSeq DEF Frame
<1>6. Len(Outer) = m /\ \A k \in 1 .. m : Outer[k] = frames[k]
  <2> HIDE DEF m
  <2>1. (IF 1 <= m THEN m - 1 + 1 ELSE 0) = m /\ m - 1 + 1 = m
    BY <1>2
  <2>2. \A k \in 1 .. m : 1 + k - 1 = k
    BY <1>2
  <2> QED
    BY <1>4, <2>1, <2>2
<1> QED
  BY <1>1, <1>2, <1>4, <1>5, <1>6

\* The last frame gives way to f.
LEMMA TopReplaced ==
  ASSUME frames \in Seq(Frames), frames # <<>>, NEW f \in Frames
  PROVE  /\ Append(Outer, f) \in Seq(Frames) /\ Len(Append(Outer, f)) = Len(frames)
         /\ Append(Outer, f)[Len(frames)] = f
         /\ \A k \in 1 .. Len(frames) : k # Len(frames) => Append(Outer, f)[k] = frames[k]
<1>1. /\ Len(frames) \in Nat \ {0} /\ Outer \in Seq(Frames) /\ Len(Outer) = Len(frames) - 1
      /\ \A k \in 1 .. Len(frames) - 1 : Outer[k] = frames[k]
  BY StackFacts
<1>2. /\ Append(Outer, f) \in Seq(Frames) /\ Len(Append(Outer, f)) = Len(Outer) + 1
      /\ \A k \in 1 .. Len(Outer) : Append(Outer, f)[k] = Outer[k]
      /\ Append(Outer, f)[Len(Outer) + 1] = f
  BY <1>1, AppendProperties
<1>3. \A k \in 1 .. Len(frames) : k # Len(frames) => k \in 1 .. Len(frames) - 1
  BY <1>1
<1> QED
  BY <1>1, <1>2, <1>3

LEMMA OrphanedFacts ==
  ASSUME NEW fs \in Seq(Frames)
  PROVE  /\ Orphaned(fs) \in Seq(Frames) /\ Len(Orphaned(fs)) = Len(fs)
         /\ \A k \in 1 .. Len(fs) : /\ Orphaned(fs)[k].stale
                                    /\ Orphaned(fs)[k].calling = fs[k].calling
<1>1. DOMAIN fs = 1 .. Len(fs) /\ Len(fs) \in Nat
  BY LenProperties
<1>2. ASSUME NEW f \in Frames
      PROVE  /\ [f EXCEPT !.stale = TRUE] \in Frames
             /\ [f EXCEPT !.stale = TRUE].stale
             /\ [f EXCEPT !.stale = TRUE].calling = f.calling
  BY DEF Frames
<1>3. \A k \in 1 .. Len(fs) : fs[k] \in Frames
  BY ElementOfSeq
<1> DEFINE o == [k \in 1 .. Len(fs) |-> [fs[k] EXCEPT !.stale = TRUE]]
<1>4. Orphaned(fs) = o
  BY <1>1 DEF Orphaned
<1>5. o \in [1 .. Len(fs) -> Frames]
  BY <1>2, <1>3
<1>6. o \in Seq(Frames)
  <2> HIDE DEF o
  <2> QED
    BY <1>1, <1>5, SeqDef
<1>7. Len(o) = Len(fs)
  <2>1. DOMAIN o = 1 .. Len(fs) /\ DOMAIN o = 1 .. Len(o) /\ Len(o) \in Nat
    BY <1>6, LenProperties
  <2> HIDE DEF o
  <2> QED
    BY <1>1, <2>1
<1> QED
  BY <1>2, <1>3, <1>4, <1>6, <1>7

LEMMA Countable ==
  ASSUME NEW A \in SUBSET Slot
  PROVE  IsFiniteSet(A) /\ Cardinality(A) \in Nat
<1>1. 1 \in Int /\ MaxTasks \in Int
  OBVIOUS
<1>2. IsFiniteSet(Slot)
  BY <1>1, FS_Interval DEF Slot
<1> QED
  BY <1>2, FS_Subset, FS_CardinalityType

LEMMA StateTyped ==
  ASSUME TypeOK
  PROVE  /\ n \in 0 .. MaxTasks /\ n \in Nat /\ task \in [Slot -> Tasks]
         /\ frames \in Seq(Frames) /\ Len(frames) \in Nat
         /\ \A i \in Slot : task[i] \in Tasks /\ task[i].free \in BOOLEAN /\ task[i].inExec \in BOOLEAN
         /\ \A k \in 1 .. Len(frames) :
              /\ frames[k].at \in 1 .. MaxTasks + 1 /\ frames[k].last \in 0 .. MaxTasks
              /\ frames[k].calling \in BOOLEAN /\ frames[k].stale \in BOOLEAN
         /\ Slot = 1 .. MaxTasks
<1>1. \A i \in Slot : task[i] \in Tasks
  BY DEF TypeOK
<1>2. \A k \in 1 .. Len(frames) : frames[k] \in Frames
  BY ElementOfSeq DEF TypeOK
<1> QED
  BY <1>1, <1>2, TypedFields, FrameTyped, LenProperties DEF TypeOK, Slot

\* Sets of slots read only whose a task is, and whether it is free and executing.
LEMMA SetsKept ==
  ASSUME \A i \in Slot : /\ task'[i].free = task[i].free /\ task'[i].inExec = task[i].inExec
                         /\ task'[i].id = task[i].id
  PROVE  Taken' = Taken /\ Set' = Set /\ \A d \in Ids : TasksOf(d)' = TasksOf(d)
BY DEF Taken, Set, TasksOf

\* Calls begin and end together with the executing of their tasks.
LEMMA CallsKept ==
  ASSUME CallsMatch, \A i \in Slot : task'[i].inExec = task[i].inExec,
         \A k \in 1 .. Len(frames') : InCall(k)' =>
           k \in 1 .. Len(frames) /\ InCall(k) /\ frames'[k].at = frames[k].at,
         \A k \in 1 .. Len(frames) : InCall(k) =>
           k \in 1 .. Len(frames') /\ InCall(k)' /\ frames'[k].at = frames[k].at
  PROVE  CallsMatch'
<1>1. ASSUME NEW i \in Slot
      PROVE  task'[i].inExec <=> \E k \in 1 .. Len(frames') : InCall(k)' /\ frames'[k].at = i
  <2>1. task[i].inExec <=> \E k \in 1 .. Len(frames) : InCall(k) /\ frames[k].at = i
    BY DEF CallsMatch
  <2>2. (\E k \in 1 .. Len(frames) : InCall(k) /\ frames[k].at = i)
          <=> \E k \in 1 .. Len(frames') : InCall(k)' /\ frames'[k].at = i
    OBVIOUS
  <2> QED
    BY <2>1, <2>2
<1>2. \A j, k \in 1 .. Len(frames') :
        InCall(j)' /\ InCall(k)' /\ frames'[j].at = frames'[k].at => j = k
  BY DEF CallsMatch
<1> QED
  BY <1>1, <1>2 DEF CallsMatch

-----------------------------------------------------------------------------
(* The end of a frame with a clear that was put off *)

\* What LeaveFrame does then, whoever takes it: the bookings are void already.
Wipe == /\ frames # <<>> /\ deferred /\ deferred' = FALSE /\ n' = 0
        /\ task' = [i \in Slot |-> Blank]
        /\ frames' = Orphaned(Outer)
        /\ lost' = lost + Cardinality({i \in Slot : Live(i)})
        /\ booked' = [d \in Ids |-> 0]
        /\ UNCHANGED <<active, hint, open>>

LEMMA WipeKept ==
  ASSUME IInv, Wipe
  PROVE  IInv'
<1>0. TypeOK /\ FramesNest /\ BlankBeyond /\ Unshared
  BY DEF IInv
<1>1. /\ Len(frames) \in Nat \ {0} /\ Outer \in Seq(Frames) /\ Len(Outer) = Len(frames) - 1
      /\ \A k \in 1 .. Len(frames) - 1 : Outer[k] = frames[k]
  BY <1>0, StateTyped, StackFacts DEF Wipe
<1>2. /\ frames' \in Seq(Frames) /\ Len(frames') = Len(frames) - 1
      /\ \A k \in 1 .. Len(frames') : frames'[k].stale /\ frames'[k].calling = frames[k].calling
  BY <1>1, OrphanedFacts DEF Wipe
<1>3. /\ task' \in [Slot -> Tasks]
      /\ \A i \in Slot : task'[i].free /\ ~task'[i].inExec
  BY BlankFacts DEF Wipe
<1>4. /\ {i \in Slot : Live(i)} = Set /\ Cardinality(Set) \in Nat
  <2>1. \A i \in Slot : i <= n <=> ~(i > n)
    BY <1>0, StateTyped DEF Slot
  <2>2. {i \in Slot : Live(i)} = Set
    BY <1>0, <2>1 DEF Live, Set, BlankBeyond
  <2>3. Set \in SUBSET Slot
    BY DEF Set
  <2> QED
    BY <2>2, <2>3, Countable
<1>5. Taken' = {} /\ (\A d \in Ids : TasksOf(d)' = {}) /\ Cardinality({}) = 0
  BY <1>3, FS_EmptySet DEF Taken, TasksOf
<1>6. TypeOK'
  <2>1. lost' \in Nat
    <3>1. lost \in Nat /\ lost' = lost + Cardinality(Set)
      BY <1>0, <1>4 DEF Wipe, TypeOK
    <3> QED
      BY <3>1, <1>4
  <2>2. n' \in 0 .. MaxTasks
    BY DEF Wipe
  <2> QED
    BY <1>0, <1>2, <1>3, <2>1, <2>2 DEF Wipe, TypeOK
<1>7. FramesNest'
  <2>1. \A k \in 1 .. Len(frames') : frames'[k].calling
    BY <1>0, <1>1, <1>2 DEF FramesNest
  <2> QED
    BY <1>2, <2>1 DEF FramesNest, Wipe
<1>8. CallsMatch'
  BY <1>2, <1>3 DEF CallsMatch, InCall
<1>9. BlankBeyond'
  BY <1>3 DEF BlankBeyond
<1>10. HintSkipsNoFreeSlot'
  <2>1. 1 .. n' = {}
    BY DEF Wipe
  <2> QED
    BY <2>1 DEF HintSkipsNoFreeSlot
<1>11. CallsCounted'
  BY <1>3 DEF CallsCounted, Counted
<1>12. BookingsKept'
  BY <1>5 DEF BookingsKept, Wipe
<1>13. Unshared'
  <2> SUFFICES ASSUME ~SharesClear  PROVE NoneStale' /\ ClearIsOurs' /\ CountExact'
    BY DEF Unshared, SharesClear
  <2>1. Len(frames') = 0
    BY <1>0, <1>2 DEF Unshared, ClearIsOurs, Wipe
  <2>2. NoneStale' /\ ClearIsOurs'
    BY <2>1 DEF NoneStale, ClearIsOurs, Wipe
  <2>3. active' = lost'
    BY <1>0, <1>4 DEF Unshared, CountExact, Wipe
  <2>4. CountExact'
    BY <1>0, <1>5, <1>6, <2>3 DEF CountExact, Wipe, TypeOK
  <2> QED
    BY <2>2, <2>4
<1> QED
  BY <1>6, <1>7, <1>8, <1>9, <1>10, <1>11, <1>12, <1>13 DEF IInv

-----------------------------------------------------------------------------
(* Steps that leave the vector and the count alone *)

\* The tasks and their numbers are as they were; only the frames may change.
Untouched == UNCHANGED <<n, task, active, hint, deferred, booked, lost>>

LEMMA UntouchedKept ==
  ASSUME IInv, Untouched
  PROVE  /\ BlankBeyond' /\ HintSkipsNoFreeSlot' /\ CallsCounted' /\ BookingsKept'
         /\ ~SharesClear => CountExact'
<1>1. Taken' = Taken /\ Set' = Set /\ (\A d \in Ids : TasksOf(d)' = TasksOf(d))
  BY SetsKept DEF Untouched
<1>2. BlankBeyond' /\ HintSkipsNoFreeSlot' /\ CallsCounted'
  BY DEF IInv, BlankBeyond, HintSkipsNoFreeSlot, CallsCounted, Counted, Left, Untouched
<1>3. BookingsKept'
  BY <1>1 DEF IInv, BookingsKept, Untouched
<1>4. ~SharesClear => CountExact'
  BY <1>1 DEF IInv, Unshared, CountExact, Untouched
<1> QED
  BY <1>2, <1>3, <1>4

LEMMA StartFrameKept ==
  ASSUME IInv, StartFrame
  PROVE  IInv'
<1> DEFINE f == [at |-> 1, last |-> n, calling |-> FALSE, stale |-> FALSE]
<1>0. TypeOK /\ FramesNest /\ CallsMatch /\ Unshared /\ Untouched /\ open' = open
  BY DEF IInv, StartFrame, Untouched
<1>1. /\ f \in Frames /\ f.at = 1 /\ f.last = n /\ f.calling = FALSE /\ f.stale = FALSE
  BY <1>0 DEF Frames, TypeOK
<1> HIDE DEF f
<1>2. frames' = Append(frames, f)
  BY DEF StartFrame, f
<1>3. /\ frames' \in Seq(Frames) /\ Len(frames') = Len(frames) + 1 /\ Len(frames) \in Nat
      /\ \A k \in 1 .. Len(frames) : frames'[k] = frames[k]
      /\ frames'[Len(frames) + 1] = f /\ frames' # <<>>
  BY <1>0, <1>1, <1>2, StateTyped, AppendProperties
<1>4. /\ \A k \in 1 .. Len(frames') : k = Len(frames) + 1 \/ k \in 1 .. Len(frames)
      /\ 1 .. Len(frames) \subseteq 1 .. Len(frames')
      /\ \A k \in 1 .. Len(frames) : k # Len(frames) + 1
  BY <1>3
<1>5. \A k \in 1 .. Len(frames) : frames[k].calling
  <2>1. frames # <<>> => Frame.calling /\ Frame = frames[Len(frames)]
    BY <1>0, StateTyped, StackFacts DEF StartFrame, Idle
  <2>2. Len(frames) = 0 \/ frames # <<>>
    BY <1>3, EmptySeq
  <2> QED
    BY <1>0, <1>3, <2>1, <2>2 DEF FramesNest
<1>6. TypeOK'
  BY <1>0, <1>3 DEF TypeOK, Untouched
<1>7. FramesNest'
  <2>1. n' = n /\ n \in Nat /\ Len(frames') = Len(frames) + 1
    BY <1>0, <1>3, StateTyped DEF Untouched
  <2>2. ASSUME NEW k \in 1 .. Len(frames')
        PROVE  /\ k # Len(frames') \/ frames'[k].stale => frames'[k].calling
               /\ ~frames'[k].stale =>
                    frames'[k].last <= n' /\ (frames'[k].calling => frames'[k].at <= frames'[k].last)
    <3>1. CASE k = Len(frames) + 1
      BY <3>1, <2>1, <1>1, <1>3
    <3>2. CASE k \in 1 .. Len(frames)
      BY <3>2, <2>1, <1>0, <1>3, <1>5 DEF FramesNest
    <3> QED
      BY <3>1, <3>2, <1>4
  <2> QED
    BY <2>2, <1>3 DEF FramesNest
<1>8. CallsMatch'
  <2>1. \A k \in 1 .. Len(frames') : InCall(k)' =>
          k \in 1 .. Len(frames) /\ InCall(k) /\ frames'[k].at = frames[k].at
    BY <1>1, <1>3, <1>4 DEF InCall
  <2>2. \A k \in 1 .. Len(frames) : InCall(k) =>
          k \in 1 .. Len(frames') /\ InCall(k)' /\ frames'[k].at = frames[k].at
    BY <1>3, <1>4 DEF InCall
  <2> QED
    BY <1>0, <2>1, <2>2, CallsKept DEF Untouched
<1>9. Unshared'
  <2>1. ~SharesClear => ~deferred'
    BY <1>0 DEF StartFrame, Untouched
  <2>2. ~SharesClear => NoneStale'
    BY <1>0, <1>1, <1>3, <1>4 DEF Unshared, NoneStale
  <2> QED
    BY <2>1, <2>2, UntouchedKept, <1>0 DEF Unshared, ClearIsOurs, SharesClear
<1> QED
  BY <1>0, <1>6, <1>7, <1>8, <1>9, UntouchedKept DEF IInv

\* The walk is over and no clear was put off.
LEMMA FrameEnds ==
  ASSUME IInv, ~Idle, ~deferred, frames' = Outer, Untouched, open' = open
  PROVE  IInv'
<1>0. TypeOK /\ FramesNest /\ CallsMatch /\ Unshared
  BY DEF IInv
<1>1. /\ Len(frames) \in Nat \ {0} /\ frames' \in Seq(Frames) /\ Len(frames') = Len(frames) - 1
      /\ \A k \in 1 .. Len(frames') : frames'[k] = frames[k]
      /\ ~frames[Len(frames)].calling
  BY <1>0, StateTyped, StackFacts DEF Idle
<1>2. /\ \A k \in 1 .. Len(frames) : k = Len(frames) \/ k \in 1 .. Len(frames')
      /\ 1 .. Len(frames') \subseteq 1 .. Len(frames)
      /\ \A k \in 1 .. Len(frames') : k # Len(frames)
  BY <1>1
<1>3. TypeOK'
  BY <1>0, <1>1 DEF TypeOK, Untouched
<1>4. FramesNest'
  BY <1>0, <1>1, <1>2 DEF FramesNest, Untouched
<1>5. CallsMatch'
  <2>1. \A k \in 1 .. Len(frames') : InCall(k)' =>
          k \in 1 .. Len(frames) /\ InCall(k) /\ frames'[k].at = frames[k].at
    BY <1>1, <1>2 DEF InCall
  <2>2. \A k \in 1 .. Len(frames) : InCall(k) =>
          k \in 1 .. Len(frames') /\ InCall(k)' /\ frames'[k].at = frames[k].at
    BY <1>1, <1>2 DEF InCall
  <2> QED
    BY <1>0, <2>1, <2>2, CallsKept DEF Untouched
<1>6. Unshared'
  <2>1. ~SharesClear => NoneStale'
    BY <1>0, <1>1, <1>2 DEF Unshared, NoneStale
  <2> QED
    BY <1>0, <2>1, UntouchedKept DEF Unshared, ClearIsOurs, SharesClear, Untouched
<1> QED
  BY <1>3, <1>4, <1>5, <1>6, UntouchedKept DEF IInv

-----------------------------------------------------------------------------
(* The walk *)

LEMMA FrameMoves ==
  ASSUME NEW g \in Frames, g.at <= MaxTasks
  PROVE  LET f == [g EXCEPT !.at = @ + 1, !.calling = FALSE]
         IN  /\ f \in Frames /\ f.at = g.at + 1 /\ f.calling = FALSE
             /\ f.last = g.last /\ f.stale = g.stale
<1> DEFINE h == [g EXCEPT !.at = g.at + 1]
           f == [h EXCEPT !.calling = FALSE]
<1>1. g.at + 1 \in 1 .. MaxTasks + 1
  BY FrameTyped
<1>2. /\ h \in Frames /\ h.at = g.at + 1 /\ h.last = g.last /\ h.stale = g.stale
  BY <1>1 DEF Frames
<1>3. [g EXCEPT !.at = @ + 1, !.calling = FALSE] = f
  OBVIOUS
<1>4. /\ f \in Frames /\ f.at = h.at /\ f.calling = FALSE /\ f.last = h.last /\ f.stale = h.stale
  <2> HIDE DEF h
  <2> QED
    BY <1>2 DEF Frames
<1> QED
  BY <1>2, <1>3, <1>4

LEMMA FrameCalls ==
  ASSUME NEW g \in Frames
  PROVE  LET f == [g EXCEPT !.calling = TRUE]
         IN  /\ f \in Frames /\ f.at = g.at /\ f.calling = TRUE
             /\ f.last = g.last /\ f.stale = g.stale
BY DEF Frames

\* The frame that walks has its vector, and no clear waits for it.
LEMMA Walking ==
  ASSUME IInv, ~Idle
  PROVE  /\ frames # <<>> /\ Frame \in Frames /\ Frame = frames[Len(frames)]
         /\ Len(frames) \in 1 .. Len(frames)
         /\ ~Frame.calling /\ ~Frame.stale /\ Frame.last <= n
         /\ ~SharesClear => ~deferred
         /\ Frame.at <= Frame.last => Frame.at \in 1 .. n /\ Frame.at \in Slot /\ Frame.at <= MaxTasks
<1>0. TypeOK /\ FramesNest /\ Unshared
  BY DEF IInv
<1>1. frames # <<>> /\ ~Frame.calling
  BY DEF Idle
<1>2. /\ Len(frames) \in Nat \ {0} /\ Len(frames) \in 1 .. Len(frames)
      /\ Frame \in Frames /\ Frame = frames[Len(frames)]
  BY <1>0, <1>1, StateTyped, StackFacts
<1>3. ~Frame.stale /\ Frame.last <= n
  BY <1>0, <1>1, <1>2 DEF FramesNest
<1>4. ~SharesClear => ~deferred
  BY <1>0, <1>1, <1>2 DEF Unshared, ClearIsOurs
<1>5. Frame.at <= Frame.last => Frame.at \in 1 .. n /\ Frame.at \in Slot /\ Frame.at <= MaxTasks
  BY <1>0, <1>2, <1>3, StateTyped, FrameTyped DEF Slot
<1> QED
  BY <1>1, <1>2, <1>3, <1>4, <1>5

\* The last frame goes on as f.
LEMMA NestKept ==
  ASSUME IInv, frames # <<>>, NEW f \in Frames, frames' = Append(Outer, f),
         ~f.stale, f.last <= n, f.calling => f.at <= f.last,
         UNCHANGED n, deferred' \in {FALSE, deferred}
  PROVE  /\ frames' \in Seq(Frames) /\ Len(frames') = Len(frames)
         /\ frames'[Len(frames)] = f /\ Len(frames) \in 1 .. Len(frames)
         /\ \A k \in 1 .. Len(frames) : k # Len(frames) => frames'[k] = frames[k]
         /\ FramesNest'
         /\ NoneStale => NoneStale'
<1>0. TypeOK /\ FramesNest
  BY DEF IInv
<1>1. /\ frames' \in Seq(Frames) /\ Len(frames') = Len(frames)
      /\ frames'[Len(frames)] = f /\ Len(frames) \in 1 .. Len(frames)
      /\ \A k \in 1 .. Len(frames) : k # Len(frames) => frames'[k] = frames[k]
  BY <1>0, StateTyped, StackFacts, TopReplaced
<1>2. ASSUME NEW k \in 1 .. Len(frames')
      PROVE  /\ k # Len(frames') \/ frames'[k].stale => frames'[k].calling
             /\ ~frames'[k].stale =>
                  frames'[k].last <= n' /\ (frames'[k].calling => frames'[k].at <= frames'[k].last)
  <2>1. CASE k = Len(frames)
    BY <2>1, <1>1
  <2>2. CASE k # Len(frames)
    BY <2>2, <1>0, <1>1 DEF FramesNest
  <2> QED
    BY <2>1, <2>2
<1>3. frames' # <<>>
  BY <1>1, EmptySeq
<1>4. FramesNest'
  BY <1>2, <1>3 DEF FramesNest
<1>5. NoneStale => NoneStale'
  BY <1>1 DEF NoneStale
<1> QED
  BY <1>1, <1>4, <1>5

LEMMA PassesOver ==
  ASSUME IInv, ~Idle, Frame.at <= Frame.last, NextTask(task),
         UNCHANGED <<active, hint, open, booked>>
  PROVE  IInv'
<1> DEFINE f == [Frame EXCEPT !.at = @ + 1, !.calling = FALSE]
<1>0. TypeOK /\ FramesNest /\ CallsMatch /\ Unshared
  BY DEF IInv
<1>1. /\ f \in Frames /\ ~f.stale /\ f.last <= n /\ f.calling = FALSE
      /\ ~InCall(Len(frames)) /\ frames # <<>>
  BY Walking, FrameMoves DEF InCall
<1>2. frames' = Append(Outer, f) /\ Untouched /\ open' = open
  BY DEF NextTask, Untouched
<1> HIDE DEF f
<1>3. /\ frames' \in Seq(Frames) /\ Len(frames') = Len(frames)
      /\ frames'[Len(frames)] = f /\ Len(frames) \in 1 .. Len(frames)
      /\ \A k \in 1 .. Len(frames) : k # Len(frames) => frames'[k] = frames[k]
      /\ FramesNest' /\ (NoneStale => NoneStale')
  BY <1>1, <1>2, NestKept DEF Untouched
<1>4. TypeOK'
  BY <1>0, <1>2, <1>3 DEF TypeOK, Untouched
<1>5. CallsMatch'
  <2>1. \A k \in 1 .. Len(frames') : InCall(k)' =>
          k \in 1 .. Len(frames) /\ InCall(k) /\ frames'[k].at = frames[k].at
    BY <1>1, <1>3 DEF InCall
  <2>2. \A k \in 1 .. Len(frames) : InCall(k) =>
          k \in 1 .. Len(frames') /\ InCall(k)' /\ frames'[k].at = frames[k].at
    BY <1>1, <1>3 DEF InCall
  <2> QED
    BY <1>0, <1>2, <2>1, <2>2, CallsKept DEF Untouched
<1>6. Unshared'
  BY <1>0, <1>2, <1>3, UntouchedKept, Walking DEF Unshared, ClearIsOurs, SharesClear, Untouched
<1> QED
  BY <1>2, <1>3, <1>4, <1>5, <1>6, UntouchedKept DEF IInv

\* With a clear put off the bookings are void, so LeaveFrame wipes.
LEMMA LeavesOrWipes ==
  ASSUME IInv, frames # <<>>, NEW t, LeaveFrame(t), deferred,
         booked' \in {booked, [d \in Ids |-> 0]}, UNCHANGED <<active, hint, open>>
  PROVE  IInv'
<1>1. booked = [d \in Ids |-> 0]
  BY DEF IInv, BookingsKept, TypeOK
<1>2. Wipe
  BY <1>1 DEF LeaveFrame, Wipe
<1> QED
  BY <1>2, WipeKept

LEMMA EndFrameKept ==
  ASSUME IInv, EndFrame
  PROVE  IInv'
<1>1. ~Idle /\ LeaveFrame(task) /\ UNCHANGED <<active, hint, open, booked>> /\ frames # <<>>
  BY DEF EndFrame, Idle
<1>2. CASE deferred
  BY <1>1, <1>2, LeavesOrWipes
<1>3. CASE ~deferred
  <2>1. frames' = Outer /\ Untouched
    BY <1>1, <1>3 DEF LeaveFrame, Untouched
  <2> QED
    BY <1>1, <1>3, <2>1, FrameEnds
<1> QED
  BY <1>2, <1>3

LEMMA PassKept ==
  ASSUME IInv, Pass
  PROVE  IInv'
<1>1. ~Idle /\ UNCHANGED <<active, hint, open, booked>> /\ frames # <<>> /\ Frame.at <= Frame.last
  BY DEF Pass, Idle
<1>2. CASE deferred /\ LeaveFrame(task)
  BY <1>1, <1>2, LeavesOrWipes
<1>3. CASE NextTask(task)
  BY <1>1, <1>3, PassesOver
<1> QED
  BY <1>2, <1>3 DEF Pass

-----------------------------------------------------------------------------
(* Calls and their ends *)

LEMMA CallKept ==
  ASSUME IInv, Call
  PROVE  IInv'
<1> DEFINE i == Frame.at
           f == [Frame EXCEPT !.calling = TRUE]
           e == Entered(task[i])
<1>0. TypeOK /\ FramesNest /\ CallsMatch /\ BlankBeyond /\ HintSkipsNoFreeSlot
      /\ CallsCounted /\ BookingsKept /\ Unshared
  BY DEF IInv
<1>1. /\ ~Idle /\ i <= Frame.last /\ ~task[i].free /\ ~task[i].inExec
      /\ task' = [task EXCEPT ![i] = e] /\ frames' = Append(Outer, f)
      /\ UNCHANGED <<n, active, hint, deferred, open, booked, lost>>
  BY DEF Call
<1>2. /\ i \in Slot /\ i \in 1 .. n /\ frames # <<>> /\ Frame = frames[Len(frames)]
      /\ f \in Frames /\ f.at = i /\ f.calling = TRUE /\ ~f.stale /\ f.last <= n
      /\ f.at <= f.last /\ ~InCall(Len(frames)) /\ (~SharesClear => ~deferred)
  BY <1>1, Walking, FrameCalls DEF InCall
<1>3. /\ e \in Tasks /\ e.free = task[i].free /\ e.inExec /\ e.id = task[i].id /\ Counted(e)
  BY <1>0, <1>1, <1>2, StateTyped, EnteredFacts DEF CallsCounted
<1> HIDE DEF f, e, i
<1>4. /\ task' \in [Slot -> Tasks] /\ task'[i] = e
      /\ \A j \in Slot : j # i => task'[j] = task[j]
  BY <1>0, <1>1, <1>2, <1>3 DEF TypeOK
<1>5. /\ frames' \in Seq(Frames) /\ Len(frames') = Len(frames)
      /\ frames'[Len(frames)] = f /\ Len(frames) \in 1 .. Len(frames)
      /\ \A k \in 1 .. Len(frames) : k # Len(frames) => frames'[k] = frames[k]
      /\ FramesNest' /\ (NoneStale => NoneStale')
  BY <1>1, <1>2, NestKept
<1>6. TypeOK'
  BY <1>0, <1>1, <1>4, <1>5 DEF TypeOK
<1>7. CallsMatch'
  <2>1. /\ InCall(Len(frames))'
        /\ \A k \in 1 .. Len(frames) : k # Len(frames) =>
             (InCall(k)' <=> InCall(k)) /\ frames'[k].at = frames[k].at
    BY <1>2, <1>5 DEF InCall
  <2>2. \A k \in 1 .. Len(frames) : InCall(k) => frames[k].at # i
    BY <1>0, <1>1, <1>2 DEF CallsMatch
  <2>3. ASSUME NEW j \in Slot
        PROVE  task'[j].inExec <=> \E k \in 1 .. Len(frames') : InCall(k)' /\ frames'[k].at = j
    <3>1. CASE j = i
      BY <3>1, <1>2, <1>3, <1>4, <1>5, <2>1
    <3>2. CASE j # i
      <4>1. task[j].inExec <=> \E k \in 1 .. Len(frames) : InCall(k) /\ frames[k].at = j
        BY <1>0 DEF CallsMatch
      <4>2. frames'[Len(frames)].at # j
        BY <3>2, <1>2, <1>5
      <4> QED
        BY <3>2, <4>1, <4>2, <1>2, <1>4, <1>5, <2>1
    <3> QED
      BY <3>1, <3>2
  <2>4. ASSUME NEW j \in 1 .. Len(frames'), NEW k \in 1 .. Len(frames'),
               InCall(j)', InCall(k)', frames'[j].at = frames'[k].at
        PROVE  j = k
    <3>1. CASE j # Len(frames) /\ k # Len(frames)
      BY <3>1, <2>1, <2>4, <1>0, <1>5 DEF CallsMatch
    <3>2. CASE j = Len(frames) \/ k = Len(frames)
      BY <3>2, <2>1, <2>2, <2>4, <1>2, <1>5
    <3> QED
      BY <3>1, <3>2
  <2> QED
    BY <2>3, <2>4 DEF CallsMatch
<1>8. \A j \in Slot : /\ task'[j].free = task[j].free /\ task'[j].id = task[j].id
                      /\ j # i => task'[j] = task[j]
  BY <1>3, <1>4
<1>9. Taken' = Taken /\ Set' = Set /\ (\A d \in Ids : TasksOf(d)' = TasksOf(d))
  <2>1. Taken' = Taken
    BY <1>1, <1>2, <1>3, <1>4 DEF Taken
  <2> QED
    BY <2>1, <1>8 DEF Set, TasksOf
<1>10. BlankBeyond'
  <2>1. ~(i > n)
    <3>1. n \in Nat
      BY <1>0, StateTyped
    <3> QED
      BY <3>1, <1>2
  <2> QED
    BY <2>1, <1>0, <1>1, <1>8 DEF BlankBeyond
<1>11. HintSkipsNoFreeSlot'
  <2>1. 1 .. n \subseteq Slot
    BY <1>0, StateTyped
  <2> QED
    BY <2>1, <1>0, <1>1, <1>3, <1>4 DEF HintSkipsNoFreeSlot
<1>12. CallsCounted'
  BY <1>0, <1>3, <1>4 DEF CallsCounted
<1>13. BookingsKept'
  BY <1>0, <1>1, <1>9 DEF BookingsKept
<1>14. Unshared'
  BY <1>0, <1>1, <1>2, <1>5, <1>9 DEF Unshared, ClearIsOurs, CountExact, SharesClear
<1> QED
  BY <1>5, <1>6, <1>7, <1>10, <1>11, <1>12, <1>13, <1>14 DEF IInv

\* What is known of the task i a frame has dealt with, and of what it leaves there.
Dealt(i, after) ==
  /\ frames # <<>> /\ i = Frame.at /\ i \in Slot /\ i <= n
  /\ ~Frame.stale /\ Frame.last <= n /\ Frame.at <= MaxTasks
  /\ Frame.calling <=> task[i].inExec
  /\ ~task[i].free \/ task[i].inExec
  /\ after \in Tasks /\ ~after.inExec /\ Counted(after)
  /\ ~after.free => ~task[i].free /\ after.id = task[i].id

LEMMA DoneKept ==
  ASSUME IInv, NEW i, NEW after, Dealt(i, after), ~deferred,
         NextTask([task EXCEPT ![i] = after]),
         active' = IF after.free THEN Less(active, 1) ELSE active,
         hint' = IF after.free THEN LowerOf(hint, i) ELSE hint,
         booked' = IF ~task[i].free /\ after.free
                   THEN [booked EXCEPT ![task[i].id] = Less(@, 1)] ELSE booked,
         open' = open
  PROVE  IInv'
<1> DEFINE f == [Frame EXCEPT !.at = @ + 1, !.calling = FALSE]
<1>0. TypeOK /\ FramesNest /\ CallsMatch /\ BlankBeyond /\ HintSkipsNoFreeSlot
      /\ CallsCounted /\ BookingsKept /\ Unshared
  BY DEF IInv
<1>1. /\ task' = [task EXCEPT ![i] = after] /\ frames' = Append(Outer, f)
      /\ UNCHANGED <<n, deferred, lost>>
  BY DEF NextTask
<1>2. /\ i \in Slot /\ i \in 1 .. n /\ frames # <<>> /\ i \in Nat
      /\ Frame = frames[Len(frames)] /\ Frame \in Frames
      /\ f \in Frames /\ f.calling = FALSE /\ ~f.stale /\ f.last <= n
  <2>1. i \in Slot /\ i <= n /\ frames # <<>> /\ i = Frame.at /\ ~Frame.stale
        /\ Frame.last <= n /\ Frame.at <= MaxTasks
    BY DEF Dealt
  <2>2. Frame = frames[Len(frames)] /\ Frame \in Frames
    BY <1>0, <2>1, StateTyped, StackFacts
  <2>3. f \in Frames /\ f.calling = FALSE /\ f.stale = Frame.stale /\ f.last = Frame.last
    BY <2>1, <2>2, FrameMoves
  <2>4. i \in Nat /\ i \in 1 .. n
    <3>1. n \in Nat /\ i \in 1 .. MaxTasks
      BY <1>0, <2>1, StateTyped
    <3> QED
      BY <2>1, <3>1
  <2> QED
    BY <2>1, <2>2, <2>3, <2>4
<1> HIDE DEF f
<1>3. /\ task' \in [Slot -> Tasks] /\ task'[i] = after
      /\ \A j \in Slot : j # i => task'[j] = task[j]
  BY <1>0, <1>1, <1>2 DEF TypeOK, Dealt
<1>4. /\ frames' \in Seq(Frames) /\ Len(frames') = Len(frames)
      /\ frames'[Len(frames)] = f /\ Len(frames) \in 1 .. Len(frames)
      /\ \A k \in 1 .. Len(frames) : k # Len(frames) => frames'[k] = frames[k]
      /\ FramesNest' /\ (NoneStale => NoneStale')
  BY <1>1, <1>2, NestKept
<1>5. active \in Nat /\ active' \in Nat
  BY <1>0 DEF TypeOK, Less
<1>6. hint' \in 1 .. MaxTasks + 1 /\ hint' <= hint /\ (after.free => hint' <= i)
  BY <1>0, <1>2 DEF TypeOK, LowerOf, Slot
<1>7. CallsMatch'
  <2>1. /\ ~InCall(Len(frames))'
        /\ InCall(Len(frames)) <=> task[i].inExec
        /\ frames[Len(frames)].at = i
        /\ \A k \in 1 .. Len(frames) : k # Len(frames) =>
             (InCall(k)' <=> InCall(k)) /\ frames'[k].at = frames[k].at
    BY <1>2, <1>4 DEF InCall, Dealt
  <2>2. \A k \in 1 .. Len(frames) : k # Len(frames) /\ InCall(k) => frames[k].at # i
    BY <1>0, <1>2, <1>4, <2>1 DEF CallsMatch
  <2>3. ASSUME NEW j \in Slot
        PROVE  task'[j].inExec <=> \E k \in 1 .. Len(frames') : InCall(k)' /\ frames'[k].at = j
    <3>1. CASE j = i
      BY <3>1, <1>3, <1>4, <2>1, <2>2 DEF Dealt
    <3>2. CASE j # i
      <4>1. task[j].inExec <=> \E k \in 1 .. Len(frames) : InCall(k) /\ frames[k].at = j
        BY <1>0 DEF CallsMatch
      <4> QED
        BY <3>2, <4>1, <1>3, <1>4, <2>1
    <3> QED
      BY <3>1, <3>2
  <2>4. \A j, k \in 1 .. Len(frames') :
          InCall(j)' /\ InCall(k)' /\ frames'[j].at = frames'[k].at => j = k
    BY <1>0, <1>4, <2>1 DEF CallsMatch
  <2> QED
    BY <2>3, <2>4 DEF CallsMatch
<1>8. BlankBeyond'
  <2>1. ~(i > n)
    <3>1. n \in Nat
      BY <1>0, StateTyped
    <3> QED
      BY <3>1, <1>2
  <2> QED
    BY <2>1, <1>0, <1>1, <1>3 DEF BlankBeyond
<1>9. HintSkipsNoFreeSlot'
  <2>1. ASSUME NEW j \in 1 .. n', j < hint'  PROVE ~task'[j].free \/ task'[j].inExec
    <3>1. j \in Slot /\ j \in 1 .. n /\ n' = n /\ j \in Nat
      BY <1>0, <1>1, <2>1, StateTyped
    <3>2. hint \in Nat /\ hint' \in Nat
      BY <1>0, <1>6 DEF TypeOK
    <3>3. CASE j = i
      BY <3>1, <3>2, <3>3, <2>1, <1>3, <1>6
    <3>4. CASE j # i
      <4>1. j < hint
        BY <3>1, <3>2, <2>1, <1>6
      <4> QED
        BY <3>1, <3>4, <4>1, <1>0, <1>3 DEF HintSkipsNoFreeSlot
    <3> QED
      BY <3>3, <3>4
  <2> QED
    BY <2>1 DEF HintSkipsNoFreeSlot
<1>10. CallsCounted'
  BY <1>0, <1>3 DEF CallsCounted, Dealt
<1>11. booked' \in [Ids -> Nat] /\ BookingsKept'
  <2>1. \A d \in Ids : /\ booked[d] = Cardinality(TasksOf(d)) /\ booked[d] \in Nat
                       /\ IsFiniteSet(TasksOf(d))
    <3>1. \A d \in Ids : TasksOf(d) \in SUBSET Slot
      BY DEF TasksOf
    <3> QED
      BY <3>1, <1>0, Countable DEF BookingsKept, TypeOK
  <2>2. CASE ~task[i].free /\ after.free
    <3> DEFINE d0 == task[i].id
    <3>1. \A d \in Ids : TasksOf(d)' = IF d = d0 THEN TasksOf(d) \ {i} ELSE TasksOf(d)
      BY <2>2, <1>2, <1>3 DEF TasksOf
    <3>2. booked' = [booked EXCEPT ![d0] = Less(@, 1)]
      BY <2>2
    <3>3. ASSUME NEW d \in Ids  PROVE booked'[d] \in Nat /\ booked'[d] = Cardinality(TasksOf(d)')
      <4>1. CASE d = d0
        <5>1. i \in TasksOf(d)
          BY <4>1, <2>2, <1>2 DEF TasksOf
        <5>2. Cardinality(TasksOf(d) \ {i}) = booked[d] - 1 /\ booked[d] # 0
          BY <5>1, <2>1, FS_RemoveElement, FS_EmptySet
        <5>3. booked'[d] = Less(booked[d], 1)
          BY <4>1, <3>2, <1>0 DEF TypeOK
        <5>4. Less(booked[d], 1) = booked[d] - 1 /\ booked[d] - 1 \in Nat
          BY <5>2, <2>1 DEF Less
        <5> QED
          BY <4>1, <3>1, <5>2, <5>3, <5>4
      <4>2. CASE d # d0
        BY <4>2, <3>1, <3>2, <2>1, <1>0 DEF TypeOK
      <4> QED
        BY <4>1, <4>2
    <3>4. booked' \in [Ids -> Nat]
      <4>1. DOMAIN booked' = Ids /\ booked' = [d \in Ids |-> booked'[d]]
        BY <3>2, <1>0 DEF TypeOK
      <4> QED
        BY <4>1, <3>3
    <3> QED
      BY <3>3, <3>4, <1>1 DEF BookingsKept
  <2>3. CASE ~(~task[i].free /\ after.free)
    <3>1. booked' = booked
      BY <2>3
    <3>2. /\ after.free = task[i].free
          /\ ~after.free => after.id = task[i].id
      <4>1. after.free \in BOOLEAN /\ task[i].free \in BOOLEAN
        BY <1>0, <1>2, StateTyped, TypedFields DEF Dealt
      <4> QED
        BY <2>3, <4>1 DEF Dealt
    <3>3. \A d \in Ids : TasksOf(d)' = TasksOf(d)
      BY <3>2, <1>2, <1>3 DEF TasksOf
    <3> QED
      BY <3>1, <3>3, <1>0, <1>1 DEF BookingsKept, TypeOK
  <2> QED
    BY <2>2, <2>3
<1>12. TypeOK'
  BY <1>0, <1>1, <1>3, <1>4, <1>5, <1>6, <1>11 DEF TypeOK
<1>13. Unshared'
  <2> SUFFICES ASSUME ~SharesClear  PROVE NoneStale' /\ ClearIsOurs' /\ CountExact'
    BY DEF Unshared, SharesClear
  <2>1. NoneStale' /\ ClearIsOurs'
    BY <1>0, <1>1, <1>4 DEF Unshared, ClearIsOurs
  <2>2. /\ active = lost + Cardinality(Taken) /\ lost \in Nat
        /\ IsFiniteSet(Taken) /\ Cardinality(Taken) \in Nat /\ i \in Taken
    <3>1. Taken \in SUBSET Slot
      BY DEF Taken
    <3> QED
      BY <3>1, <1>0, <1>2, Countable DEF Unshared, CountExact, TypeOK, Taken, Dealt
  <2>3. Taken' = IF after.free THEN Taken \ {i} ELSE Taken
    BY <1>2, <1>3, <2>2 DEF Taken, Dealt
  <2>4. CASE after.free
    <3>1. Cardinality(Taken \ {i}) = Cardinality(Taken) - 1 /\ Cardinality(Taken) # 0
      BY <2>2, FS_RemoveElement, FS_EmptySet
    <3>2. active' = active - 1
      BY <2>2, <2>4, <3>1, <1>5 DEF Less
    <3>3. active' = lost + Cardinality(Taken \ {i})
      BY <2>2, <3>1, <3>2
    <3> QED
      BY <2>1, <2>3, <2>4, <3>3, <1>1 DEF CountExact
  <2>5. CASE ~after.free
    BY <2>1, <2>2, <2>3, <2>5, <1>1 DEF CountExact
  <2> QED
    BY <2>4, <2>5
<1> QED
  BY <1>4, <1>7, <1>8, <1>9, <1>10, <1>11, <1>12, <1>13 DEF IInv

LEMMA CompleteKept ==
  ASSUME IInv, NEW i, NEW t, Complete(i, t), Dealt(i, IF task[i].free THEN t ELSE Called(t))
  PROVE  IInv'
<1> DEFINE after == IF task[i].free THEN t ELSE Called(t)
<1>1. /\ booked' = IF ~task[i].free /\ after.free
                   THEN [booked EXCEPT ![task[i].id] = Less(@, 1)] ELSE booked
      /\ open' = open /\ Dealt(i, after) /\ frames # <<>>
  BY DEF Complete, Dealt
<1>2. CASE deferred
  <2>1. LeaveFrame([task EXCEPT ![i] = after]) /\ UNCHANGED <<active, hint, open>>
    BY <1>2 DEF Complete
  <2>2. booked = [d \in Ids |-> 0]
    BY <1>2 DEF IInv, BookingsKept, TypeOK
  <2>3. booked' \in {booked, [d \in Ids |-> 0]}
    <3>1. Less(0, 1) = 0
      BY DEF Less
    <3> HIDE DEF after
    <3> QED
      BY <1>1, <2>2, <3>1
  <2> HIDE DEF after
  <2> QED
    BY <1>1, <1>2, <2>1, <2>3, LeavesOrWipes
<1>3. CASE ~deferred
  <2>1. /\ NextTask([task EXCEPT ![i] = after])
        /\ active' = IF after.free THEN Less(active, 1) ELSE active
        /\ hint' = IF after.free THEN LowerOf(hint, i) ELSE hint
    BY <1>3 DEF Complete
  <2> HIDE DEF after
  <2> QED
    BY <1>1, <1>3, <2>1, DoneKept
<1> QED
  BY <1>2, <1>3

LEMMA SkipKept ==
  ASSUME IInv, Skip
  PROVE  IInv'
<1> DEFINE i == Frame.at
           after == Called(task[i])
<1>1. /\ ~Idle /\ i <= Frame.last /\ ~task[i].free /\ ~task[i].inExec /\ Void(i)
      /\ Complete(i, task[i])
  BY DEF Skip
<1>2. /\ frames # <<>> /\ i \in Slot /\ i \in 1 .. n /\ i <= MaxTasks
      /\ ~Frame.calling /\ ~Frame.stale /\ Frame.last <= n
  BY <1>1, Walking
<1>3. task[i] \in Tasks
  BY <1>2, StateTyped DEF IInv
<1>4. after = Cleared(task[i])
  BY <1>1, <1>3, VoidIsOver DEF Void
<1>5. after \in Tasks /\ after.free /\ ~after.inExec
  BY <1>1, <1>3, <1>4, ClearedFacts
<1>6. Counted(after)
  BY <1>5 DEF Counted
<1>7. Dealt(i, IF task[i].free THEN task[i] ELSE after)
  <2> HIDE DEF after
  <2> QED
    BY <1>1, <1>2, <1>5, <1>6 DEF Dealt
<1> HIDE DEF i
<1> QED
  BY <1>1, <1>7, CompleteKept

LEMMA ReturnKept ==
  ASSUME IInv, Return
  PROVE  IInv'
<1> DEFINE i == Frame.at
           t == [task[i] EXCEPT !.inExec = FALSE]
           after == IF task[i].free THEN t ELSE Called(t)
<1>0. TypeOK /\ FramesNest /\ CallsMatch /\ CallsCounted
  BY DEF IInv
<1>1. frames # <<>> /\ Frame.calling /\ ~Frame.stale /\ Complete(i, t)
  BY DEF Return
<1>2. /\ Len(frames) \in 1 .. Len(frames) /\ Frame = frames[Len(frames)] /\ Frame \in Frames
  BY <1>0, <1>1, StateTyped, StackFacts
<1>3. i <= Frame.last /\ Frame.last <= n
  BY <1>0, <1>1, <1>2 DEF FramesNest
<1>4. i \in Slot /\ i <= n /\ i <= MaxTasks
  BY <1>0, <1>2, <1>3, StateTyped, FrameTyped DEF Slot
<1>5. task[i].inExec
  BY <1>0, <1>1, <1>2, <1>4 DEF CallsMatch, InCall
<1>6. task[i] \in Tasks /\ task[i].free \in BOOLEAN /\ Counted(task[i])
  BY <1>0, <1>4, StateTyped DEF CallsCounted
<1>7. /\ after \in Tasks /\ ~after.inExec /\ Counted(after)
      /\ ~after.free => ~task[i].free /\ after.id = task[i].id
  <2>1. CASE task[i].free
    <3>1. /\ t \in Tasks
          /\ t = TaskOf(task[i].free, FALSE, task[i].id, task[i].kind, task[i].loop, task[i].repeat,
                        task[i].base, task[i].wait, task[i].asked, task[i].called)
      BY <1>6, ExecChanged
    <3>2. t.free = task[i].free /\ t.inExec = FALSE
      <4> HIDE DEF t
      <4> QED
        BY <3>1 DEF TaskOf
    <3> HIDE DEF t
    <3> QED
      BY <2>1, <3>1, <3>2 DEF Counted
  <2>2. CASE ~task[i].free
    <3>1. LET c == Called(t)
          IN  c \in Tasks /\ ~c.inExec /\ Counted(c) /\ (~c.free => c.id = task[i].id)
      BY <2>2, <1>5, <1>6, CalledFacts
    <3>2. after = Called(t)
      BY <2>2
    <3> HIDE DEF after, t
    <3> QED
      BY <2>2, <3>1, <3>2
  <2> QED
    BY <2>1, <2>2
<1>8. Dealt(i, after)
  <2> HIDE DEF after
  <2> QED
    BY <1>1, <1>3, <1>4, <1>5, <1>7 DEF Dealt
<1> HIDE DEF i, t
<1> QED
  BY <1>1, <1>8, CompleteKept

-----------------------------------------------------------------------------
(* Steps that leave the frames alone *)

\* The vector may grow under the frames, and tasks may come and go, as long as the
\* executing ones stay what they are.
LEMMA StackKept ==
  ASSUME IInv, UNCHANGED frames, n' \in Nat, n <= n' \/ frames = <<>>,
         deferred' => frames # <<>>,
         \A i \in Slot : task'[i].inExec = task[i].inExec
  PROVE  FramesNest' /\ CallsMatch' /\ (NoneStale => NoneStale')
<1>0. TypeOK /\ FramesNest /\ CallsMatch
  BY DEF IInv
<1>1. FramesNest'
  <2>1. ASSUME NEW k \in 1 .. Len(frames), ~frames[k].stale  PROVE frames[k].last <= n'
    <3>1. frames # <<>>
      BY EmptySeq, <1>0 DEF TypeOK
    <3>2. frames[k].last <= n /\ n <= n' /\ n \in Nat /\ frames[k].last \in 0 .. MaxTasks
      BY <1>0, <2>1, <3>1, StateTyped DEF FramesNest
    <3> QED
      BY <3>2
  <2> QED
    BY <1>0, <2>1 DEF FramesNest
<1>2. CallsMatch'
  BY <1>0, CallsKept DEF InCall
<1>3. NoneStale => NoneStale'
  BY DEF NoneStale
<1> QED
  BY <1>1, <1>2, <1>3

\* Only times change, if anything.
LEMMA TimesChange ==
  ASSUME IInv, UNCHANGED <<n, active, hint, deferred, frames, booked, lost>>,
         open' \subseteq {"start", "end"}, task' \in [Slot -> Tasks],
         \A i \in Slot :
           /\ task'[i].free = task[i].free /\ task'[i].inExec = task[i].inExec
           /\ task'[i].id = task[i].id /\ task'[i].loop = task[i].loop
           /\ task'[i].repeat = task[i].repeat /\ task'[i].asked = task[i].asked
           /\ task'[i].called = task[i].called
  PROVE  IInv'
<1>0. TypeOK /\ FramesNest /\ BlankBeyond /\ HintSkipsNoFreeSlot /\ CallsCounted
      /\ BookingsKept /\ Unshared
  BY DEF IInv
<1>1. TypeOK'
  BY <1>0 DEF TypeOK
<1>2. FramesNest' /\ CallsMatch' /\ (NoneStale => NoneStale')
  BY <1>0, StateTyped, StackKept DEF FramesNest
<1>3. BlankBeyond' /\ CallsCounted'
  BY <1>0 DEF BlankBeyond, CallsCounted, Counted, Left
<1>4. HintSkipsNoFreeSlot'
  <2>1. 1 .. n \subseteq Slot
    BY <1>0, StateTyped
  <2> QED
    BY <1>0, <2>1 DEF HintSkipsNoFreeSlot
<1>5. Taken' = Taken /\ Set' = Set /\ (\A d \in Ids : TasksOf(d)' = TasksOf(d))
  BY SetsKept
<1>6. BookingsKept'
  BY <1>0, <1>5 DEF BookingsKept
<1>7. Unshared'
  BY <1>0, <1>2, <1>5 DEF Unshared, ClearIsOurs, CountExact, SharesClear
<1> QED
  BY <1>1, <1>2, <1>3, <1>4, <1>6, <1>7 DEF IInv

LEMMA StutterKept ==
  ASSUME IInv, UNCHANGED vars
  PROVE  IInv'
<1>1. TypeOK
  BY DEF IInv
<1>2. /\ UNCHANGED <<n, active, hint, deferred, frames, booked, lost>>
      /\ task' = task /\ open' = open
  BY DEF vars
<1>3. open' \subseteq {"start", "end"} /\ task' \in [Slot -> Tasks]
  BY <1>1, <1>2 DEF TypeOK
<1> QED
  BY <1>2, <1>3, TimesChange

LEMMA EventKept ==
  ASSUME IInv, Event
  PROVE  IInv'
<1>1. open' \subseteq {"start", "end"}
  BY DEF Event, EventKinds
<1>2. UNCHANGED <<n, task, active, hint, deferred, frames, booked, lost>>
  BY DEF Event
<1> QED
  BY <1>1, <1>2, TimesChange DEF IInv, TypeOK

LEMMA TickKept ==
  ASSUME IInv, Tick
  PROVE  IInv'
<1> DEFINE Ticks(i) == Live(i) /\ task[i].kind = "timed"
           after(i) == IF Ticks(i) THEN [task[i] EXCEPT !.wait = @ - 1] ELSE task[i]
<1>1. /\ task' = [i \in Slot |-> after(i)]
      /\ UNCHANGED <<n, active, hint, deferred, frames, open, booked, lost>>
  BY DEF Tick
<1>2. ASSUME NEW i \in Slot
      PROVE  /\ after(i) \in Tasks
             /\ after(i).free = task[i].free /\ after(i).inExec = task[i].inExec
             /\ after(i).id = task[i].id /\ after(i).loop = task[i].loop
             /\ after(i).repeat = task[i].repeat /\ after(i).asked = task[i].asked
             /\ after(i).called = task[i].called
  <2> DEFINE t == task[i]
             c == [t EXCEPT !.wait = t.wait - 1]
  <2>1. t \in Tasks /\ t.wait - 1 \in Int
    BY StateTyped, TypedFields DEF IInv
  <2>2. /\ c \in Tasks
        /\ c = TaskOf(t.free, t.inExec, t.id, t.kind, t.loop, t.repeat, t.base, t.wait - 1,
                      t.asked, t.called)
    <3> HIDE DEF t
    <3> QED
      BY <2>1, WaitChanged
  <2>3. after(i) = c \/ after(i) = t
    OBVIOUS
  <2> HIDE DEF after, c
  <2> QED
    BY <2>1, <2>2, <2>3 DEF TaskOf
<1> HIDE DEF after
<1>3. task' \in [Slot -> Tasks] /\ \A i \in Slot : task'[i] = after(i)
  BY <1>1, <1>2
<1>4. open' \subseteq {"start", "end"}
  BY <1>1 DEF IInv, TypeOK
<1> QED
  BY <1>1, <1>2, <1>3, <1>4, TimesChange

LEMMA ChangeTasksKept ==
  ASSUME IInv, NEW S \in SUBSET Ids, NEW base \in Bases, ChangeTasks(S, base)
  PROVE  IInv'
<1> DEFINE b(i) == Interval(task[i].kind, base)
           changed(i) == [task[i] EXCEPT !.base = b(i), !.wait = IF task[i].inExec THEN @ ELSE b(i)]
           after(i) == IF i \in Matching(S) THEN changed(i) ELSE task[i]
<1>1. /\ task' = [i \in Slot |-> after(i)]
      /\ UNCHANGED <<n, active, hint, deferred, frames, open, booked, lost>>
  BY DEF ChangeTasks
<1>2. ASSUME NEW i \in Slot
      PROVE  /\ after(i) \in Tasks
             /\ after(i).free = task[i].free /\ after(i).inExec = task[i].inExec
             /\ after(i).id = task[i].id /\ after(i).loop = task[i].loop
             /\ after(i).repeat = task[i].repeat /\ after(i).asked = task[i].asked
             /\ after(i).called = task[i].called
  <2> DEFINE t == task[i]
             w == IF t.inExec THEN t.wait ELSE b(i)
             u == [t EXCEPT !.base = b(i)]
             c == [u EXCEPT !.wait = w]
  <2>1. t \in Tasks /\ b(i) \in Int /\ w \in Int
    BY StateTyped, TypedFields DEF IInv, Interval
  <2>2. /\ u \in Tasks
        /\ u = TaskOf(t.free, t.inExec, t.id, t.kind, t.loop, t.repeat, b(i), t.wait, t.asked, t.called)
    <3> HIDE DEF t, b
    <3> QED
      BY <2>1, BaseChanged
  <2>3. /\ c \in Tasks
        /\ c = TaskOf(u.free, u.inExec, u.id, u.kind, u.loop, u.repeat, u.base, w, u.asked, u.called)
    <3> HIDE DEF t, b, w, u
    <3> QED
      BY <2>1, <2>2, WaitChanged
  <2>4. changed(i) = c
    OBVIOUS
  <2>5. after(i) = c \/ after(i) = t
    BY <2>4
  <2> HIDE DEF after, c, u
  <2> QED
    BY <2>1, <2>2, <2>3, <2>5 DEF TaskOf
<1> HIDE DEF after
<1>3. task' \in [Slot -> Tasks] /\ \A i \in Slot : task'[i] = after(i)
  BY <1>1, <1>2
<1>4. open' \subseteq {"start", "end"}
  BY <1>1 DEF IInv, TypeOK
<1> QED
  BY <1>1, <1>2, <1>3, <1>4, TimesChange

-----------------------------------------------------------------------------
(* clear *)

LEMMA ClearKept ==
  ASSUME IInv, Clear
  PROVE  IInv'
<1>0. TypeOK /\ FramesNest /\ CallsMatch /\ Unshared
  BY DEF IInv
<1>1. /\ Idle /\ (Len(frames) > 1 => SharesClear)
      /\ active' = 0 /\ hint' = 1 /\ booked' = [d \in Ids |-> 0] /\ lost' = 0
      /\ UNCHANGED <<frames, open>>
  BY DEF Clear
<1>2. CASE frames = <<>>
  <2>1. /\ n' = 0 /\ task' = [i \in Slot |-> Blank] /\ deferred' = deferred
    BY <1>2 DEF Clear
  <2>2. /\ task' \in [Slot -> Tasks] /\ \A i \in Slot : task'[i].free /\ ~task'[i].inExec
    BY <2>1, BlankFacts
  <2>3. /\ ~deferred' /\ Len(frames) = 0
    BY <1>0, <1>2, <2>1, EmptySeq DEF FramesNest
  <2>4. \A i \in Slot : ~task[i].inExec
    BY <1>0, <2>3 DEF CallsMatch
  <2>5. \A i \in Slot : task'[i].inExec = task[i].inExec
    <3>1. \A i \in Slot : task[i].inExec \in BOOLEAN /\ task'[i].inExec \in BOOLEAN
      BY <1>0, <2>2, StateTyped, TypedFields
    <3> QED
      BY <2>2, <2>4, <3>1
  <2>6. FramesNest' /\ CallsMatch' /\ (NoneStale => NoneStale')
    BY <1>1, <1>2, <2>1, <2>3, <2>5, StackKept
  <2>7. Taken' = {} /\ (\A d \in Ids : TasksOf(d)' = {}) /\ Cardinality({}) = 0
    BY <2>2, FS_EmptySet DEF Taken, TasksOf
  <2>8. TypeOK'
    BY <1>0, <1>1, <2>1, <2>2 DEF TypeOK
  <2>9. BlankBeyond' /\ CallsCounted'
    BY <2>2 DEF BlankBeyond, CallsCounted, Counted
  <2>10. HintSkipsNoFreeSlot'
    <3>1. 1 .. n' = {}
      BY <2>1
    <3> QED
      BY <3>1 DEF HintSkipsNoFreeSlot
  <2>11. BookingsKept'
    BY <1>1, <2>3, <2>7 DEF BookingsKept
  <2>12. Unshared'
    BY <1>0, <1>1, <2>3, <2>6, <2>7 DEF Unshared, ClearIsOurs, CountExact, SharesClear
  <2> QED
    BY <2>6, <2>8, <2>9, <2>10, <2>11, <2>12 DEF IInv
<1>3. CASE frames # <<>>
  <2>1. /\ n' = n /\ task' = [i \in Slot |-> Cleared(task[i])] /\ deferred' = TRUE
    BY <1>3 DEF Clear
  <2>2. /\ task' \in [Slot -> Tasks]
        /\ \A i \in Slot : task'[i].free /\ task'[i].inExec = task[i].inExec
    <3>1. \A i \in Slot : /\ Cleared(task[i]) \in Tasks /\ Cleared(task[i]).free
                          /\ Cleared(task[i]).inExec = task[i].inExec
      BY <1>0, StateTyped, ClearedFacts
    <3> QED
      BY <2>1, <3>1
  <2>3. n' \in Nat /\ n <= n'
    BY <1>0, <2>1, StateTyped
  <2>4. FramesNest' /\ CallsMatch' /\ (NoneStale => NoneStale')
    BY <1>1, <1>3, <2>2, <2>3, StackKept
  <2>5. Set' = {} /\ Cardinality({}) = 0
    BY <2>2, FS_EmptySet DEF Set
  <2>6. TypeOK'
    BY <1>0, <1>1, <2>1, <2>2 DEF TypeOK
  <2>7. BlankBeyond'
    <3>1. BlankBeyond
      BY DEF IInv
    <3> QED
      BY <3>1, <2>1, <2>2 DEF BlankBeyond
  <2>8. CallsCounted'
    BY <2>2 DEF CallsCounted, Counted
  <2>9. HintSkipsNoFreeSlot'
    <3>1. \A i \in 1 .. n' : ~(i < hint')
      BY <1>1, <2>3
    <3> QED
      BY <3>1 DEF HintSkipsNoFreeSlot
  <2>10. BookingsKept'
    BY <1>1, <2>1 DEF BookingsKept
  <2>11. Unshared'
    <3> SUFFICES ASSUME ~SharesClear  PROVE NoneStale' /\ ClearIsOurs' /\ CountExact'
      BY DEF Unshared, SharesClear
    <3>1. Len(frames) = 1 /\ frames[1].calling
      <4>1. Len(frames) \in Nat \ {0} /\ Frame = frames[Len(frames)]
        BY <1>0, <1>3, StateTyped, StackFacts
      <4>2. Len(frames) = 1
        <5>1. ~(Len(frames) > 1)
          BY <1>1
        <5> QED
          BY <4>1, <5>1, OnlyOne
      <4>3. Frame.calling
        BY <1>1, <1>3 DEF Idle
      <4> QED
        BY <4>1, <4>2, <4>3
    <3>2. ClearIsOurs'
      BY <3>1, <1>1, <2>2 DEF ClearIsOurs
    <3>3. CountExact'
      BY <1>1, <2>1, <2>5 DEF CountExact
    <3> QED
      BY <1>0, <2>4, <3>2, <3>3 DEF Unshared
  <2> QED
    BY <2>4, <2>6, <2>7, <2>8, <2>9, <2>10, <2>11 DEF IInv
<1> QED
  BY <1>2, <1>3

-----------------------------------------------------------------------------
(* registerTask *)

LEMMA RegisterKept ==
  ASSUME IInv, NEW d \in Ids, NEW t \in Tasks, ~t.free, ~t.inExec, t.id = d, Counted(t),
         RegisterTask(t)
  PROVE  IInv'
<1>0. TypeOK /\ FramesNest /\ CallsMatch /\ BlankBeyond /\ HintSkipsNoFreeSlot
      /\ CallsCounted /\ BookingsKept /\ Unshared
  BY DEF IInv
<1>1. PICK i \in 1 .. n + 1 :
        /\ i <= MaxTasks
        /\ IF Reusable = {} THEN i = n + 1
                            ELSE i \in Reusable /\ \A j \in Reusable : i <= j
        /\ n' = IF i > n THEN i ELSE n
        /\ task' = [task EXCEPT ![i] = t]
        /\ hint' = i + 1
  BY DEF RegisterTask
<1>2. /\ active' = active + 1
      /\ booked' = IF deferred THEN booked ELSE [booked EXCEPT ![t.id] = @ + 1]
      /\ UNCHANGED <<deferred, frames, open, lost>>
  BY DEF RegisterTask
<1>3. /\ n \in Nat /\ n <= MaxTasks /\ hint \in Nat /\ 1 <= hint /\ active \in Nat
  BY <1>0 DEF TypeOK
<1>4. /\ i \in Nat /\ 1 <= i /\ i \in Slot /\ n' \in Nat /\ n <= n' /\ i <= n' /\ n' <= MaxTasks
  BY <1>1, <1>3 DEF Slot
<1>5. task[i].free /\ ~task[i].inExec
  <2>1. CASE Reusable = {}
    BY <2>1, <1>0, <1>1, <1>3, <1>4 DEF BlankBeyond
  <2>2. CASE Reusable # {}
    BY <2>2, <1>1 DEF Reusable
  <2> QED
    BY <2>1, <2>2
<1>6. /\ task' \in [Slot -> Tasks] /\ task'[i] = t /\ \A j \in Slot : j # i => task'[j] = task[j]
  BY <1>0, <1>1, <1>4 DEF TypeOK
<1>7. FramesNest' /\ CallsMatch' /\ (NoneStale => NoneStale')
  <2>1. \A j \in Slot : task'[j].inExec = task[j].inExec
    <3>1. task[i].inExec \in BOOLEAN /\ t.inExec \in BOOLEAN
      BY <1>0, <1>4, StateTyped, TypedFields
    <3> QED
      BY <3>1, <1>5, <1>6
  <2>2. deferred' => frames # <<>>
    BY <1>0, <1>2 DEF FramesNest
  <2> QED
    BY <1>2, <1>4, <2>1, <2>2, StackKept
<1>8. BlankBeyond'
  <2>1. ASSUME NEW j \in Slot, j > n'  PROVE task'[j].free /\ ~task'[j].inExec
    <3>1. j # i /\ j > n
      BY <2>1, <1>3, <1>4 DEF Slot
    <3> QED
      BY <3>1, <1>0, <1>6 DEF BlankBeyond
  <2> QED
    BY <2>1 DEF BlankBeyond
<1>9. HintSkipsNoFreeSlot'
  <2>1. ASSUME NEW j \in 1 .. n', j < hint'  PROVE ~task'[j].free \/ task'[j].inExec
    <3>1. j \in Slot /\ j \in Nat /\ 1 <= j /\ j <= i
      BY <2>1, <1>1, <1>4 DEF Slot
    <3>2. CASE j = i
      BY <3>2, <1>6
    <3>3. CASE j # i
      <4>1. j \in 1 .. n /\ j < i
        BY <3>1, <3>3, <1>1, <1>3
      <4>2. CASE j < hint
        BY <3>1, <3>3, <4>1, <4>2, <1>0, <1>6 DEF HintSkipsNoFreeSlot
      <4>3. CASE ~(j < hint)
        <5>1. j \notin Reusable
          BY <4>1, <1>1, <1>4
        <5>2. j \in hint .. n
          BY <4>1, <4>3, <1>3
        <5> QED
          BY <3>1, <3>3, <5>1, <5>2, <1>6 DEF Reusable
      <4> QED
        BY <4>2, <4>3
    <3> QED
      BY <3>2, <3>3
  <2> QED
    BY <2>1 DEF HintSkipsNoFreeSlot
<1>10. CallsCounted'
  BY <1>0, <1>6 DEF CallsCounted
<1>11. booked' \in [Ids -> Nat] /\ BookingsKept'
  <2>1. CASE deferred
    BY <2>1, <1>0, <1>2 DEF BookingsKept, TypeOK
  <2>2. CASE ~deferred
    <3>1. booked' = [booked EXCEPT ![d] = booked[d] + 1]
      BY <2>2, <1>2
    <3>2. booked' \in [Ids -> Nat] /\ \A c \in Ids : booked'[c] = IF c = d THEN booked[c] + 1 ELSE booked[c]
      BY <3>1, <1>0 DEF TypeOK
    <3>3. \A c \in Ids : TasksOf(c)' = IF c = d THEN TasksOf(c) \cup {i} ELSE TasksOf(c)
      BY <1>4, <1>5, <1>6 DEF TasksOf
    <3>4. \A c \in Ids : booked[c] = Cardinality(TasksOf(c))
      BY <2>2, <1>0 DEF BookingsKept
    <3>5. /\ Cardinality(TasksOf(d) \cup {i}) = Cardinality(TasksOf(d)) + 1
      <4>1. TasksOf(d) \in SUBSET Slot /\ i \notin TasksOf(d)
        BY <1>5 DEF TasksOf
      <4> QED
        BY <4>1, Countable, FS_AddElement
    <3> QED
      BY <2>2, <3>2, <3>3, <3>4, <3>5, <1>2 DEF BookingsKept
  <2> QED
    BY <2>1, <2>2
<1>12. TypeOK'
  BY <1>0, <1>1, <1>2, <1>3, <1>4, <1>6, <1>11 DEF TypeOK, Slot
<1>13. Unshared'
  <2> SUFFICES ASSUME ~SharesClear  PROVE NoneStale' /\ ClearIsOurs' /\ CountExact'
    BY DEF Unshared, SharesClear
  <2>1. ClearIsOurs'
    BY <1>0, <1>2, <1>6 DEF Unshared, ClearIsOurs
  <2>2. /\ Taken' = Taken \cup {i} /\ Set' = Set \cup {i} /\ i \notin Taken /\ i \notin Set
    BY <1>4, <1>5, <1>6 DEF Taken, Set
  <2>3. /\ Taken \in SUBSET Slot /\ Set \in SUBSET Slot
    BY DEF Taken, Set
  <2>4. /\ Cardinality(Taken') = Cardinality(Taken) + 1 /\ Cardinality(Taken) \in Nat
        /\ Cardinality(Set') = Cardinality(Set) + 1 /\ Cardinality(Set) \in Nat
    BY <2>2, <2>3, Countable, FS_AddElement
  <2>5. lost \in Nat
    BY <1>0 DEF TypeOK
  <2>6. CountExact'
    BY <2>4, <2>5, <1>0, <1>2 DEF Unshared, CountExact
  <2> QED
    BY <1>0, <1>7, <2>1, <2>6 DEF Unshared
<1> QED
  BY <1>7, <1>8, <1>9, <1>10, <1>11, <1>12, <1>13 DEF IInv

LEMMA SetTaskKept ==
  ASSUME IInv, NEW d \in Ids, SetTask(d)
  PROVE  IInv'
<1>1. PICK kind \in Kinds[d], base \in Bases, flag \in {"once", "a", "b"} :
        \E repeat \in (IF flag = "a" THEN Repeats ELSE {0}) :
          RegisterTask(NewTask(d, kind, base, flag, repeat))
  BY DEF SetTask
<1>2. PICK repeat \in (IF flag = "a" THEN Repeats ELSE {0}) :
        RegisterTask(NewTask(d, kind, base, flag, repeat))
  BY <1>1
<1>3. repeat \in Int
  OBVIOUS
<1> DEFINE t == NewTask(d, kind, base, flag, repeat)
<1>4. t \in Tasks /\ ~t.free /\ ~t.inExec /\ t.id = d /\ Counted(t) /\ RegisterTask(t)
  BY <1>2, <1>3, NewTaskFacts
<1> HIDE DEF t
<1> QED
  BY <1>4, RegisterKept

-----------------------------------------------------------------------------
(* removeTasks *)

LEMMA RemoveTasksKept ==
  ASSUME IInv, NEW S \in SUBSET Ids, RemoveTasks(S)
  PROVE  IInv'
<1> DEFINE M == Matching(S)
           N == {i \in M : ~task[i].inExec}
<1>0. TypeOK /\ FramesNest /\ CallsMatch /\ BlankBeyond /\ HintSkipsNoFreeSlot
      /\ CallsCounted /\ BookingsKept /\ Unshared
  BY DEF IInv
<1>1. /\ task' = [i \in Slot |-> IF i \in M THEN Cleared(task[i]) ELSE task[i]]
      /\ active' = Less(active, Cardinality(N))
      /\ booked' = [d \in Ids |-> IF d \in S THEN 0 ELSE booked[d]]
      /\ UNCHANGED <<n, deferred, frames, open, lost>>
  BY DEF RemoveTasks
<1>2. PICK low \in M : hint' = LowerOf(hint, low) /\ \A j \in M : low <= j
  BY DEF RemoveTasks
<1>3. /\ M \in SUBSET Slot /\ N \in SUBSET M
      /\ \A i \in Slot : i \in M <=> ~task[i].free /\ task[i].id \in S
  <2>1. \A i \in Slot : i <= n <=> ~(i > n)
    BY <1>0, StateTyped DEF Slot
  <2> QED
    BY <2>1, <1>0 DEF Matching, Live, BlankBeyond
<1> HIDE DEF M, N
<1>4. /\ task' \in [Slot -> Tasks]
      /\ \A i \in M : task'[i].free /\ task'[i].inExec = task[i].inExec
      /\ \A i \in Slot : i \notin M => task'[i] = task[i]
  <2>1. \A i \in Slot : /\ task[i] \in Tasks /\ Cleared(task[i]) \in Tasks /\ Cleared(task[i]).free
                        /\ Cleared(task[i]).inExec = task[i].inExec
    BY <1>0, StateTyped, ClearedFacts
  <2> QED
    BY <2>1, <1>1, <1>3
<1>5. /\ n \in Nat /\ active \in Nat /\ hint \in Nat /\ hint <= MaxTasks + 1 /\ 1 <= hint
      /\ lost \in Nat /\ low \in Nat /\ 1 <= low
  BY <1>0, <1>3 DEF TypeOK, Slot
<1>6. hint' \in Nat /\ 1 <= hint' /\ hint' <= hint /\ hint' <= low
  BY <1>2, <1>5 DEF LowerOf
<1>7. FramesNest' /\ CallsMatch' /\ (NoneStale => NoneStale')
  <2>1. n' \in Nat /\ n <= n'
    BY <1>1, <1>5
  <2>2. deferred' => frames # <<>>
    BY <1>0, <1>1 DEF FramesNest
  <2>3. \A i \in Slot : task'[i].inExec = task[i].inExec
    BY <1>4
  <2> QED
    BY <1>1, <2>1, <2>2, <2>3, StackKept
<1>8. BlankBeyond'
  BY <1>0, <1>1, <1>4 DEF BlankBeyond
<1>9. HintSkipsNoFreeSlot'
  <2>1. ASSUME NEW j \in 1 .. n', j < hint'  PROVE ~task'[j].free \/ task'[j].inExec
    <3>1. j \in Slot /\ j \in 1 .. n /\ j \in Nat
      BY <1>0, <1>1, StateTyped
    <3>2. j < hint /\ ~(low <= j)
      BY <2>1, <3>1, <1>5, <1>6
    <3>3. j \notin M
      BY <3>2, <1>2
    <3> QED
      BY <3>1, <3>2, <3>3, <1>0, <1>4 DEF HintSkipsNoFreeSlot
  <2> QED
    BY <2>1 DEF HintSkipsNoFreeSlot
<1>10. CallsCounted'
  BY <1>0, <1>3, <1>4 DEF CallsCounted, Counted
<1>11. booked' \in [Ids -> Nat] /\ BookingsKept'
  <2>1. booked' \in [Ids -> Nat]
    BY <1>0, <1>1 DEF TypeOK
  <2>2. ASSUME NEW d \in Ids
        PROVE  TasksOf(d)' = IF d \in S THEN {} ELSE TasksOf(d)
    BY <1>3, <1>4 DEF TasksOf
  <2>3. Cardinality({}) = 0
    BY FS_EmptySet
  <2> QED
    BY <2>1, <2>2, <2>3, <1>0, <1>1 DEF BookingsKept
<1>12. Cardinality(N) \in Nat /\ Less(active, Cardinality(N)) \in Nat
  BY <1>3, <1>5, Countable DEF Less
<1>13. TypeOK'
  <2>1. hint' \in 1 .. MaxTasks + 1
    BY <1>5, <1>6
  <2> QED
    BY <2>1, <1>0, <1>1, <1>4, <1>11, <1>12 DEF TypeOK
<1>14. Unshared'
  <2> SUFFICES ASSUME ~SharesClear  PROVE NoneStale' /\ ClearIsOurs' /\ CountExact'
    BY DEF Unshared, SharesClear
  <2>1. ClearIsOurs'
    <3>1. ASSUME deferred, NEW i \in Slot, task'[i].inExec  PROVE task'[i].free
      BY <3>1, <1>0, <1>3, <1>4 DEF Unshared, ClearIsOurs
    <3> QED
      BY <3>1, <1>0, <1>1 DEF Unshared, ClearIsOurs
  <2> DEFINE T == IF deferred THEN Set ELSE Taken
  <2>2. T' = T \ N /\ N \subseteq T
    <3>1. CASE deferred
      <4>1. N = M
        BY <3>1, <1>0, <1>3 DEF Unshared, ClearIsOurs, N
      <4>2. Set' = Set \ M /\ M \subseteq Set
        BY <1>3, <1>4 DEF Set
      <4> QED
        BY <3>1, <4>1, <4>2, <1>1
    <3>2. CASE ~deferred
      <4>1. Taken' = Taken \ N /\ N \subseteq Taken
        BY <1>3, <1>4 DEF Taken, N
      <4> QED
        BY <3>2, <4>1, <1>1
    <3> QED
      BY <3>1, <3>2
  <2>3. T \in SUBSET Slot
    BY DEF Taken, Set
  <2>4. active = lost + Cardinality(T) /\ (CountExact' <=> active' = lost' + Cardinality(T'))
    <3>1. active = lost + Cardinality(T)
      BY <1>0 DEF Unshared, CountExact
    <3>2. CountExact' <=> active' = lost' + Cardinality(T')
      BY DEF CountExact
    <3> QED
      BY <3>1, <3>2
  <2> HIDE DEF T
  <2>5. /\ Cardinality(T \ N) = Cardinality(T) - Cardinality(N)
        /\ Cardinality(N) <= Cardinality(T) /\ Cardinality(T) \in Nat
    <3>1. IsFiniteSet(T) /\ Cardinality(T) \in Nat /\ T \cap N = N
      BY <2>2, <2>3, Countable
    <3>2. Cardinality(T \ N) = Cardinality(T) - Cardinality(T \cap N)
      BY <3>1, FS_Difference
    <3>3. Cardinality(N) <= Cardinality(T)
      BY <3>1, <2>2, FS_Subset
    <3> QED
      BY <3>1, <3>2, <3>3
  <2>6. active' = lost' + Cardinality(T \ N)
    <3>1. Less(active, Cardinality(N)) = active - Cardinality(N)
      BY <1>5, <1>12, <2>4, <2>5 DEF Less
    <3> QED
      BY <3>1, <2>4, <2>5, <1>1, <1>5, <1>12
  <2> QED
    BY <1>0, <1>7, <2>1, <2>2, <2>4, <2>6 DEF Unshared
<1> QED
  BY <1>7, <1>8, <1>9, <1>10, <1>11, <1>13, <1>14 DEF IInv

-----------------------------------------------------------------------------
(* The invariant holds *)

LEMMA InitInv ==
  ASSUME Init
  PROVE  IInv
<1>1. /\ n = 0 /\ task = [i \in Slot |-> Blank] /\ active = 0 /\ hint = 1 /\ deferred = FALSE
      /\ frames = <<>> /\ open = {} /\ booked = [d \in Ids |-> 0] /\ lost = 0
  BY DEF Init
<1>2. task \in [Slot -> Tasks] /\ \A i \in Slot : task[i].free /\ ~task[i].inExec
  BY <1>1, BlankFacts
<1>3. frames \in Seq(Frames) /\ Len(frames) = 0 /\ 1 .. Len(frames) = {}
  <2>1. frames \in Seq(Frames) /\ Len(frames) = 0
    BY <1>1, EmptySeq
  <2> QED
    BY <2>1
<1>4. TypeOK
  <2>1. n \in 0 .. MaxTasks /\ hint \in 1 .. MaxTasks + 1 /\ active \in Nat /\ lost \in Nat
    BY <1>1
  <2>2. booked \in [Ids -> Nat] /\ deferred \in BOOLEAN /\ open \subseteq {"start", "end"}
    BY <1>1
  <2> QED
    BY <1>2, <1>3, <2>1, <2>2 DEF TypeOK
<1>5. FramesNest /\ CallsMatch
  BY <1>1, <1>2, <1>3 DEF FramesNest, CallsMatch
<1>6. BlankBeyond /\ CallsCounted
  BY <1>2 DEF BlankBeyond, CallsCounted, Counted
<1>7. HintSkipsNoFreeSlot
  <2>1. 1 .. n = {}
    BY <1>1
  <2> QED
    BY <2>1 DEF HintSkipsNoFreeSlot
<1>8. Taken = {} /\ (\A d \in Ids : TasksOf(d) = {}) /\ Cardinality({}) = 0
  BY <1>2, FS_EmptySet DEF Taken, TasksOf
<1>9. BookingsKept
  BY <1>1, <1>8 DEF BookingsKept
<1>10. Unshared
  BY <1>1, <1>3, <1>8 DEF Unshared, NoneStale, ClearIsOurs, CountExact
<1> QED
  BY <1>4, <1>5, <1>6, <1>7, <1>9, <1>10 DEF IInv

LEMMA NextInv ==
  ASSUME IInv, [Next]_vars
  PROVE  IInv'
<1>1. CASE \E d \in Ids : SetTask(d)
  BY <1>1, SetTaskKept
<1>2. CASE \E S \in SUBSET Ids : RemoveTasks(S)
  BY <1>2, RemoveTasksKept
<1>3. CASE \E S \in SUBSET Ids, base \in Bases : ChangeTasks(S, base)
  BY <1>3, ChangeTasksKept
<1>4. CASE StartFrame
  BY <1>4, StartFrameKept
<1>5. CASE EndFrame
  BY <1>5, EndFrameKept
<1>6. CASE Pass
  BY <1>6, PassKept
<1>7. CASE Call
  BY <1>7, CallKept
<1>8. CASE Skip
  BY <1>8, SkipKept
<1>9. CASE Return
  BY <1>9, ReturnKept
<1>10. CASE Clear
  BY <1>10, ClearKept
<1>11. CASE Tick
  BY <1>11, TickKept
<1>12. CASE Event
  BY <1>12, EventKept
<1>13. CASE UNCHANGED vars
  BY <1>13, StutterKept
<1> QED
  BY <1>1, <1>2, <1>3, <1>4, <1>5, <1>6, <1>7, <1>8, <1>9, <1>10, <1>11, <1>12, <1>13 DEF Next

\* The inductive invariant holds in every reachable state.
THEOREM Invariant == Spec => []IInv
<1>1. Init => IInv
  BY InitInv
<1>2. IInv /\ [Next]_vars => IInv'
  BY NextInv
<1> QED
  BY <1>1, <1>2, PTL DEF Spec

-----------------------------------------------------------------------------
(* What it says about the scheduler *)

LEMMA Reached ==
  ASSUME IInv
  PROVE  /\ 1 .. n \subseteq Slot
         /\ \A i \in Slot : i \notin 1 .. n => task[i].free /\ ~task[i].inExec
<1>1. n \in Nat /\ Slot = 1 .. MaxTasks /\ n <= MaxTasks
  BY StateTyped DEF IInv
<1>2. 1 .. n \subseteq Slot
  BY <1>1
<1>3. \A i \in Slot : i \notin 1 .. n => i > n
  BY <1>1
<1> QED
  BY <1>2, <1>3 DEF IInv, BlankBeyond

\* Every variable of the scheduler keeps its type, whatever plugins register and
\* however frames nest: the hint in particular stays within the vector.
THEOREM Types == Spec => []TypeOK
<1>1. IInv => TypeOK
  BY DEF IInv
<1> QED
  BY <1>1, Invariant, PTL

\* A task that set_task registered is in the vector until it is removed,
\* completed or its map is over: registerTask never overwrites a live slot, and
\* neither a walk nor the wipe of another map drops one (CTask.cpp:registerTask,
\* startFrame, clear).
THEOREM TasksKept == Spec => []BookedTasksKept
<1>1. ASSUME IInv  PROVE BookedTasksKept
  <2>1. \A d \in Ids : {i \in 1 .. n : ~task[i].free /\ task[i].id = d} = TasksOf(d)
    BY <1>1, Reached DEF TasksOf
  <2> QED
    BY <1>1, <2>1 DEF IInv, BookingsKept, BookedTasksKept
<1> QED
  BY <1>1, Invariant, PTL

\* A task that ends after so many calls makes exactly those, however its calls
\* nest: executeIfRequired counts each once (CTask.cpp:executeIfRequired).
THEOREM CallsExact == Spec => []RepeatsExact
<1>1. ASSUME IInv  PROVE RepeatsExact
  <2>1. \A i \in 1 .. n : Counted(task[i])
    BY <1>1, Reached DEF IInv, CallsCounted
  <2> QED
    BY <2>1 DEF RepeatsExact, Counted, Left
<1> QED
  BY <1>1, Invariant, PTL

\* registerTask overlooks no free slot, whatever changes the map.
THEOREM HintExact == Spec => []HintSkipsNoFreeSlot
<1>1. IInv => HintSkipsNoFreeSlot
  BY DEF IInv
<1> QED
  BY <1>1, Invariant, PTL

\* While no nested frame shares a clear, m_ActiveCount is the number of tasks the
\* walk must not miss, so the test that skips the walk hides none.
THEOREM CountsExact ==
  ASSUME ~SharesClear
  PROVE  Spec => []CountersExact
<1>1. ASSUME IInv  PROVE CountersExact
  <2>1. {i \in 1 .. n : ~task[i].free \/ task[i].inExec} = Taken
    BY <1>1, Reached DEF Taken
  <2>2. CountExact
    BY <1>1 DEF IInv, Unshared
  <2>3. ActiveCountsTasks
    BY <2>1, <2>2 DEF CountExact, ActiveCountsTasks
  <2> QED
    BY <1>1, <2>3 DEF IInv, CountersExact
<1> QED
  BY <1>1, Invariant, PTL

\* While no nested frame shares a clear, the vector is never destroyed under a
\* task that is being called (CTask.cpp:startFrame, m_bDeferredClear).
THEOREM CalleesExist ==
  ASSUME ~SharesClear
  PROVE  Spec => []CalleeExists
<1>1. ASSUME IInv  PROVE CalleeExists
  BY <1>1 DEF IInv, Unshared, NoneStale, CalleeExists
<1> QED
  BY <1>1, Invariant, PTL

\* While no nested frame shares a clear, m_bInExecute marks exactly the tasks that
\* the frames in progress call, and no two frames call the same task.
THEOREM ExecutingExact ==
  ASSUME ~SharesClear
  PROVE  Spec => []ExecutingOnce
<1>1. ASSUME IInv  PROVE ExecutingOnce
  <2>1. NoneStale
    BY <1>1 DEF IInv, Unshared
  <2>2. \A k \in 1 .. Len(frames) : InCall(k) <=> frames[k].calling
    BY <2>1 DEF NoneStale, InCall
  <2> QED
    BY <1>1, <2>2, Reached DEF IInv, CallsMatch, ExecutingOnce
<1> QED
  BY <1>1, Invariant, PTL

=============================================================================
