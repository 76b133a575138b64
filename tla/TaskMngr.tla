------------------------------ MODULE TaskMngr ------------------------------
(***************************************************************************)
(* The task scheduler behind set_task, CTaskMngr (amxmodx/CTask.cpp).  A   *)
(* frame walks the vector of tasks and calls those that are due; a called  *)
(* function may register, remove and change tasks, run a nested frame (the *)
(* engine does, when the function forces a level change) and have the      *)
(* whole vector cleared for the next map.                                  *)
(*                                                                         *)
(* Time is relative: wait is the time left until m_fNextExecTime, negative *)
(* when the task is overdue.                                               *)
(***************************************************************************)
EXTENDS Integers, Sequences, FiniteSets

CONSTANTS Ids,           \* a plugin and the task id it chose
          Kinds,         \* id -> subset of {"timed", "start", "end"}: no flag, "c", "d"
          Bases,         \* values of m_fBase
          Repeats,       \* values of the parameter repeat, used with the flag "a"
          MaxTasks,      \* bound on m_Tasks.length()
          MaxDepth,      \* bound on the nesting of frames
          MaxLag,        \* bound on how late a frame comes
          ClearInFrame,  \* which called functions may force a map change: "any",
                         \* or, "unnested", those whose call no nested frame shares
          NoId

VARIABLES
  n,         \* m_Tasks.length()
  task,      \* the elements of m_Tasks
  active,    \* m_ActiveCount
  hint,      \* m_FirstFreeHint, counting from 1
  deferred,  \* m_bDeferredClear
  frames,    \* the calls of startFrame in progress; their number is m_bInStartFrame
  open,      \* the kinds of map events whose time has come
  booked,    \* history: id -> how many tasks plugins count on
  lost       \* history: tasks that went with the vector and are still counted

vars == <<n, task, active, hint, deferred, frames, open, booked, lost>>

Slot == 1 .. MaxTasks
EventKinds == {"timed", "start", "end"}

ASSUME MaxTasksAssumption == MaxTasks \in Nat
ASSUME KindsAssumption == Kinds \in [Ids -> SUBSET EventKinds]
ASSUME NumbersAssumption == Bases \subseteq Int /\ Repeats \subseteq Int

\* A free CTask.  The last two fields are history: how often the task was to be
\* called (-1: no end to it), and, unless that is -1, how often it was.
Blank == [free |-> TRUE, inExec |-> FALSE, id |-> NoId, kind |-> "timed", loop |-> FALSE,
          repeat |-> 0, base |-> 0, wait |-> 0, asked |-> 0, called |-> 0]

\* CTask::clear leaves m_bInExecute alone.
Cleared(t) == [Blank EXCEPT !.inExec = t.inExec]

Live(i) == i <= n /\ ~task[i].free
Due(i) == IF task[i].kind = "timed" THEN task[i].wait <= 0 ELSE task[i].kind \in open

FirstOf(a, b) == a

LowerOf(a, b) == IF a < b THEN a ELSE b
Less(a, b) == IF a > b THEN a - b ELSE 0

Frame == frames[Len(frames)]
Outer == SubSeq(frames, 1, Len(frames) - 1)

\* Plugins and the engine run only while no frame is between two calls.
Idle == frames # <<>> => Frame.calling

Init == /\ n = 0 /\ task = [i \in Slot |-> Blank]
        /\ active = 0 /\ hint = 1 /\ deferred = FALSE
        /\ frames = <<>> /\ open = {}
        /\ booked = [d \in Ids |-> 0] /\ lost = 0

-----------------------------------------------------------------------------
(* registerTask *)

\* The base of a task that waits for an event of the map only moves that event.
Interval(kind, base) == IF kind = "timed" THEN base ELSE 0

\* CTask::set.  The flag "a" comes with a number of repeats, "b" without.
NewTask(d, kind, base, flag, repeat) ==
  LET times == IF flag = "b" THEN -1 ELSE IF flag = "a" THEN repeat ELSE 0
  IN  [free |-> FALSE, inExec |-> FALSE, id |-> d, kind |-> kind, loop |-> flag # "once",
       repeat |-> times, base |-> Interval(kind, base), wait |-> Interval(kind, base),
       asked |-> IF flag = "once" THEN 1 ELSE times, called |-> 0]

ReusableEvenExecuting == {i \in hint .. n : task[i].free}

Reusable == {i \in hint .. n : task[i].free /\ ~task[i].inExec}

\* The first free slot from the hint on is used again, or the vector grows.  A
\* task that is registered between a clear that was put off and the end of the
\* frame is lost with the vector, so nobody may count on it.
RegisterTask(t) ==
  /\ Idle
  /\ \E i \in 1 .. n + 1 :
       /\ i <= MaxTasks
       /\ IF Reusable = {} THEN i = n + 1
                           ELSE i \in Reusable /\ \A j \in Reusable : i <= j
       /\ n' = IF i > n THEN i ELSE n
       /\ task' = [task EXCEPT ![i] = t]
       /\ hint' = i + 1
  /\ active' = active + 1
  /\ booked' = IF deferred THEN booked ELSE [booked EXCEPT ![t.id] = @ + 1]
  /\ UNCHANGED <<deferred, frames, open, lost>>

SetTask(d) ==
  \E kind \in Kinds[d], base \in Bases, flag \in {"once", "a", "b"} :
    \E repeat \in (IF flag = "a" THEN Repeats ELSE {0}) :
      RegisterTask(NewTask(d, kind, base, flag, repeat))

-----------------------------------------------------------------------------
(* removeTasks, changeTasks *)

\* The tasks with an id of S: one id, or the same id in every plugin.
Matching(S) == {i \in Slot : Live(i) /\ task[i].id \in S}

RemoveCountsExecuting(S) ==
  LET M == Matching(S)
  IN  /\ Idle /\ M # {}
      /\ task' = [i \in Slot |-> IF i \in M THEN Cleared(task[i]) ELSE task[i]]
      /\ active' = Less(active, Cardinality(M))
      /\ \E i \in M : hint' = LowerOf(hint, i) /\ \A j \in M : i <= j
      /\ booked' = [d \in Ids |-> IF d \in S THEN 0 ELSE booked[d]]
      /\ UNCHANGED <<n, deferred, frames, open, lost>>

RemoveSkipsExecuting(S) ==
  LET M == {i \in Matching(S) : ~task[i].inExec}
  IN  /\ Idle /\ M # {}
      /\ task' = [i \in Slot |-> IF i \in M THEN Cleared(task[i]) ELSE task[i]]
      /\ active' = Less(active, Cardinality(M))
      /\ \E i \in M : hint' = LowerOf(hint, i) /\ \A j \in M : i <= j
      /\ booked' = [d \in Ids |-> IF d \in S THEN 0 ELSE booked[d]]
      /\ UNCHANGED <<n, deferred, frames, open, lost>>

\* A task that removes itself is taken off the count when its call returns.
RemoveTasks(S) ==
  LET M == Matching(S)
  IN  /\ Idle /\ M # {}
      /\ task' = [i \in Slot |-> IF i \in M THEN Cleared(task[i]) ELSE task[i]]
      /\ active' = Less(active, Cardinality({i \in M : ~task[i].inExec}))
      /\ \E i \in M : hint' = LowerOf(hint, i) /\ \A j \in M : i <= j
      /\ booked' = [d \in Ids |-> IF d \in S THEN 0 ELSE booked[d]]
      /\ UNCHANGED <<n, deferred, frames, open, lost>>

\* An executing task keeps its time: its base is added when the call returns.
ChangeTasks(S, base) ==
  /\ Idle /\ Matching(S) # {}
  /\ task' = [i \in Slot |->
               IF i \in Matching(S)
               THEN LET b == Interval(task[i].kind, base)
                    IN  [task[i] EXCEPT !.base = b, !.wait = IF task[i].inExec THEN @ ELSE b]
               ELSE task[i]]
  /\ UNCHANGED <<n, active, hint, deferred, frames, open, booked, lost>>

-----------------------------------------------------------------------------
(* startFrame *)

\* Whether one call of the outermost frame may share a clear with a nested frame.
SharesClear == ClearInFrame = "any"

StartFrame ==
  /\ Idle /\ active > 0 /\ Len(frames) < MaxDepth
  /\ deferred => SharesClear
  /\ frames' = Append(frames, [at |-> 1, last |-> n, calling |-> FALSE, stale |-> FALSE])
  /\ UNCHANGED <<n, task, active, hint, deferred, open, booked, lost>>

\* Destroying the vector leaves the frames still walking it without their task.
Orphaned(fs) == [k \in DOMAIN fs |-> [fs[k] EXCEPT !.stale = TRUE]]

\* The frame is left, and the vector with it when a clear was put off.
LeaveFrame(t) ==
  IF deferred
  THEN /\ deferred' = FALSE /\ n' = 0
       /\ task' = [i \in Slot |-> Blank]
       /\ frames' = Orphaned(Outer)
       /\ lost' = lost + Cardinality({i \in Slot : Live(i)})
  ELSE /\ frames' = Outer /\ task' = t
       /\ UNCHANGED <<n, deferred, lost>>

NextTask(t) == /\ frames' = Append(Outer, [Frame EXCEPT !.at = @ + 1, !.calling = FALSE])
               /\ task' = t
               /\ UNCHANGED <<n, deferred, lost>>

\* The end of the walk.
EndFrame ==
  /\ ~Idle /\ Frame.at > Frame.last
  /\ LeaveFrame(task)
  /\ UNCHANGED <<active, hint, open, booked>>

\* A task that is free, executing or not due is passed over.
Pass ==
  LET i == Frame.at
  IN  /\ ~Idle /\ i <= Frame.last
      /\ task[i].free \/ task[i].inExec \/ ~Due(i)
      /\ IF deferred /\ ~task[i].free THEN LeaveFrame(task) ELSE NextTask(task)
      /\ UNCHANGED <<active, hint, open, booked>>

\* A loop that was registered for no call is over without one.
Void(i) == task[i].loop /\ task[i].repeat = 0

Entered(t) == [t EXCEPT !.inExec = TRUE, !.called = IF t.asked = -1 THEN 0 ELSE @ + 1]

CallReentering ==
  LET i == Frame.at
  IN  /\ ~Idle /\ i <= Frame.last /\ ~task[i].free /\ Due(i) /\ ~Void(i)
      /\ task' = [task EXCEPT ![i] = Entered(@)]
      /\ frames' = Append(Outer, [Frame EXCEPT !.calling = TRUE])
      /\ UNCHANGED <<n, active, hint, deferred, open, booked, lost>>

\* A task that is due is called.
Call ==
  LET i == Frame.at
  IN  /\ ~Idle /\ i <= Frame.last
      /\ ~task[i].free /\ ~task[i].inExec /\ Due(i) /\ ~Void(i)
      /\ task' = [task EXCEPT ![i] = Entered(@)]
      /\ frames' = Append(Outer, [Frame EXCEPT !.calling = TRUE])
      /\ UNCHANGED <<n, active, hint, deferred, open, booked, lost>>

\* What executeIfRequired makes of a live task after its call: it is over after
\* the last repeat, and waits again before that.
Called(t) ==
  IF t.loop /\ (t.repeat = -1 \/ t.repeat > 1)
  THEN [t EXCEPT !.repeat = IF @ = -1 THEN @ ELSE @ - 1, !.wait = @ + t.base]
  ELSE Cleared(t)

\* The call of slot i is over: t is what it leaves there.
Complete(i, t) ==
  LET after == IF task[i].free THEN t ELSE Called(t)
  IN  /\ booked' = IF ~task[i].free /\ after.free
                   THEN [booked EXCEPT ![task[i].id] = Less(@, 1)] ELSE booked
      /\ IF deferred
         THEN LeaveFrame([task EXCEPT ![i] = after]) /\ UNCHANGED <<active, hint>>
         ELSE /\ NextTask([task EXCEPT ![i] = after])
              /\ active' = IF after.free THEN Less(active, 1) ELSE active
              /\ hint' = IF after.free THEN LowerOf(hint, i) ELSE hint
      /\ UNCHANGED open

Skip == LET i == Frame.at
        IN  /\ ~Idle /\ i <= Frame.last /\ ~task[i].free /\ ~task[i].inExec
            /\ Due(i) /\ Void(i)
            /\ Complete(i, task[i])

\* The called function returns to a task that still exists.
Return == /\ frames # <<>> /\ Frame.calling /\ ~Frame.stale
          /\ Complete(Frame.at, [task[Frame.at] EXCEPT !.inExec = FALSE])

-----------------------------------------------------------------------------
(* clear *)

ClearAtOnce ==
  /\ Idle /\ (Len(frames) > 1 => SharesClear)
  /\ n' = 0 /\ task' = [i \in Slot |-> Blank] /\ frames' = Orphaned(frames)
  /\ active' = 0 /\ hint' = 1
  /\ booked' = [d \in Ids |-> 0] /\ lost' = 0
  /\ UNCHANGED <<deferred, open>>

\* The map changes between two frames, or a called function changes it.
Clear ==
  /\ Idle /\ (Len(frames) > 1 => SharesClear)
  /\ IF frames = <<>>
     THEN /\ n' = 0 /\ task' = [i \in Slot |-> Blank]
          /\ UNCHANGED deferred
     ELSE /\ task' = [i \in Slot |-> Cleared(task[i])]
          /\ deferred' = TRUE
          /\ UNCHANGED n
  /\ active' = 0 /\ hint' = 1
  /\ booked' = [d \in Ids |-> 0] /\ lost' = 0
  /\ UNCHANGED <<frames, open>>

-----------------------------------------------------------------------------
(* The clock of the map *)

Tick == /\ frames = <<>> /\ \E i \in Slot : Live(i) /\ task[i].kind = "timed"
        /\ \A i \in Slot : Live(i) /\ task[i].kind = "timed" => task[i].wait > -MaxLag
        /\ task' = [i \in Slot |-> IF Live(i) /\ task[i].kind = "timed"
                                   THEN [task[i] EXCEPT !.wait = @ - 1] ELSE task[i]]
        /\ UNCHANGED <<n, active, hint, deferred, frames, open, booked, lost>>

Event == /\ frames = <<>>
         /\ open' \in SUBSET ((UNION {Kinds[d] : d \in Ids}) \ {"timed"})
         /\ UNCHANGED <<n, task, active, hint, deferred, frames, booked, lost>>

Next == \/ \E d \in Ids : SetTask(d)
        \/ \E S \in SUBSET Ids : RemoveTasks(S) \/ \E base \in Bases : ChangeTasks(S, base)
        \/ StartFrame \/ EndFrame \/ Pass \/ Call \/ Skip \/ Return \/ Clear
        \/ Tick \/ Event

Spec == Init /\ [][Next]_vars

\* The engine keeps running frames, a frame goes on, and a called function comes
\* to its end however many nested frames it runs.
Fairness == /\ WF_vars(StartFrame /\ frames = <<>>)
            /\ WF_vars(EndFrame \/ Pass \/ Call \/ Skip)
            /\ SF_vars(Return)

FairSpec == Spec /\ Fairness

-----------------------------------------------------------------------------
(* Properties *)

Tasks == [free : BOOLEAN, inExec : BOOLEAN, id : Ids \cup {NoId}, kind : EventKinds,
          loop : BOOLEAN, repeat : Int, base : Int, wait : Int, asked : Int, called : Nat]

Frames == [at : 1 .. MaxTasks + 1, last : 0 .. MaxTasks, calling : BOOLEAN, stale : BOOLEAN]

TypeOK ==
  /\ n \in 0 .. MaxTasks
  /\ task \in [Slot -> Tasks]
  /\ active \in Nat /\ hint \in 1 .. MaxTasks + 1
  /\ deferred \in BOOLEAN
  /\ frames \in Seq(Frames)
  /\ open \subseteq {"start", "end"}
  /\ booked \in [Ids -> Nat] /\ lost \in Nat

\* m_ActiveCount, which lets startFrame skip the walk, is the number of tasks
\* that are not free and of those that removed themselves and are still being
\* called; after a clear that was put off also of those it destroyed uncounted,
\* which costs a walk and hides nothing.
ActiveCountsTasks ==
  ~deferred =>
    active = lost + Cardinality({i \in 1 .. n : ~task[i].free \/ task[i].inExec})

\* No free slot lies before the hint, so registerTask overlooks none.
HintSkipsNoFreeSlot ==
  \A i \in 1 .. n : i < hint => ~task[i].free \/ task[i].inExec

\* What lets CTaskMngr::startFrame skip the walk and registerTask skip slots never
\* hides a task or a free slot.
CountersExact == TypeOK /\ ActiveCountsTasks /\ HintSkipsNoFreeSlot

\* A task is in the vector from set_task until it is removed, completed or the
\* map it was registered on is over.  One that a called function registers after
\* it has changed the map is not promised that: the vector is about to go, and
\* the task with it.
BookedTasksKept ==
  ~deferred =>
    \A d \in Ids : booked[d] = Cardinality({i \in 1 .. n : ~task[i].free /\ task[i].id = d})

\* A task that ends after so many calls has made exactly those that were asked
\* for and are not left, the one in progress included, whatever nested frames
\* run in between.
RepeatsExact ==
  \A i \in 1 .. n : LET t == task[i]
                        left == IF t.loop THEN t.repeat ELSE 1
                    IN  ~t.free /\ t.asked # -1 =>
                          t.called + left = t.asked + (IF t.inExec THEN 1 ELSE 0)

\* The task a function was called for outlives the call.
CalleeExists == \A k \in 1 .. Len(frames) : frames[k].calling => ~frames[k].stale

\* The tasks that are executing are those the frames in progress called, each by
\* one of them.
ExecutingOnce ==
  /\ \A i \in 1 .. n : task[i].inExec <=>
       \E k \in 1 .. Len(frames) : frames[k].calling /\ frames[k].at = i
  /\ \A j, k \in 1 .. Len(frames) :
       frames[j].calling /\ frames[k].calling /\ frames[j].at = frames[k].at => j = k

\* A task that is due is called, removed or put off.
DueTaskRuns ==
  \A i \in Slot : (Live(i) /\ task[i].kind = "timed" /\ task[i].wait <= 0)
                    ~> (task[i].free \/ task[i].inExec \/ task[i].wait > 0)

=============================================================================
