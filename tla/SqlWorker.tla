------------------------------ MODULE SqlWorker -----------------------------
(***************************************************************************)
(* Threaded queries: the worker thread of the sqlite module (and, with the *)
(* same code, of mysqlx).  Plugins queue queries, the worker runs them and *)
(* hands them back, the server's frame calls the plugin with the result.   *)
(* Before plugins are unloaded the worker is stopped, and its results are  *)
(* handed out, on the game thread; that may happen inside the call of a    *)
(* plugin.  A query is carried by a MysqlThread object, which is used      *)
(* again when the plugin has been called.                                  *)
(***************************************************************************)
EXTENDS SequencesExt

CONSTANTS MaxQueries,   \* bound on the queries
          MaxLives,     \* bound on how often the worker is started
          NoQuery

VARIABLES
  state,    \* m_state of g_pWorker: "none" when that is NULL, "running", "stopped"
  cancel,   \* m_FlushType
  burst,    \* m_perFrame is 8192 and not 1
  waiting,  \* m_Waiting
  queue,    \* m_ThreadQueue: the objects the worker has to run
  wpc,      \* what the worker thread does next
  work,     \* the object it is running: <<>> or <<object>>
  results,  \* g_ThreadQueue, a stack, its top first
  free,     \* g_FreeThreads, a stack, its top first
  query,    \* object -> the query it carries, for the objects that exist
  gpc,      \* where the game thread is in OnPluginsUnloading or ShutdownThreading
  calls,    \* the objects whose callbacks are on the game thread's stack, last first
  base,     \* Len(calls) when OnPluginsUnloading was called
  asked,    \* number of queries accepted, which also numbers them
  answered, \* history: query -> how often its callback was called
  lives     \* number of workers started

vars == <<state, cancel, burst, waiting, queue, wpc, work, results, free, query,
          gpc, calls, base, asked, answered, lives>>

worker == <<wpc, work>>
pools == <<results, free, query>>
game == <<gpc, calls, base>>
history == <<asked, answered, lives>>

Queries == 1 .. MaxQueries

ASSUME BoundsAssumption == MaxQueries \in Nat /\ MaxLives \in Nat
ASSUME NoQueryAssumption == NoQuery \notin Queries

Objects == DOMAIN query

Init ==
  /\ state = "none" /\ cancel = FALSE /\ burst = FALSE /\ waiting = FALSE
  /\ queue = <<>> /\ wpc = "done" /\ work = <<>>
  /\ results = <<>> /\ free = <<>> /\ query = <<>>
  /\ gpc = "frame" /\ calls = <<>> /\ base = 0
  /\ asked = 0 /\ answered = [q \in Queries |-> 0] /\ lives = 0

Push(s, x) == <<x>> \o s

\* PosixEventSignal::Signal: a thread that is not waiting yet does not notice.
Signalled == IF wpc = "asleep" THEN "woken" ELSE wpc

-----------------------------------------------------------------------------
(* The worker thread: ThreadWorker::RunThread *)

\* m_state is read under its lock; when the worker is stopped the wait is skipped.
Look ==
  /\ wpc = "look"
  /\ wpc' = IF state = "stopped" THEN "again" ELSE "check"
  /\ UNCHANGED <<state, cancel, burst, waiting, queue, work, pools, game, history>>

\* Under the lock of the queue an empty queue is announced by m_Waiting ...
Check ==
  /\ wpc = "check"
  /\ IF queue = <<>> THEN waiting' = TRUE /\ wpc' = "unlocked"
                     ELSE wpc' = "again" /\ UNCHANGED waiting
  /\ UNCHANGED <<state, cancel, burst, queue, work, pools, game, history>>

\* ... but the wait begins after the lock is gone ...
Wait ==
  /\ wpc = "unlocked"
  /\ wpc' = "asleep"
  /\ UNCHANGED <<state, cancel, burst, waiting, queue, work, pools, game, history>>

\* ... and may end by itself.
SpuriousWake ==
  /\ wpc = "asleep"
  /\ wpc' = "woken"
  /\ UNCHANGED <<state, cancel, burst, waiting, queue, work, pools, game, history>>

Woken ==
  /\ wpc = "woken"
  /\ waiting' = FALSE /\ wpc' = "again"
  /\ UNCHANGED <<state, cancel, burst, queue, work, pools, game, history>>

AgainUndrained ==
  /\ wpc = "again"
  /\ wpc' = IF state = "stopped" THEN "done" ELSE "run"
  /\ UNCHANGED <<state, cancel, burst, waiting, queue, work, pools, game, history>>

Again ==
  /\ wpc = "again"
  /\ wpc' = IF state # "stopped" THEN "run" ELSE IF cancel THEN "done" ELSE "drain"
  /\ UNCHANGED <<state, cancel, burst, waiting, queue, work, pools, game, history>>

\* RunFrame and the draining loop around it pop under the lock of the queue.
Pop ==
  /\ wpc \in {"run", "drain"} /\ work = <<>>
  /\ IF queue = <<>>
     THEN wpc' = (IF wpc = "run" THEN "look" ELSE "done") /\ UNCHANGED <<work, queue>>
     ELSE work' = <<Head(queue)>> /\ queue' = Tail(queue) /\ UNCHANGED wpc
  /\ UNCHANGED <<state, cancel, burst, waiting, pools, game, history>>

\* MysqlThread::RunThread, then OnTerminate under g_QueueLock.
Ran ==
  /\ work # <<>>
  /\ results' = Push(results, work[1]) /\ work' = <<>>
  /\ wpc' = IF wpc = "run" /\ ~burst THEN "look" ELSE wpc
  /\ UNCHANGED <<state, cancel, burst, waiting, queue, free, query, game, history>>

-----------------------------------------------------------------------------
(* The game thread *)

\* Plugins run inside callbacks, and in the frames of the server between them.
PluginRuns == gpc = "frame" \/ (gpc = "deliver" /\ Len(calls) > base)

\* OnPluginsLoaded
Start ==
  /\ state = "none" /\ gpc = "frame" /\ lives < MaxLives
  /\ state' = "running" /\ cancel' = FALSE /\ burst' = FALSE /\ waiting' = FALSE
  /\ wpc' = "look"
  /\ lives' = lives + 1
  /\ UNCHANGED <<queue, work, pools, game, asked, answered>>

ThreadQueryKeeping ==
  /\ PluginRuns /\ state = "running" /\ asked < MaxQueries
  /\ \E o \in Objects \cup {Cardinality(Objects) + 1} :
       /\ IF free = <<>> THEN o \notin Objects /\ UNCHANGED free
                         ELSE o = Head(free) /\ UNCHANGED free
       /\ query' = [p \in Objects \cup {o} |-> IF p = o THEN asked + 1 ELSE query[p]]
       /\ queue' = Append(queue, o)
  /\ wpc' = IF waiting THEN Signalled ELSE wpc
  /\ asked' = asked + 1
  /\ UNCHANGED <<state, cancel, burst, waiting, work, results, game, answered, lives>>

\* SQL_ThreadQuery: the object on top of the free ones, or a new one, goes to the
\* end of the queue, and the worker is woken if it announced that it waits.
ThreadQuery ==
  /\ PluginRuns /\ state = "running" /\ asked < MaxQueries
  /\ \E o \in Objects \cup {Cardinality(Objects) + 1} :
       /\ IF free = <<>> THEN o \notin Objects /\ UNCHANGED free
                         ELSE o = Head(free) /\ free' = Tail(free)
       /\ query' = [p \in Objects \cup {o} |-> IF p = o THEN asked + 1 ELSE query[p]]
       /\ queue' = Append(queue, o)
  /\ wpc' = IF waiting THEN Signalled ELSE wpc
  /\ asked' = asked + 1
  /\ UNCHANGED <<state, cancel, burst, waiting, work, results, game, answered, lives>>

Delivering ==
  /\ results # <<>> /\ Len(calls) = base
  /\ gpc = "deliver" \/ (gpc = "frame" /\ state # "none")

CallKeeping ==
  /\ Delivering
  /\ calls' = Push(calls, Head(results))
  /\ answered' = [answered EXCEPT ![query[Head(results)]] = @ + 1]
  /\ UNCHANGED <<state, cancel, burst, waiting, queue, worker, pools, gpc, base, asked, lives>>

\* The loops of StartFrame and OnPluginsUnloading: the top result is taken and the
\* plugin is called with it, while the lock is open ...
Call ==
  /\ Delivering
  /\ results' = Tail(results)
  /\ calls' = Push(calls, Head(results))
  /\ answered' = [answered EXCEPT ![query[Head(results)]] = @ + 1]
  /\ UNCHANGED <<state, cancel, burst, waiting, queue, worker, free, query, gpc, base,
                 asked, lives>>

\* ... and when it returns the object is free.
Return ==
  /\ PluginRuns /\ calls # <<>>
  /\ free' = Push(free, Head(calls)) /\ query' = [query EXCEPT ![Head(calls)] = NoQuery]
  /\ calls' = Tail(calls)
  /\ UNCHANGED <<state, cancel, burst, waiting, queue, worker, results, gpc, base, history>>

\* OnPluginsUnloading, in a frame of the server or in a callback: Stop(false) ...
Unload ==
  /\ gpc = "frame" /\ state = "running"
  /\ burst' = TRUE /\ gpc' = "stop" /\ base' = Len(calls)
  /\ UNCHANGED <<state, cancel, waiting, queue, worker, pools, calls, history>>

\* ... or ShutdownThreading, when the module is detached: Stop(true) ...
Detach ==
  /\ gpc = "frame" /\ calls = <<>>
  /\ IF state = "running" THEN burst' = TRUE /\ gpc' = "quit" /\ UNCHANGED pools
                           ELSE results' = <<>> /\ free' = <<>> /\ query' = <<>>
                                /\ gpc' = "gone" /\ UNCHANGED burst
  /\ UNCHANGED <<state, cancel, waiting, queue, worker, calls, base, history>>

\* ... sets the state under its lock ...
SetStopped ==
  /\ gpc \in {"stop", "quit"}
  /\ state' = "stopped" /\ cancel' = (gpc = "quit")
  /\ gpc' = "wake"
  /\ UNCHANGED <<burst, waiting, queue, worker, pools, calls, base, history>>

\* ... wakes the worker under the lock of the queue if it announced that it waits ...
Wake ==
  /\ gpc = "wake"
  /\ wpc' = IF waiting THEN Signalled ELSE wpc
  /\ gpc' = "join"
  /\ UNCHANGED <<state, cancel, burst, waiting, queue, work, pools, calls, base, history>>

\* ... and joins it.  Flush(true) frees the objects the worker has left;
\* ShutdownThreading then deletes all objects.
Join ==
  /\ gpc = "join" /\ wpc = "done"
  /\ IF cancel
     THEN results' = <<>> /\ free' = <<>> /\ query' = <<>>
     ELSE /\ free' = Reverse(queue) \o free
          /\ query' = [o \in Objects |-> IF Contains(queue, o) THEN NoQuery ELSE query[o]]
          /\ UNCHANGED results
  /\ queue' = <<>> /\ state' = "none"
  /\ gpc' = IF cancel THEN "gone" ELSE "deliver"
  /\ UNCHANGED <<cancel, burst, waiting, worker, calls, base, history>>

UnloadedAtOnce ==
  /\ gpc = "deliver" /\ Len(calls) = base
  /\ gpc' = "frame" /\ base' = 0
  /\ UNCHANGED <<state, cancel, burst, waiting, queue, worker, pools, calls, history>>

\* The end of OnPluginsUnloading.
Unloaded ==
  /\ gpc = "deliver" /\ Len(calls) = base /\ results = <<>>
  /\ gpc' = "frame" /\ base' = 0
  /\ UNCHANGED <<state, cancel, burst, waiting, queue, worker, pools, calls, history>>

WorkerStep == Look \/ Check \/ Wait \/ Woken \/ Again \/ Pop \/ Ran
UnloadStep == SetStopped \/ Wake \/ Join \/ Unloaded

Next ==
  \/ WorkerStep \/ SpuriousWake
  \/ Start \/ ThreadQuery \/ Call \/ Return \/ Unload \/ Detach \/ UnloadStep

Spec == Init /\ [][Next]_vars

\* Both threads run, callbacks return, and the server runs frames.
Fairness == WF_vars(WorkerStep) /\ WF_vars(UnloadStep) /\ WF_vars(Call) /\ WF_vars(Return)

FairSpec == Spec /\ Fairness

-----------------------------------------------------------------------------
(* Properties *)

Pile == Seq(Objects)

TypeOK ==
  /\ state \in {"none", "running", "stopped"}
  /\ {cancel, burst, waiting} \subseteq BOOLEAN
  /\ wpc \in {"look", "check", "unlocked", "asleep", "woken", "again", "run", "drain", "done"}
  /\ gpc \in {"frame", "stop", "quit", "wake", "join", "deliver", "gone"}
  /\ {queue, work, results, free, calls} \subseteq Pile
  /\ Len(work) <= 1 /\ Len(calls) <= base + 1 /\ base \in 0 .. 1
  /\ query \in Seq(Queries \cup {NoQuery})
  /\ asked \in 0 .. MaxQueries /\ lives \in 0 .. MaxLives
  /\ answered \in [Queries -> Nat]

\* Every MysqlThread object is in one place: queued, with the worker, among the
\* results, in a callback, or free, and it carries a query in all of them but the
\* last.  So no object is used for a new query while its plugin is being called
\* with the old one.
ObjectsInOnePlace ==
  LET inUse == queue \o work \o results \o calls
      all == inUse \o free
  IN  /\ TypeOK
      /\ Len(all) = Cardinality(Objects) /\ ToSet(all) = Objects
      /\ \A o \in Objects : query[o] = NoQuery <=> Contains(free, o)

\* The callback of a query is called once; not before the query was run, and not
\* again when results are handed out both in a frame and at the end of the map.
AnsweredOnce ==
  \A q \in Queries :
    /\ answered[q] <= 1
    /\ gpc # "gone" =>
         (answered[q] = 1 <=>
            q <= asked /\ \A o \in ToSet(queue \o work \o results) : query[o] # q)

\* Once OnPluginsUnloading has returned no query is left over: none can call a
\* forward of a plugin that is not there any more.
NothingOutlivesPlugins ==
  gpc = "frame" /\ state = "none" => queue = <<>> /\ work = <<>> /\ results = <<>>

\* The worker sleeps although it has been given work or told to stop.
Stranded == wpc = "asleep" /\ (queue # <<>> \/ gpc = "join")

\* Every query is answered, unless the module is detached, or the signal came
\* between the worker's unlocking of the queue and its wait.
QueriesAnswered ==
  \A q \in Queries : (asked >= q) ~> (answered[q] = 1 \/ Stranded \/ gpc = "gone")

\* IThreader.h:227: Stop waits until the tasks have been depleted, then ends.
StopReturns == (gpc = "join") ~> (gpc # "join")

=============================================================================
