------------------------------ MODULE LogQueue ------------------------------
(***************************************************************************)
(* The asynchronous log writer of amxmodx/amxxlog.cpp:35-262: a ring of    *)
(* QSize slots shared by the threads that log (Producers, one of them the  *)
(* game thread) and one writer thread, under one mutex and one condition   *)
(* variable.  An action is what a thread does between two points where the *)
(* others can see it: a critical section, an atomic load or store, a       *)
(* notification, a wait, a join, or a file operation outside the lock.     *)
(***************************************************************************)
EXTENDS Naturals, Sequences, FiniteSets

CONSTANTS Producers,   \* threads that call KTP_ALogEnqueue
          Game,        \* the game thread; it alone calls AsyncShutdown
          Writers,     \* identities for the writer threads that get created
          QSize,       \* KTP_ALOGQ_SIZE
          Paths,       \* files the lines go to
          NoPath,      \* curPath[0] = '\0'
          MaxLines     \* bound on the lines logged in a behaviour

ASSUME ProducersAssumption == IsFiniteSet(Producers)
ASSUME QSizeAssumption == QSize \in Nat /\ QSize > 1
ASSUME GameAssumption == Game \in Producers
ASSUME NoPathAssumption == NoPath \notin Paths
ASSUME MaxLinesAssumption == MaxLines \in Nat

Slots == 0 .. QSize - 1

\* A queued operation is its resolved path and its text, told apart by number.
Op == [path : Paths, text : 1 .. MaxLines]
NoOp == [path |-> NoPath, text |-> 0]

VARIABLES
  ring,      \* s_ktpALogQ: slot -> operation
  head,      \* s_ktpALogQHead
  tail,      \* s_ktpALogQTail
  running,   \* s_ktpALogThreadRunning
  stop,      \* s_ktpALogStop
  thread,    \* s_ktpALogThreadId: the thread AsyncShutdown joins
  drops,     \* s_ktpALogDrops
  ppc,       \* producer -> where it is in KTP_ALogEnqueue or AsyncShutdown
  arg,       \* producer -> the operation it hands over
  wpc,       \* writer -> where it is in KTP_ALogWriterLoop
  wop,       \* writer -> the operation it copied out of the ring
  curPath,   \* writer -> curPath; fp is open exactly when it is not NoPath
  logged,    \* number of lines handed over so far
  accepted,  \* history: operations put in the ring, in order
  written,   \* history: operations that reached their file, in order
  done,      \* history: number of accepted operations the writer disposed of
  synced     \* history: number of lines left to the caller's synchronous path

ringVars == <<ring, head, tail>>
ctlVars  == <<running, stop, thread>>
prodVars == <<ppc, arg, logged>>
wrtVars  == <<wpc, wop, curPath>>
histVars == <<accepted, written, done, synced>>
vars == <<ringVars, ctlVars, drops, prodVars, wrtVars, histVars>>

\* (i + 1) & KTP_ALOGQ_MASK
Succ(i) == IF i = QSize - 1 THEN 0 ELSE i + 1

Empty == head = tail
NeverFull == FALSE
Full == Succ(head) = tail

Live(w) == wpc[w] \in {"loop", "waiting", "write"}

Goto(p, l) == ppc' = [ppc EXCEPT ![p] = l]

\* notify_one: one waiter, if there is one, goes back to test its condition.
NotifyNobody == UNCHANGED wpc
NotifyOne ==
  LET waiting == {w \in Writers : wpc[w] = "waiting"}
  IN  IF waiting = {} THEN UNCHANGED wpc
      ELSE \E w \in waiting : wpc' = [wpc EXCEPT ![w] = "loop"]

Init ==
  /\ ring = [i \in Slots |-> NoOp] /\ head = 0 /\ tail = 0
  /\ running = FALSE /\ stop = FALSE /\ thread \in Writers
  /\ drops = 0
  /\ ppc = [p \in Producers |-> "idle"]
  /\ arg = [p \in Producers |-> NoOp]
  /\ logged = 0
  /\ wpc = [w \in Writers |-> "none"]
  /\ wop = [w \in Writers |-> NoOp]
  /\ curPath = [w \in Writers |-> NoPath]
  /\ accepted = <<>> /\ written = <<>> /\ done = 0 /\ synced = 0

-----------------------------------------------------------------------------
(* KTP_ALogEnqueue *)

\* A producer has a line for a file and calls KTP_ALogEnqueue.
Call(p, path) ==
  /\ ppc[p] = "idle" /\ logged < MaxLines
  /\ logged' = logged + 1
  /\ arg' = [arg EXCEPT ![p] = [path |-> path, text |-> logged + 1]]
  /\ Goto(p, "ensure")
  /\ UNCHANGED <<ringVars, ctlVars, drops, wrtVars, histVars>>

\* KTP_ALogEnsureThread, the load outside the lock.
Ensure(p) ==
  /\ ppc[p] = "ensure"
  /\ Goto(p, IF running THEN "push" ELSE "spawn")
  /\ UNCHANGED <<ringVars, ctlVars, drops, arg, logged, wrtVars, histVars>>

\* The second load, under the lock: another producer has been here.
AlreadySpawned(p) ==
  /\ ppc[p] = "spawn" /\ running
  /\ Goto(p, "push")
  /\ UNCHANGED <<ringVars, ctlVars, drops, arg, logged, wrtVars, histVars>>

SpawnUnchecked(p) ==
  /\ ppc[p] = "spawn"
  /\ \E w \in Writers :
       /\ wpc[w] = "none"
       /\ wpc' = [wpc EXCEPT ![w] = "loop"]
       /\ thread' = w
  /\ running' = TRUE
  /\ Goto(p, "push")
  /\ UNCHANGED <<ringVars, stop, drops, arg, logged, wop, curPath, histVars>>

\* The writer thread is created and the flag set, still under the lock.
Spawn(p) ==
  /\ ppc[p] = "spawn" /\ ~running
  /\ \E w \in Writers :
       /\ wpc[w] = "none"
       /\ wpc' = [wpc EXCEPT ![w] = "loop"]
       /\ thread' = w
  /\ running' = TRUE
  /\ Goto(p, "push")
  /\ UNCHANGED <<ringVars, stop, drops, arg, logged, wop, curPath, histVars>>

\* No memory for the ring, or pthread_create fails: the caller writes the line.
SpawnFails(p) ==
  /\ ppc[p] = "spawn" /\ ~running
  /\ synced' = synced + 1
  /\ Goto(p, "idle")
  /\ UNCHANGED <<ringVars, ctlVars, drops, arg, logged, wrtVars, accepted,
                 written, done>>

\* A queue that gives up when it meets anybody at the lock, as with try_lock.
PushContended(p) ==
  /\ ppc[p] = "push"
  /\ drops' = drops + 1
  /\ Goto(p, "idle")
  /\ UNCHANGED <<ringVars, ctlVars, arg, logged, wrtVars, histVars>>

\* The critical section of KTP_ALogEnqueue: a full ring drops the line ...
PushFull(p) ==
  /\ ppc[p] = "push" /\ Full
  /\ drops' = drops + 1
  /\ Goto(p, "idle")
  /\ UNCHANGED <<ringVars, ctlVars, arg, logged, wrtVars, histVars>>

\* ... otherwise it goes into the slot at head.
Push(p) ==
  /\ ppc[p] = "push" /\ ~Full
  /\ ring' = [ring EXCEPT ![head] = arg[p]]
  /\ head' = Succ(head)
  /\ accepted' = Append(accepted, arg[p])
  /\ Goto(p, "notify")
  /\ UNCHANGED <<tail, ctlVars, drops, arg, logged, wrtVars, written, done,
                 synced>>

\* notify_one, after the unlock.
Notify(p) ==
  /\ ppc[p] = "notify"
  /\ NotifyOne
  /\ Goto(p, "idle")
  /\ UNCHANGED <<ringVars, ctlVars, drops, arg, logged, wop, curPath, histVars>>

-----------------------------------------------------------------------------
(* CLog::AsyncShutdown, on the game thread *)

\* The early return leaves no trace, so the action starts where there is work.
Shutdown ==
  /\ ppc[Game] = "idle" /\ running
  /\ Goto(Game, "stop")
  /\ UNCHANGED <<ringVars, ctlVars, drops, arg, logged, wrtVars, histVars>>

SetStop ==
  /\ ppc[Game] = "stop"
  /\ stop' = TRUE
  /\ Goto(Game, "wake")
  /\ UNCHANGED <<ringVars, running, thread, drops, arg, logged, wrtVars,
                 histVars>>

WakeForStop ==
  /\ ppc[Game] = "wake"
  /\ NotifyOne
  /\ Goto(Game, "join")
  /\ UNCHANGED <<ringVars, ctlVars, drops, arg, logged, wop, curPath, histVars>>

\* pthread_join returns once the thread has left its loop.
Join ==
  /\ ppc[Game] = "join"
  /\ wpc[thread] = "exited"
  /\ wpc' = [wpc EXCEPT ![thread] = "none"]
  /\ Goto(Game, "joined")
  /\ UNCHANGED <<ringVars, ctlVars, drops, arg, logged, wop, curPath, histVars>>

ClearRunning ==
  /\ ppc[Game] = "joined"
  /\ running' = FALSE
  /\ Goto(Game, "unstop")
  /\ UNCHANGED <<ringVars, stop, thread, drops, arg, logged, wrtVars, histVars>>

ClearStop ==
  /\ ppc[Game] = "unstop"
  /\ stop' = FALSE
  /\ Goto(Game, "idle")
  /\ UNCHANGED <<ringVars, running, thread, drops, arg, logged, wrtVars,
                 histVars>>

-----------------------------------------------------------------------------
(* KTP_ALogWriterLoop *)

\* cv.wait: nothing to write and no request to stop.
Sleep(w) ==
  /\ wpc[w] = "loop" /\ Empty /\ ~stop
  /\ wpc' = [wpc EXCEPT ![w] = "waiting"]
  /\ UNCHANGED <<ringVars, ctlVars, drops, prodVars, wop, curPath, histVars>>

\* A wait may also end without a notification.
SpuriousWake(w) ==
  /\ wpc[w] = "waiting"
  /\ wpc' = [wpc EXCEPT ![w] = "loop"]
  /\ UNCHANGED <<ringVars, ctlVars, drops, prodVars, wop, curPath, histVars>>

QuitUndrained(w) ==
  /\ wpc[w] = "loop" /\ stop
  /\ wpc' = [wpc EXCEPT ![w] = "exited"]
  /\ curPath' = [curPath EXCEPT ![w] = NoPath]
  /\ UNCHANGED <<ringVars, ctlVars, drops, prodVars, wop, histVars>>

\* Stopped and drained: the file is closed and the thread ends.
Quit(w) ==
  /\ wpc[w] = "loop" /\ Empty /\ stop
  /\ wpc' = [wpc EXCEPT ![w] = "exited"]
  /\ curPath' = [curPath EXCEPT ![w] = NoPath]
  /\ UNCHANGED <<ringVars, ctlVars, drops, prodVars, wop, histVars>>

\* Under the lock: copy the slot at tail out and free it.
Take(w) ==
  /\ wpc[w] = "loop" /\ ~Empty
  /\ wop' = [wop EXCEPT ![w] = ring[tail]]
  /\ tail' = Succ(tail)
  /\ wpc' = [wpc EXCEPT ![w] = "write"]
  /\ UNCHANGED <<ring, head, ctlVars, drops, prodVars, curPath, histVars>>

\* Outside the lock: the file, reopened if the path changed, takes the line.
WriteLine(w) ==
  /\ wpc[w] = "write"
  /\ curPath' = [curPath EXCEPT ![w] = wop[w].path]
  /\ written' = Append(written, wop[w])
  /\ done' = done + 1
  /\ wpc' = [wpc EXCEPT ![w] = "loop"]
  /\ UNCHANGED <<ringVars, ctlVars, drops, prodVars, wop, accepted, synced>>

LoseLineUncounted(w) ==
  /\ wpc[w] = "write"
  /\ curPath' = [curPath EXCEPT ![w] = NoPath]
  /\ done' = done + 1
  /\ wpc' = [wpc EXCEPT ![w] = "loop"]
  /\ UNCHANGED <<ringVars, ctlVars, drops, prodVars, wop, accepted, written,
                 synced>>

\* fopen or fputs fails: the next line opens its file afresh, this one counts
\* as a drop.
LoseLine(w) ==
  /\ wpc[w] = "write"
  /\ curPath' = [curPath EXCEPT ![w] = NoPath]
  /\ drops' = drops + 1
  /\ done' = done + 1
  /\ wpc' = [wpc EXCEPT ![w] = "loop"]
  /\ UNCHANGED <<ringVars, ctlVars, prodVars, wop, accepted, written, synced>>

-----------------------------------------------------------------------------
EnqueueStep(p) == \/ Ensure(p) \/ AlreadySpawned(p) \/ Spawn(p) \/ SpawnFails(p)
                  \/ PushFull(p) \/ Push(p) \/ Notify(p)

ShutdownStep == SetStop \/ WakeForStop \/ Join \/ ClearRunning \/ ClearStop

WriterStep(w) == Sleep(w) \/ Quit(w) \/ Take(w) \/ WriteLine(w) \/ LoseLine(w)

Next ==
  \/ \E p \in Producers : EnqueueStep(p) \/ \E f \in Paths : Call(p, f)
  \/ Shutdown \/ ShutdownStep
  \/ \E w \in Writers : WriterStep(w) \/ SpuriousWake(w)

Spec == Init /\ [][Next]_vars

\* The threads are scheduled and file operations return: a call that is under
\* way goes on, and so does the writer.  Nobody has to log, to shut down or to
\* wake up without a reason.
Fairness == /\ \A p \in Producers : WF_vars(EnqueueStep(p))
            /\ WF_vars(ShutdownStep)
            /\ \A w \in Writers : WF_vars(WriterStep(w))

FairSpec == Spec /\ Fairness

-----------------------------------------------------------------------------
(* Properties *)

TypeOK ==
  /\ ring \in [Slots -> Op \cup {NoOp}] /\ head \in Slots /\ tail \in Slots
  /\ running \in BOOLEAN /\ stop \in BOOLEAN /\ thread \in Writers
  /\ drops \in Nat
  /\ ppc \in [Producers -> {"idle", "ensure", "spawn", "push", "notify", "stop",
                            "wake", "join", "joined", "unstop"}]
  /\ arg \in [Producers -> Op \cup {NoOp}]
  /\ logged \in 0 .. MaxLines
  /\ wpc \in [Writers -> {"none", "loop", "waiting", "write", "exited"}]
  /\ wop \in [Writers -> Op \cup {NoOp}]
  /\ curPath \in [Writers -> Paths \cup {NoPath}]
  /\ accepted \in Seq(Op) /\ written \in Seq(Op)
  /\ done \in Nat /\ synced \in Nat

\* Two writers would each own a FILE* on the same log and split the ring
\* between them.  However the producers race in KTP_ALogEnsureThread, and
\* whenever AsyncShutdown runs, at most one writer thread is alive.
SingleWriter == \A v, w \in Writers : Live(v) /\ Live(w) => v = w

\* How many operations the writer has in its hands and how many used slots the
\* ring has, and the slot k places after tail.
Held == IF \E w \in Writers : wpc[w] = "write" THEN 1 ELSE 0
Used == IF head >= tail THEN head - tail ELSE head + QSize - tail
SlotAt(k) == IF tail + k < QSize THEN tail + k ELSE tail + k - QSize

\* The ring neither overwrites, skips, duplicates nor reorders a line: what
\* was accepted and not yet disposed of is exactly the line in the writer's
\* hands followed by the used slots.
RingIsFifo ==
  /\ Len(accepted) = done + Held + Used
  /\ \A w \in Writers : wpc[w] = "write" => wop[w] = accepted[done + 1]
  /\ \A k \in Slots : k < Used => ring[SlotAt(k)] = accepted[done + Held + k + 1]

\* No line vanishes silently: each one handed over is still in its caller's
\* hands, was left to the synchronous path, was written, is pending, or is in
\* the drop count that the next map change reports.
HandingOver == {p \in Producers : ppc[p] \in {"ensure", "spawn", "push"}}
EveryLineAccounted ==
  logged = Cardinality(HandingOver) + synced + Len(written)
           + (Len(accepted) - done) + drops

ShuttingDown == ppc[Game] \in {"stop", "wake", "join", "joined"}

\* "Drains the queue and joins the writer, so the last lines hit disk before
\* the library unloads" (amxxlog.cpp:242): a shutdown that has a writer to stop
\* is not over before it has disposed of every line that was in the ring.
DrainedWhenJoined ==
  \A n \in 1 .. MaxLines :
    ppc[Game] = "stop" /\ Live(thread) /\ Len(accepted) >= n
      ~> ShuttingDown /\ done >= n

\* What a module thread can bring about by logging during AsyncShutdown: it
\* hands over a line when the writer has already left, or creates a writer
\* between the stores to s_ktpALogThreadRunning and s_ktpALogStop, and that one
\* sees the flag of a shutdown that is over and ends with the running flag set.
Abandoned == ~ShuttingDown /\ \A w \in Writers : ~Live(w)

\* Every accepted line is eventually written or counted: no wakeup gets lost
\* between the writer's test and its wait, or between the unlock and the
\* notification.  The only way out is that a shutdown left no writer behind.
AcceptedIsDisposedOf ==
  \A n \in 1 .. MaxLines : Len(accepted) >= n ~> done >= n \/ Abandoned

\* AsyncShutdown, which runs inside dlclose, always comes back.
ShutdownReturns == ppc[Game] = "join" ~> ppc[Game] = "idle"

\* LogQueue implements the channel its callers are promised: the used slots of
\* the ring, from tail on, are the lines that wait, one slot always staying free,
\* and the operation copied out of it is the one in the writer's hands.
Waiting == [k \in 1 .. Used |-> ring[SlotAt(k - 1)]]
InHand == {wop[w] : w \in {v \in Writers : wpc[v] = "write"}}
Channel == INSTANCE LogChannel WITH
  Line <- Op, Cap <- QSize - 1,
  queue <- Waiting, hand <- InHand, written <- written, lost <- drops
ImplementsChannel == Channel!ChanSpec

=============================================================================
