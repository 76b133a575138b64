--------------------------- MODULE LogQueueProofs ---------------------------
(***************************************************************************)
(* Proofs about LogQueue, for any number of producers, any ring size above *)
(* one and any set of files.                                               *)
(***************************************************************************)
EXTENDS LogQueue, SequenceTheorems, FiniteSetTheorems, TLAPS

\* A producer that is handing an operation over has one in its hands.
ArgIsOp == \A p \in Producers :
             ppc[p] \in {"ensure", "spawn", "push"} => arg[p] \in Op

\* Only the thread named by s_ktpALogThreadId is anything, and it is something
\* only between the store that follows its creation and the join.
OneThread ==
  /\ \A w \in Writers : w # thread => wpc[w] = "none"
  /\ ~running => wpc[thread] = "none"
  /\ ppc[Game] = "joined" => wpc[thread] = "none"
  /\ ppc[Game] \in {"stop", "wake", "join", "joined"} => running

IInv == TypeOK /\ ArgIsOp /\ OneThread /\ RingIsFifo

USE QSizeAssumption, GameAssumption, NoPathAssumption, MaxLinesAssumption

LEMMA SuccInSlots == ASSUME NEW i \in Slots PROVE Succ(i) \in Slots
  BY DEF Slots, Succ

\* Filling the slot at head of a ring that is not full adds one used slot, the
\* last one, and moves none of the others.
LEMMA PushRing ==
  ASSUME NEW h \in Slots, NEW t \in Slots, Succ(h) # t
  PROVE  LET U(x) == IF x >= t THEN x - t ELSE x + QSize - t
             S(k) == IF t + k < QSize THEN t + k ELSE t + k - QSize
         IN /\ U(Succ(h)) = U(h) + 1
            /\ S(U(h)) = h
            /\ \A k \in Slots : k < U(h) => S(k) # h
  BY DEF Slots, Succ

\* Freeing the slot at tail of a ring that is not empty removes the first used
\* slot and shifts the others down by one.
LEMMA TakeRing ==
  ASSUME NEW h \in Slots, NEW t \in Slots, h # t
  PROVE  LET U(x) == IF h >= x THEN h - x ELSE h + QSize - x
             S(x, k) == IF x + k < QSize THEN x + k ELSE x + k - QSize
         IN /\ U(Succ(t)) = U(t) - 1
            /\ S(t, 0) = t
            /\ \A k \in Slots : k < U(t) - 1 => S(Succ(t), k) = S(t, k + 1)
  BY DEF Slots, Succ

LEMMA InitIInv == Init => IInv
<1> SUFFICES ASSUME Init PROVE IInv
  OBVIOUS
<1> USE DEF Init
<1>1. TypeOK
  <2>1. accepted \in Seq(Op) /\ written \in Seq(Op)
    BY EmptySeq
  <2>2. 0 \in Slots
    BY DEF Slots
  <2>3. ring \in [Slots -> Op \cup {NoOp}]
    BY Zenon
  <2>4. /\ arg \in [Producers -> Op \cup {NoOp}]
        /\ wop \in [Writers -> Op \cup {NoOp}]
    OBVIOUS
  <2>5. curPath \in [Writers -> Paths \cup {NoPath}]
    OBVIOUS
  <2>6. ppc \in [Producers -> {"idle", "ensure", "spawn", "push", "notify",
                             "stop", "wake", "join", "joined", "unstop"}]
    OBVIOUS
  <2>7. wpc \in [Writers -> {"none", "loop", "waiting", "write", "exited"}]
    OBVIOUS
  <2>8. /\ thread \in Writers /\ drops \in Nat /\ logged \in 0 .. MaxLines
        /\ done \in Nat /\ synced \in Nat
    OBVIOUS
  <2> QED
    BY <2>1, <2>2, <2>3, <2>4, <2>5, <2>6, <2>7, <2>8 DEF TypeOK
<1>2. ArgIsOp
  BY DEF ArgIsOp
<1>3. OneThread
  BY DEF OneThread
<1>4. RingIsFifo
  <2>1. Held = 0 /\ Used = 0
    BY DEF Held, Used
  <2> QED
    BY <2>1 DEF RingIsFifo, Slots
<1> QED
  BY <1>1, <1>2, <1>3, <1>4 DEF IInv

\* An action that leaves the ring, the history and the set of threads that hold
\* an operation alone keeps the ring a FIFO.
LEMMA RingUntouched ==
  ASSUME IInv, UNCHANGED <<ring, head, tail, accepted, done, wop>>,
         \A w \in Writers : wpc'[w] = "write" <=> wpc[w] = "write"
  PROVE  RingIsFifo'
<1>1. Held' = Held /\ Used' = Used
  BY DEF Held, Used
<1>2. \A k \in Slots : SlotAt(k)' = SlotAt(k)
  BY DEF SlotAt
<1> QED
  BY <1>1, <1>2 DEF IInv, RingIsFifo

\* What notify_one does to the writers.
LEMMA NotifyEffect ==
  ASSUME IInv, NotifyOne
  PROVE  /\ wpc' \in [Writers -> {"none", "loop", "waiting", "write", "exited"}]
         /\ \A w \in Writers : wpc'[w] = "write" <=> wpc[w] = "write"
         /\ \A w \in Writers : wpc'[w] = "none" <=> wpc[w] = "none"
<1> USE DEF IInv, TypeOK
<1>1. CASE UNCHANGED wpc
  BY <1>1
<1>2. CASE \E w \in {u \in Writers : wpc[u] = "waiting"} :
             wpc' = [wpc EXCEPT ![w] = "loop"]
  BY <1>2
<1> QED
  BY <1>1, <1>2 DEF NotifyOne

\* The steps of KTP_ALogEnqueue.
LEMMA EnqueueIInv ==
  ASSUME IInv, NEW p \in Producers, EnqueueStep(p)
  PROVE  IInv'
<1> USE DEF IInv, ctlVars, prodVars, wrtVars, ringVars, histVars, Goto
<1>1. CASE Ensure(p)
  <2> USE <1>1 DEF Ensure
  <2>1. TypeOK'
    BY DEF TypeOK
  <2>2. ArgIsOp'
    BY DEF ArgIsOp, TypeOK
  <2>3. OneThread'
    BY DEF OneThread, TypeOK
  <2>4. RingIsFifo'
    BY RingUntouched
  <2> QED
    BY <2>1, <2>2, <2>3, <2>4
<1>2. CASE AlreadySpawned(p)
  <2> USE <1>2 DEF AlreadySpawned
  <2>1. TypeOK'
    BY DEF TypeOK
  <2>2. ArgIsOp'
    BY DEF ArgIsOp, TypeOK
  <2>3. OneThread'
    BY DEF OneThread, TypeOK
  <2>4. RingIsFifo'
    BY RingUntouched
  <2> QED
    BY <2>1, <2>2, <2>3, <2>4
<1>3. CASE Spawn(p)
  <2> USE <1>3 DEF Spawn
  <2>1. TypeOK'
    BY DEF TypeOK
  <2>2. ArgIsOp'
    BY DEF ArgIsOp, TypeOK
  <2>3. OneThread'
    BY DEF OneThread, TypeOK
  <2>4. \A w \in Writers : wpc'[w] = "write" <=> wpc[w] = "write"
    BY DEF TypeOK
  <2>5. RingIsFifo'
    BY <2>4, RingUntouched
  <2> QED
    BY <2>1, <2>2, <2>3, <2>5
<1>4. CASE SpawnFails(p)
  <2> USE <1>4 DEF SpawnFails
  <2>1. TypeOK'
    BY DEF TypeOK
  <2>2. ArgIsOp'
    BY DEF ArgIsOp, TypeOK
  <2>3. OneThread'
    BY DEF OneThread, TypeOK
  <2>4. RingIsFifo'
    BY RingUntouched
  <2> QED
    BY <2>1, <2>2, <2>3, <2>4
<1>5. CASE PushFull(p)
  <2> USE <1>5 DEF PushFull
  <2>1. TypeOK'
    BY DEF TypeOK
  <2>2. ArgIsOp'
    BY DEF ArgIsOp, TypeOK
  <2>3. OneThread'
    BY DEF OneThread, TypeOK
  <2>4. RingIsFifo'
    BY RingUntouched
  <2> QED
    BY <2>1, <2>2, <2>3, <2>4
<1>6. CASE Push(p)
  <2> USE <1>6 DEF Push
  <2>1. arg[p] \in Op
    BY DEF ArgIsOp
  <2>2. TypeOK'
    <3>1. accepted' \in Seq(Op)
      BY <2>1, AppendProperties DEF TypeOK
    <3>2. Succ(head) \in Slots
      BY SuccInSlots DEF TypeOK
    <3> QED
      BY <2>1, <3>1, <3>2 DEF TypeOK
  <2>3. ArgIsOp'
    BY DEF ArgIsOp, TypeOK
  <2>4. OneThread'
    BY DEF OneThread, TypeOK
  <2>5. RingIsFifo'
    <3>1. /\ Held' = Held /\ Used' = Used + 1 /\ SlotAt(Used) = head
          /\ \A k \in Slots : SlotAt(k)' = SlotAt(k)
          /\ \A k \in Slots : k < Used => SlotAt(k) # head
      BY PushRing DEF TypeOK, Full, Held, Used, SlotAt
    <3>2. /\ Len(accepted') = Len(accepted) + 1
          /\ \A i \in 1 .. Len(accepted) : accepted'[i] = accepted[i]
          /\ accepted'[Len(accepted) + 1] = arg[p]
      BY <2>1, AppendProperties DEF TypeOK
    <3>3. Held \in {0, 1} /\ Used \in Slots /\ Len(accepted) \in Nat
      BY DEF Held, Used, TypeOK, Slots
    <3>4. Len(accepted) = done + Held + Used /\ done \in Nat /\ done' = done
      BY DEF RingIsFifo, TypeOK
    <3>5. Len(accepted') = done' + Held' + Used'
      BY <3>4, <3>1, <3>2, <3>3 DEF Slots
    <3>6. ASSUME NEW w \in Writers, wpc'[w] = "write"
          PROVE  wop'[w] = accepted'[done' + 1]
      <4>1. Held = 1 /\ wop[w] = accepted[done + 1]
        BY <3>6 DEF Held, RingIsFifo
      <4>2. done + 1 \in 1 .. Len(accepted)
        BY <4>1, <3>4, <3>3 DEF Slots
      <4> QED
        BY <4>1, <4>2, <3>2
    <3>7. ASSUME NEW k \in Slots, k < Used'
          PROVE  ring'[SlotAt(k)'] = accepted'[done' + Held' + k + 1]
      <4>1. CASE k < Used
        <5>1. ring[SlotAt(k)] = accepted[done + Held + k + 1]
          BY <4>1 DEF RingIsFifo
        <5>2. done + Held + k + 1 \in 1 .. Len(accepted)
          BY <4>1, <3>4, <3>3 DEF Slots
        <5>3. SlotAt(k) \in Slots
          BY DEF SlotAt, TypeOK, Slots
        <5> QED
          BY <4>1, <5>1, <5>2, <5>3, <3>1, <3>2 DEF TypeOK
      <4>2. CASE k = Used
        <5>1. done + Held + k + 1 = Len(accepted) + 1
          BY <4>2, <3>4, <3>3 DEF Slots
        <5>2. SlotAt(k)' = head
          BY <4>2, <3>1
        <5>3. ring'[head] = arg[p]
          BY DEF TypeOK
        <5>4. done' + Held' + k + 1 = Len(accepted) + 1
          BY <5>1, <3>4, <3>1
        <5> QED
          BY <5>2, <5>3, <5>4, <3>2
      <4>3. k < Used \/ k = Used
        BY <3>1, <3>3, <3>7 DEF Slots
      <4> QED
        BY <4>1, <4>2, <4>3
    <3> QED
      BY <3>5, <3>6, <3>7 DEF RingIsFifo
  <2> QED
    BY <2>2, <2>3, <2>4, <2>5
<1>7. CASE Notify(p)
  <2> USE <1>7 DEF Notify
  <2>1. TypeOK'
    BY NotifyEffect DEF TypeOK
  <2>2. ArgIsOp'
    BY DEF ArgIsOp, TypeOK
  <2>3. OneThread'
    BY NotifyEffect DEF OneThread, TypeOK
  <2>4. RingIsFifo'
    BY NotifyEffect, RingUntouched
  <2> QED
    BY <2>1, <2>2, <2>3, <2>4
<1> QED
  BY <1>1, <1>2, <1>3, <1>4, <1>5, <1>6, <1>7 DEF EnqueueStep

\* A call and the steps of CLog::AsyncShutdown.
LEMMA ShutdownIInv ==
  ASSUME IInv,
         \/ \E p \in Producers, f \in Paths : Call(p, f)
         \/ Shutdown
         \/ ShutdownStep
  PROVE  IInv'
<1> USE DEF IInv, ctlVars, prodVars, wrtVars, ringVars, histVars, Goto
<1>1. ASSUME NEW p \in Producers, NEW f \in Paths, Call(p, f)
      PROVE  IInv'
  <2> USE <1>1 DEF Call
  <2>1. [path |-> f, text |-> logged + 1] \in Op /\ logged + 1 \in 0 .. MaxLines
    BY DEF TypeOK, Op
  <2>2. TypeOK'
    BY <2>1 DEF TypeOK
  <2>3. ArgIsOp'
    BY <2>1 DEF ArgIsOp, TypeOK
  <2>4. OneThread'
    BY DEF OneThread, TypeOK
  <2>5. RingIsFifo'
    BY RingUntouched
  <2> QED
    BY <2>2, <2>3, <2>4, <2>5
<1>2. CASE Shutdown
  <2> USE <1>2 DEF Shutdown
  <2>1. TypeOK'
    BY DEF TypeOK
  <2>2. ArgIsOp'
    BY DEF ArgIsOp, TypeOK
  <2>3. OneThread'
    BY DEF OneThread, TypeOK
  <2>4. RingIsFifo'
    BY RingUntouched
  <2> QED
    BY <2>1, <2>2, <2>3, <2>4
<1>3. CASE SetStop
  <2> USE <1>3 DEF SetStop
  <2>1. TypeOK'
    BY DEF TypeOK
  <2>2. ArgIsOp'
    BY DEF ArgIsOp, TypeOK
  <2>3. OneThread'
    BY DEF OneThread, TypeOK
  <2>4. RingIsFifo'
    BY RingUntouched
  <2> QED
    BY <2>1, <2>2, <2>3, <2>4
<1>4. CASE WakeForStop
  <2> USE <1>4 DEF WakeForStop
  <2>1. TypeOK'
    BY NotifyEffect DEF TypeOK
  <2>2. ArgIsOp'
    BY DEF ArgIsOp, TypeOK
  <2>3. OneThread'
    BY NotifyEffect DEF OneThread, TypeOK
  <2>4. RingIsFifo'
    BY NotifyEffect, RingUntouched
  <2> QED
    BY <2>1, <2>2, <2>3, <2>4
<1>5. CASE Join
  <2> USE <1>5 DEF Join
  <2>1. TypeOK'
    BY DEF TypeOK
  <2>2. ArgIsOp'
    BY DEF ArgIsOp, TypeOK
  <2>3. OneThread'
    BY DEF OneThread, TypeOK
  <2>4. \A w \in Writers : wpc'[w] = "write" <=> wpc[w] = "write"
    BY DEF TypeOK
  <2>5. RingIsFifo'
    BY <2>4, RingUntouched
  <2> QED
    BY <2>1, <2>2, <2>3, <2>5
<1>6. CASE ClearRunning
  <2> USE <1>6 DEF ClearRunning
  <2>1. TypeOK'
    BY DEF TypeOK
  <2>2. ArgIsOp'
    BY DEF ArgIsOp, TypeOK
  <2>3. OneThread'
    BY DEF OneThread, TypeOK
  <2>4. RingIsFifo'
    BY RingUntouched
  <2> QED
    BY <2>1, <2>2, <2>3, <2>4
<1>7. CASE ClearStop
  <2> USE <1>7 DEF ClearStop
  <2>1. TypeOK'
    BY DEF TypeOK
  <2>2. ArgIsOp'
    BY DEF ArgIsOp, TypeOK
  <2>3. OneThread'
    BY DEF OneThread, TypeOK
  <2>4. RingIsFifo'
    BY RingUntouched
  <2> QED
    BY <2>1, <2>2, <2>3, <2>4
<1> QED
  BY <1>1, <1>2, <1>3, <1>4, <1>5, <1>6, <1>7 DEF ShutdownStep

\* Only the current thread takes steps, so it alone decides what is held.
LEMMA HeldByThread ==
  ASSUME IInv
  PROVE  /\ Held = IF wpc[thread] = "write" THEN 1 ELSE 0
         /\ \A w \in Writers : wpc[w] # "none" => w = thread
  BY DEF IInv, OneThread, TypeOK, Held

\* The steps of KTP_ALogWriterLoop.
LEMMA WriterIInv ==
  ASSUME IInv, NEW w \in Writers, WriterStep(w) \/ SpuriousWake(w)
  PROVE  IInv'
<1> USE DEF IInv, ctlVars, prodVars, wrtVars, ringVars, histVars
<1>1. CASE Sleep(w)
  <2> USE <1>1 DEF Sleep
  <2>1. TypeOK'
    BY DEF TypeOK
  <2>2. ArgIsOp'
    BY DEF ArgIsOp, TypeOK
  <2>3. OneThread'
    BY DEF OneThread, TypeOK
  <2>4. \A v \in Writers : wpc'[v] = "write" <=> wpc[v] = "write"
    BY DEF TypeOK
  <2>5. RingIsFifo'
    BY <2>4, RingUntouched
  <2> QED
    BY <2>1, <2>2, <2>3, <2>5
<1>2. CASE SpuriousWake(w)
  <2> USE <1>2 DEF SpuriousWake
  <2>1. TypeOK'
    BY DEF TypeOK
  <2>2. ArgIsOp'
    BY DEF ArgIsOp, TypeOK
  <2>3. OneThread'
    BY DEF OneThread, TypeOK
  <2>4. \A v \in Writers : wpc'[v] = "write" <=> wpc[v] = "write"
    BY DEF TypeOK
  <2>5. RingIsFifo'
    BY <2>4, RingUntouched
  <2> QED
    BY <2>1, <2>2, <2>3, <2>5
<1>3. CASE Quit(w)
  <2> USE <1>3 DEF Quit
  <2>1. TypeOK'
    BY DEF TypeOK
  <2>2. ArgIsOp'
    BY DEF ArgIsOp, TypeOK
  <2>3. OneThread'
    BY DEF OneThread, TypeOK
  <2>4. \A v \in Writers : wpc'[v] = "write" <=> wpc[v] = "write"
    BY DEF TypeOK
  <2>5. RingIsFifo'
    BY <2>4, RingUntouched
  <2> QED
    BY <2>1, <2>2, <2>3, <2>5
<1>4. CASE Take(w)
  <2> USE <1>4 DEF Take
  <2>1. Succ(tail) \in Slots
    BY SuccInSlots DEF TypeOK
  <2>2. TypeOK'
    BY <2>1 DEF TypeOK
  <2>3. ArgIsOp'
    BY DEF ArgIsOp, TypeOK
  <2>4. OneThread'
    BY DEF OneThread, TypeOK
  <2>5. RingIsFifo'
    <3>1. /\ Used' = Used - 1 /\ SlotAt(0) = tail
          /\ \A k \in Slots : k < Used - 1 => SlotAt(k)' = SlotAt(k + 1)
      BY TakeRing DEF TypeOK, Empty, Used, SlotAt
    <3>2. Held = 0 /\ Held' = 1 /\ w = thread
      <4>1. w = thread /\ wpc[thread] # "write"
        BY HeldByThread
      <4>2. wpc'[w] = "write"
        BY DEF TypeOK
      <4> QED
        BY <4>1, <4>2, HeldByThread DEF Held
    <3>3. Used \in Slots /\ Used > 0
      BY DEF Used, TypeOK, Slots, Empty
    <3>4. Len(accepted) = done + Held + Used /\ done \in Nat
      BY DEF RingIsFifo, TypeOK
    <3>5. Len(accepted') = done' + Held' + Used'
      BY <3>1, <3>2, <3>3, <3>4 DEF Slots
    <3>6. ASSUME NEW v \in Writers, wpc'[v] = "write"
          PROVE  wop'[v] = accepted'[done' + 1]
      <4>1. ring[SlotAt(0)] = accepted[done + Held + 0 + 1]
        BY <3>3 DEF RingIsFifo, Slots
      <4>2. ring[tail] = accepted[done + 1]
        BY <4>1, <3>1, <3>2, <3>4
      <4>3. v = w
        BY <3>6, HeldByThread DEF TypeOK
      <4> QED
        BY <4>2, <4>3 DEF TypeOK
    <3>7. ASSUME NEW k \in Slots, k < Used'
          PROVE  ring'[SlotAt(k)'] = accepted'[done' + Held' + k + 1]
      <4>1. k + 1 \in Slots /\ k + 1 < Used
        BY <3>1, <3>3, <3>7 DEF Slots
      <4>2. ring[SlotAt(k + 1)] = accepted[done + Held + (k + 1) + 1]
        BY <4>1 DEF RingIsFifo
      <4>3. SlotAt(k)' = SlotAt(k + 1)
        BY <3>1, <3>7, <3>3
      <4>4. done + Held + (k + 1) + 1 = done' + Held' + k + 1
        BY <3>2, <3>4 DEF Slots
      <4> QED
        BY <4>2, <4>3, <4>4
    <3> QED
      BY <3>5, <3>6, <3>7 DEF RingIsFifo
  <2> QED
    BY <2>2, <2>3, <2>4, <2>5
<1>5. CASE WriteLine(w) \/ LoseLine(w)
  <2> USE <1>5 DEF WriteLine, LoseLine
  <2>1. wop[w] = accepted[done + 1] /\ wop[w] \in Op /\ Held = 1
    <3>1. Held = 1 /\ wop[w] = accepted[done + 1]
      BY DEF Held, RingIsFifo
    <3>2. Used \in Nat /\ Len(accepted) = done + 1 + Used /\ done \in Nat
      BY <3>1 DEF RingIsFifo, TypeOK, Used, Slots
    <3>3. done + 1 \in 1 .. Len(accepted)
      BY <3>2
    <3> QED
      BY <3>1, <3>3, ElementOfSeq DEF TypeOK
  <2>2. TypeOK'
    <3>1. Append(written, wop[w]) \in Seq(Op)
      BY <2>1, AppendProperties DEF TypeOK
    <3>2. wop[w].path \in Paths
      BY <2>1 DEF Op
    <3>3. wpc' \in [Writers -> {"none", "loop", "waiting", "write", "exited"}]
      BY DEF TypeOK
    <3>4. curPath' \in [Writers -> Paths \cup {NoPath}]
      BY <3>2 DEF TypeOK
    <3>5. written' \in Seq(Op) /\ done' \in Nat /\ drops' \in Nat
      <4>1. written' \in {written, Append(written, wop[w])}
        OBVIOUS
      <4>2. drops' \in {drops, drops + 1} /\ done' = done + 1
        OBVIOUS
      <4>3. written \in Seq(Op) /\ drops \in Nat /\ done \in Nat
        BY DEF TypeOK
      <4>4. written' \in Seq(Op)
        BY <4>1, <4>3, <3>1, Zenon
      <4>5. drops' \in Nat /\ done' \in Nat
        BY <4>2, <4>3
      <4> QED
        BY <4>4, <4>5
    <3> QED
      BY <3>3, <3>4, <3>5 DEF TypeOK
  <2>3. ArgIsOp'
    BY DEF ArgIsOp, TypeOK
  <2>4. OneThread'
    BY DEF OneThread, TypeOK
  <2>5. RingIsFifo'
    <3>1. w = thread /\ \A v \in Writers : wpc'[v] # "write"
      BY HeldByThread DEF TypeOK
    <3>2. Held' = 0 /\ Used' = Used
      BY <3>1 DEF Held, Used
    <3>3. Len(accepted) = done + 1 + Used /\ done \in Nat /\ Used \in Nat
      <4>1. Len(accepted) = done + Held + Used
        BY DEF RingIsFifo
      <4>2. Used \in Nat /\ done \in Nat
        BY DEF TypeOK, Used, Slots
      <4> QED
        BY <4>1, <4>2, <2>1
    <3>4. \A k \in Slots : /\ SlotAt(k)' = SlotAt(k)
                           /\ done' + Held' + k + 1 = done + Held + k + 1
      <4>1. done' = done + 1 /\ tail' = tail
        OBVIOUS
      <4>2. \A k \in Slots : SlotAt(k)' = SlotAt(k)
        BY <4>1 DEF SlotAt
      <4>3. \A k \in Nat : done' + Held' + k + 1 = done + Held + k + 1
        BY <4>1, <2>1, <3>2, <3>3
      <4> QED
        BY <4>2, <4>3 DEF Slots
    <3>5. Len(accepted') = done' + Held' + Used'
      BY <3>2, <3>3
    <3>6. \A k \in Slots : k < Used' =>
            ring'[SlotAt(k)'] = accepted'[done' + Held' + k + 1]
      BY <3>2, <3>4 DEF RingIsFifo
    <3> QED
      BY <3>1, <3>5, <3>6 DEF RingIsFifo
  <2> QED
    BY <2>2, <2>3, <2>4, <2>5
<1> QED
  BY <1>1, <1>2, <1>3, <1>4, <1>5 DEF WriterStep

LEMMA NextIInv == IInv /\ [Next]_vars => IInv'
<1> SUFFICES ASSUME IInv, [Next]_vars PROVE IInv'
  OBVIOUS
<1>1. CASE \E p \in Producers : EnqueueStep(p)
  BY <1>1, EnqueueIInv
<1>2. CASE \/ \E p \in Producers, f \in Paths : Call(p, f)
           \/ Shutdown
           \/ ShutdownStep
  BY <1>2, ShutdownIInv
<1>3. CASE \E w \in Writers : WriterStep(w) \/ SpuriousWake(w)
  BY <1>3, WriterIInv
<1>4. CASE UNCHANGED vars
  <2> USE <1>4 DEF vars, ctlVars, prodVars, wrtVars, ringVars, histVars, IInv
  <2>1. TypeOK' /\ ArgIsOp' /\ OneThread'
    BY DEF TypeOK, ArgIsOp, OneThread
  <2>2. RingIsFifo'
    BY RingUntouched
  <2> QED
    BY <2>1, <2>2
<1> QED
  BY <1>1, <1>2, <1>3, <1>4 DEF Next

\* Every state of every behaviour is well typed and, whatever the number of
\* producers and the size of the ring, lines leave the ring in the order in
\* which KTP_ALogEnqueue put them in, none lost, doubled or overwritten.
THEOREM RingIsFifoAlways == Spec => [](TypeOK /\ RingIsFifo)
<1>1. IInv => TypeOK /\ RingIsFifo
  BY DEF IInv
<1> QED
  BY <1>1, InitIInv, NextIInv, PTL DEF Spec

\* KTP_ALogEnsureThread and AsyncShutdown never leave two writers alive.
THEOREM SingleWriterAlways == Spec => []SingleWriter
<1>1. IInv => SingleWriter
  BY HeldByThread DEF SingleWriter, Live, IInv, TypeOK
<1> QED
  BY <1>1, InitIInv, NextIInv, PTL DEF Spec

-----------------------------------------------------------------------------
(* LogQueue implements LogChannel *)

\* A function on 1 .. n is a sequence of that length.
LEMMA FunctionIsSeq ==
  ASSUME NEW S, NEW n \in Nat, NEW f \in [1 .. n -> S]
  PROVE  f \in Seq(S) /\ Len(f) = n
  OBVIOUS

\* What the channel's queue is: as long as the ring has used slots, each line
\* in its place.
LEMMA WaitingShape ==
  ASSUME IInv
  PROVE  /\ Waiting \in Seq(Op \cup {NoOp}) /\ Used \in Slots
         /\ Len(Waiting) = Used
         /\ \A k \in Slots : k < Used => Waiting[k + 1] = ring[SlotAt(k)]
<1>1. Used \in Slots
  BY DEF IInv, TypeOK, Used, Slots
<1>2. \A k \in Slots : SlotAt(k) \in Slots
  BY DEF IInv, TypeOK, SlotAt, Slots
<1>3. \A k \in 1 .. Used : k - 1 \in Slots
  BY <1>1 DEF Slots
<1>4. Waiting \in [1 .. Used -> Op \cup {NoOp}]
  BY <1>2, <1>3 DEF Waiting, IInv, TypeOK
<1>5. Used \in Nat
  BY <1>1 DEF Slots
<1>6. ASSUME NEW k \in Slots, k < Used
      PROVE  Waiting[k + 1] = ring[SlotAt(k)]
  <2>1. k + 1 \in 1 .. Used /\ (k + 1) - 1 = k
    BY <1>5, <1>6 DEF Slots
  <2> QED
    BY <2>1 DEF Waiting
<1> QED
  BY <1>1, <1>4, <1>5, <1>6, FunctionIsSeq

\* What the channel's hand is: the writer's, if it has an operation there.
LEMMA HandShape ==
  ASSUME IInv
  PROVE  InHand = IF wpc[thread] = "write" THEN {wop[thread]} ELSE {}
<1>1. {w \in Writers : wpc[w] = "write"} = IF wpc[thread] = "write" THEN {thread}
                                           ELSE {}
  BY HeldByThread DEF IInv, TypeOK
<1> QED
  BY <1>1 DEF InHand

Shapes ==
  /\ Waiting \in Seq(Op \cup {NoOp}) /\ Used \in Slots /\ Len(Waiting) = Used
  /\ \A k \in Slots : k < Used => Waiting[k + 1] = ring[SlotAt(k)]
  /\ InHand = IF wpc[thread] = "write" THEN {wop[thread]} ELSE {}

LEMMA ShapesAfter == IInv' => Shapes'
<1>1. IInv => Shapes
  BY WaitingShape, HandShape DEF Shapes
<1> QED
  BY <1>1, PTL

LEMMA ChannelStep == IInv /\ [Next]_vars => [Channel!ChanNext]_Channel!chanVars
<1> SUFFICES ASSUME IInv, [Next]_vars PROVE [Channel!ChanNext]_Channel!chanVars
  OBVIOUS
<1> USE DEF ctlVars, prodVars, wrtVars, ringVars, histVars, Channel!chanVars
<1>0. /\ Waiting' \in Seq(Op \cup {NoOp}) /\ Used' \in Slots
      /\ Len(Waiting') = Used'
      /\ \A k \in Slots : k < Used' => Waiting'[k + 1] = ring'[SlotAt(k)']
      /\ InHand' = IF wpc'[thread'] = "write" THEN {wop'[thread']} ELSE {}
  <2>1. IInv'
    BY NextIInv
  <2> QED
    BY <2>1, ShapesAfter DEF Shapes
<1>1. ASSUME UNCHANGED <<ring, head, tail, wop, written, drops>>,
             \A w \in Writers : wpc'[w] = "write" <=> wpc[w] = "write"
      PROVE  UNCHANGED Channel!chanVars
  <2>1. Waiting' = Waiting
    BY <1>1 DEF Waiting, SlotAt, Used
  <2>2. InHand' = InHand
    BY <1>1 DEF InHand
  <2> QED
    BY <1>1, <2>1, <2>2
<1>2. ASSUME NEW p \in Producers, Push(p)
      PROVE  Channel!Accept(arg[p]) /\ arg[p] \in Op
  <2>1. arg[p] \in Op
    BY <1>2 DEF Push, IInv, ArgIsOp
  <2>2. /\ Used' = Used + 1 /\ SlotAt(Used) = head
        /\ \A k \in Slots : SlotAt(k)' = SlotAt(k)
        /\ \A k \in Slots : k < Used => SlotAt(k) # head
    BY <1>2, PushRing DEF Push, IInv, TypeOK, Full, Used, SlotAt
  <2>3. \A k \in Slots : k < Used => ring'[SlotAt(k)'] = ring[SlotAt(k)]
    BY <1>2, <2>2 DEF Push, IInv, TypeOK, SlotAt, Slots
  <2>4. \A k \in Slots : k = Used => ring'[SlotAt(k)'] = arg[p]
    BY <1>2, <2>2, WaitingShape DEF Push, IInv, TypeOK
  <2>5. /\ Append(Waiting, arg[p]) \in Seq(Op \cup {NoOp})
        /\ Len(Append(Waiting, arg[p])) = Used + 1
        /\ \A i \in 1 .. Used : Append(Waiting, arg[p])[i] = Waiting[i]
        /\ Append(Waiting, arg[p])[Used + 1] = arg[p]
    BY <2>1, WaitingShape, AppendProperties
  <2>6. /\ Waiting' \in Seq(Op \cup {NoOp}) /\ Len(Waiting') = Used + 1
        /\ \A k \in Slots : k < Used + 1 => Waiting'[k + 1] = ring'[SlotAt(k)']
    BY <1>0, <2>2
  <2>7. ASSUME NEW i \in 1 .. Used + 1
        PROVE  Waiting'[i] = Append(Waiting, arg[p])[i]
    <3>1. i - 1 \in Slots /\ i - 1 < Used + 1 /\ (i - 1) + 1 = i
      BY <1>0, <2>2, WaitingShape DEF Slots
    <3>2. Waiting'[i] = ring'[SlotAt(i - 1)']
      BY <3>1, <2>6
    <3>3. CASE i = Used + 1
      <4>1. i - 1 = Used
        BY <3>3, WaitingShape DEF Slots
      <4> QED
        BY <4>1, <3>1, <3>2, <3>3, <2>4, <2>5
    <3>4. CASE i # Used + 1
      <4>1. i \in 1 .. Used /\ i - 1 < Used
        BY <3>1, <3>4, WaitingShape DEF Slots
      <4>2. Waiting[(i - 1) + 1] = ring[SlotAt(i - 1)]
        BY <4>1, <3>1, WaitingShape
      <4> QED
        BY <4>1, <4>2, <3>1, <3>2, <2>3, <2>5
    <3> QED
      BY <3>3, <3>4
  <2>8. Waiting' = Append(Waiting, arg[p])
    BY <2>5, <2>6, <2>7, SeqEqual
  <2>9. Len(Waiting) < QSize - 1
    BY <1>2, WaitingShape DEF Push, Full, Succ, Used, IInv, TypeOK, Slots
  <2>10. InHand' = InHand
    BY <1>2 DEF Push, InHand
  <2> QED
    BY <1>2, <2>1, <2>8, <2>9, <2>10 DEF Push, Channel!Accept
<1>3. ASSUME NEW p \in Producers, PushFull(p)
      PROVE  Channel!Refuse
  <2>1. Len(Waiting) = QSize - 1
    BY <1>3, WaitingShape DEF PushFull, Full, Succ, Used, IInv, TypeOK, Slots
  <2>2. Waiting' = Waiting /\ InHand' = InHand
    BY <1>3 DEF PushFull, Waiting, SlotAt, Used, InHand
  <2> QED
    BY <1>3, <2>1, <2>2 DEF PushFull, Channel!Refuse
<1>4. ASSUME NEW w \in Writers, Take(w)
      PROVE  Channel!Take
  <2>1. w = thread /\ wpc[thread] = "loop"
    BY <1>4, HeldByThread DEF Take
  <2>2. InHand = {}
    BY <2>1, HandShape
  <2>3. wpc'[w] = "write" /\ thread' = thread /\ wop'[w] = ring[tail]
    BY <1>4 DEF Take, IInv, TypeOK
  <2>4. InHand' = {ring[tail]}
    BY <1>0, <2>1, <2>3
  <2>5. /\ Used' = Used - 1 /\ SlotAt(0) = tail
        /\ \A k \in Slots : k < Used - 1 => SlotAt(k)' = SlotAt(k + 1)
    BY <1>4, TakeRing DEF Take, IInv, TypeOK, Empty, Used, SlotAt
  <2>6. Used > 0 /\ Used \in Slots /\ 0 \in Slots
    BY <1>4 DEF Take, Used, IInv, TypeOK, Slots, Empty
  <2>7. Waiting # <<>> /\ Head(Waiting) = ring[tail]
    <3>1. Waiting[1] = ring[SlotAt(0)]
      BY <2>6, WaitingShape
    <3> QED
      BY <3>1, <2>5, <2>6, WaitingShape
  <2>8. /\ Tail(Waiting) \in Seq(Op \cup {NoOp}) /\ Len(Tail(Waiting)) = Used - 1
        /\ \A i \in 1 .. Used - 1 : Tail(Waiting)[i] = Waiting[i + 1]
    BY <2>7, WaitingShape, HeadTailProperties
  <2>9. /\ Waiting' \in Seq(Op \cup {NoOp}) /\ Len(Waiting') = Used - 1
        /\ \A k \in Slots : k < Used - 1 => Waiting'[k + 1] = ring'[SlotAt(k)']
    BY <1>0, <2>5
  <2>10. ASSUME NEW i \in 1 .. Used - 1
         PROVE  Waiting'[i] = Tail(Waiting)[i]
    <3>1. /\ i - 1 \in Slots /\ i - 1 < Used - 1 /\ (i - 1) + 1 = i
          /\ i \in Slots /\ i < Used
      BY <2>6 DEF Slots
    <3>2. Waiting'[i] = ring'[SlotAt(i - 1)']
      BY <3>1, <2>9
    <3>3. SlotAt(i - 1)' = SlotAt(i) /\ ring' = ring
      BY <1>4, <3>1, <2>5 DEF Take
    <3>4. Waiting[i + 1] = ring[SlotAt(i)]
      BY <3>1, WaitingShape
    <3> QED
      BY <3>2, <3>3, <3>4, <2>8
  <2>11. Waiting' = Tail(Waiting)
    BY <2>8, <2>9, <2>10, SeqEqual
  <2> QED
    BY <1>4, <2>2, <2>4, <2>7, <2>11 DEF Take, Channel!Take
<1>5. ASSUME NEW w \in Writers, WriteLine(w) \/ LoseLine(w)
      PROVE  Channel!Write \/ Channel!Lose
  <2>1. w = thread /\ wpc[thread] = "write"
    BY <1>5, HeldByThread DEF WriteLine, LoseLine
  <2>2. InHand = {wop[w]}
    BY <2>1, HandShape
  <2>3. wpc'[thread] = "loop" /\ thread' = thread
    BY <1>5, <2>1 DEF WriteLine, LoseLine, IInv, TypeOK
  <2>4. InHand' = {}
    BY <1>0, <2>3
  <2>5. Waiting' = Waiting
    BY <1>5 DEF WriteLine, LoseLine, Waiting, SlotAt, Used
  <2>6. CASE WriteLine(w)
    BY <2>6, <2>2, <2>4, <2>5 DEF WriteLine, Channel!Write
  <2>7. CASE LoseLine(w)
    BY <2>7, <2>2, <2>4, <2>5 DEF LoseLine, Channel!Lose
  <2> QED
    BY <1>5, <2>6, <2>7
<1>6. CASE \E p \in Producers : EnqueueStep(p)
  <2> PICK p \in Producers : EnqueueStep(p)
    BY <1>6
  <2>1. CASE Ensure(p) \/ AlreadySpawned(p) \/ SpawnFails(p)
    BY <2>1, <1>1 DEF Ensure, AlreadySpawned, SpawnFails
  <2>2. CASE Spawn(p)
    <3>1. \A w \in Writers : wpc'[w] = "write" <=> wpc[w] = "write"
      BY <2>2 DEF Spawn, IInv, TypeOK
    <3> QED
      BY <3>1, <2>2, <1>1 DEF Spawn
  <2>3. CASE Notify(p)
    BY <2>3, <1>1, NotifyEffect DEF Notify
  <2> QED
    BY <1>2, <1>3, <2>1, <2>2, <2>3 DEF EnqueueStep, Channel!ChanNext
<1>7. CASE \/ \E p \in Producers, f \in Paths : Call(p, f)
           \/ Shutdown \/ SetStop \/ ClearRunning \/ ClearStop
  BY <1>7, <1>1 DEF Call, Shutdown, SetStop, ClearRunning, ClearStop
<1>8. CASE WakeForStop
  BY <1>8, <1>1, NotifyEffect DEF WakeForStop
<1>9. CASE Join
  <2>1. \A w \in Writers : wpc'[w] = "write" <=> wpc[w] = "write"
    BY <1>9 DEF Join, IInv, TypeOK
  <2> QED
    BY <2>1, <1>9, <1>1 DEF Join
<1>10. CASE \E w \in Writers : WriterStep(w) \/ SpuriousWake(w)
  <2> PICK w \in Writers : WriterStep(w) \/ SpuriousWake(w)
    BY <1>10
  <2>1. CASE Sleep(w) \/ SpuriousWake(w) \/ Quit(w)
    <3>1. \A v \in Writers : wpc'[v] = "write" <=> wpc[v] = "write"
      BY <2>1 DEF Sleep, SpuriousWake, Quit, IInv, TypeOK
    <3>2. UNCHANGED <<ring, head, tail, wop, written, drops>>
      BY <2>1 DEF Sleep, SpuriousWake, Quit
    <3> QED
      BY <3>1, <3>2, <1>1
  <2> QED
    BY <1>4, <1>5, <2>1 DEF WriterStep, Channel!ChanNext
<1>11. CASE UNCHANGED vars
  BY <1>11, <1>1 DEF vars
<1> QED
  BY <1>6, <1>7, <1>8, <1>9, <1>10, <1>11 DEF Next, ShutdownStep

\* The ring, its mutex and its threads together are a FIFO channel for
\* QSize - 1 lines that refuses one only when it holds that many, and counts
\* what it loses: amxxlog.cpp's queue implements LogChannel.
THEOREM LogQueueImplementsChannel == Spec => ImplementsChannel
<1>1. Init => Channel!ChanInit
  <2> SUFFICES ASSUME Init PROVE Channel!ChanInit
    OBVIOUS
  <2>1. Used = 0
    BY DEF Init, Used
  <2>2. Len(Waiting) = 0 /\ Waiting \in Seq(Op \cup {NoOp})
    BY <2>1, InitIInv, WaitingShape
  <2>3. Waiting = <<>>
    BY <2>2, EmptySeq
  <2>4. InHand = {}
    BY DEF Init, InHand
  <2> QED
    BY <2>3, <2>4 DEF Init, Channel!ChanInit
<1> QED
  BY <1>1, InitIInv, NextIInv, ChannelStep, PTL
  DEF Spec, ImplementsChannel, Channel!ChanSpec

-----------------------------------------------------------------------------
(* No line vanishes silently *)

\* The producers that are handing a line over: one joins when it calls, one
\* leaves when it pushes, drops or falls back, and nobody else moves.
LEMMA HandingOverCount ==
  ASSUME IInv, NEW p \in Producers, NEW l, ppc' = [ppc EXCEPT ![p] = l]
  PROVE  LET H == {"ensure", "spawn", "push"}
             n == Cardinality(HandingOver)
         IN /\ n \in Nat
            /\ (ppc[p] \in H <=> l \in H) => Cardinality(HandingOver)' = n
            /\ ppc[p] \notin H /\ l \in H => Cardinality(HandingOver)' = n + 1
            /\ ppc[p] \in H /\ l \notin H => Cardinality(HandingOver)' = n - 1
<1> DEFINE H == {"ensure", "spawn", "push"}
<1>1. IsFiniteSet(HandingOver)
  BY ProducersAssumption, FS_Subset DEF HandingOver
<1>2. Cardinality(HandingOver) \in Nat
  BY <1>1, FS_CardinalityType
<1>3. p \in HandingOver <=> ppc[p] \in H
  BY DEF HandingOver
<1>4. CASE ppc[p] \in H <=> l \in H
  <2>1. HandingOver' = HandingOver
    BY <1>4 DEF HandingOver, IInv, TypeOK
  <2> QED
    BY <2>1, <1>2, <1>4
<1>5. CASE ppc[p] \notin H /\ l \in H
  <2>1. HandingOver' = HandingOver \cup {p}
    BY <1>5 DEF HandingOver, IInv, TypeOK
  <2>2. Cardinality(HandingOver \cup {p}) = Cardinality(HandingOver) + 1
    BY <1>1, <1>3, <1>5, FS_AddElement
  <2> QED
    BY <2>1, <2>2, <1>2, <1>5
<1>6. CASE ppc[p] \in H /\ l \notin H
  <2>1. HandingOver' = HandingOver \ {p}
    BY <1>6 DEF HandingOver, IInv, TypeOK
  <2>2. Cardinality(HandingOver \ {p}) = Cardinality(HandingOver) - 1
    BY <1>1, <1>3, <1>6, FS_RemoveElement
  <2> QED
    BY <2>1, <2>2, <1>2, <1>6
<1> QED
  BY <1>4, <1>5, <1>6

LEMMA NextAccounted ==
  IInv /\ EveryLineAccounted /\ [Next]_vars => EveryLineAccounted'
<1> SUFFICES ASSUME IInv, EveryLineAccounted, [Next]_vars
             PROVE  EveryLineAccounted'
  OBVIOUS
<1> DEFINE n == Cardinality(HandingOver)
<1>1. /\ logged \in Nat /\ synced \in Nat /\ done \in Nat /\ drops \in Nat
      /\ Len(accepted) \in Nat /\ Len(written) \in Nat
      /\ accepted \in Seq(Op) /\ written \in Seq(Op)
      /\ logged = n + synced + Len(written) + (Len(accepted) - done) + drops
  BY DEF IInv, TypeOK, EveryLineAccounted
<1>2. n \in Nat
  <2>1. IsFiniteSet(HandingOver)
    BY ProducersAssumption, FS_Subset DEF HandingOver
  <2> QED
    BY <2>1, FS_CardinalityType
<1> USE DEF ctlVars, prodVars, wrtVars, ringVars, histVars, Goto
<1>3. ASSUME UNCHANGED <<logged, synced, written, accepted, done, drops>>, n' = n
      PROVE  EveryLineAccounted'
  BY <1>3, <1>1 DEF EveryLineAccounted
<1>4. ASSUME NEW p \in Producers, EnqueueStep(p) PROVE EveryLineAccounted'
  <2>1. CASE Ensure(p)
    <3>1. n' = n
      BY <2>1, HandingOverCount DEF Ensure
    <3> QED
      BY <2>1, <3>1, <1>3 DEF Ensure
  <2>2. CASE AlreadySpawned(p) \/ Spawn(p)
    <3>1. n' = n
      BY <2>2, HandingOverCount DEF AlreadySpawned, Spawn
    <3> QED
      BY <2>2, <3>1, <1>3 DEF AlreadySpawned, Spawn
  <2>3. CASE SpawnFails(p)
    <3>1. n' = n - 1
      <4>1. ppc[p] = "push" \/ ppc[p] = "spawn"
        BY <2>3 DEF SpawnFails
      <4>2. \E l \in {"idle", "notify"} : ppc' = [ppc EXCEPT ![p] = l]
        BY <2>3 DEF SpawnFails
      <4> QED
        BY <4>1, <4>2, HandingOverCount
    <3>2. synced' = synced + 1 /\ UNCHANGED <<logged, written, accepted, done, drops>>
      BY <2>3 DEF SpawnFails
    <3> QED
      BY <3>1, <3>2, <1>1, <1>2 DEF EveryLineAccounted
  <2>4. CASE PushFull(p)
    <3>1. n' = n - 1
      <4>1. ppc[p] = "push" \/ ppc[p] = "spawn"
        BY <2>4 DEF PushFull
      <4>2. \E l \in {"idle", "notify"} : ppc' = [ppc EXCEPT ![p] = l]
        BY <2>4 DEF PushFull
      <4> QED
        BY <4>1, <4>2, HandingOverCount
    <3>2. drops' = drops + 1 /\ UNCHANGED <<logged, synced, written, accepted, done>>
      BY <2>4 DEF PushFull
    <3> QED
      BY <3>1, <3>2, <1>1, <1>2 DEF EveryLineAccounted
  <2>5. CASE Push(p)
    <3>1. n' = n - 1
      <4>1. ppc[p] = "push" \/ ppc[p] = "spawn"
        BY <2>5 DEF Push
      <4>2. \E l \in {"idle", "notify"} : ppc' = [ppc EXCEPT ![p] = l]
        BY <2>5 DEF Push
      <4> QED
        BY <4>1, <4>2, HandingOverCount
    <3>2. arg[p] \in Op
      BY <2>5 DEF Push, IInv, ArgIsOp
    <3>3. Len(accepted') = Len(accepted) + 1
      BY <2>5, <3>2, <1>1, AppendProperties DEF Push
    <3>4. UNCHANGED <<logged, synced, written, done, drops>>
      BY <2>5 DEF Push
    <3> QED
      BY <3>1, <3>3, <3>4, <1>1, <1>2 DEF EveryLineAccounted
  <2>6. CASE Notify(p)
    <3>1. n' = n
      BY <2>6, HandingOverCount DEF Notify
    <3> QED
      BY <2>6, <3>1, <1>3 DEF Notify
  <2> QED
    BY <1>4, <2>1, <2>2, <2>3, <2>4, <2>5, <2>6 DEF EnqueueStep
<1>5. ASSUME NEW p \in Producers, NEW f \in Paths, Call(p, f)
      PROVE  EveryLineAccounted'
  <2>1. n' = n + 1
    <3>1. ppc[p] = "idle" /\ ppc' = [ppc EXCEPT ![p] = "ensure"]
      BY <1>5 DEF Call
    <3> QED
      BY <3>1, HandingOverCount
  <2>2. logged' = logged + 1 /\ UNCHANGED <<synced, written, accepted, done, drops>>
    BY <1>5 DEF Call
  <2> QED
    BY <2>1, <2>2, <1>1, <1>2 DEF EveryLineAccounted
<1>6. CASE Shutdown \/ ShutdownStep
  <2>1. n' = n
    <3>1. ppc[Game] \in {"idle", "stop", "wake", "join", "joined", "unstop"}
      BY <1>6 DEF Shutdown, ShutdownStep, SetStop, WakeForStop, Join,
                  ClearRunning, ClearStop
    <3>2. \E l \in {"idle", "stop", "wake", "join", "joined", "unstop"} :
            ppc' = [ppc EXCEPT ![Game] = l]
      BY <1>6 DEF Shutdown, ShutdownStep, SetStop, WakeForStop, Join,
                  ClearRunning, ClearStop
    <3> QED
      BY <3>1, <3>2, HandingOverCount
  <2> QED
    BY <1>6, <2>1, <1>3 DEF Shutdown, ShutdownStep, SetStop, WakeForStop, Join,
                            ClearRunning, ClearStop
<1>7. ASSUME NEW w \in Writers, WriterStep(w) \/ SpuriousWake(w)
      PROVE  EveryLineAccounted'
  <2>1. n' = n
    BY <1>7 DEF WriterStep, Sleep, SpuriousWake, Quit, Take, WriteLine, LoseLine,
                HandingOver
  <2>2. CASE Sleep(w) \/ SpuriousWake(w) \/ Quit(w) \/ Take(w)
    BY <2>1, <2>2, <1>3 DEF Sleep, SpuriousWake, Quit, Take
  <2>3. CASE WriteLine(w)
    <3>1. wop[w] \in Op
      <4>1. wop[w] = accepted[done + 1] /\ Held = 1 /\ Len(accepted) = done + Held + Used
        BY <2>3 DEF WriteLine, IInv, RingIsFifo, Held
      <4>2. Used \in Nat
        BY DEF IInv, TypeOK, Used, Slots
      <4>3. done + 1 \in 1 .. Len(accepted)
        BY <4>1, <4>2, <1>1
      <4> QED
        BY <4>1, <4>3, <1>1, ElementOfSeq
    <3>2. Len(written') = Len(written) + 1
      BY <2>3, <3>1, <1>1, AppendProperties DEF WriteLine
    <3>3. done' = done + 1 /\ UNCHANGED <<logged, synced, accepted, drops>>
      BY <2>3 DEF WriteLine
    <3> QED
      BY <2>1, <3>2, <3>3, <1>1, <1>2 DEF EveryLineAccounted
  <2>4. CASE LoseLine(w)
    <3>1. /\ done' = done + 1 /\ drops' = drops + 1
          /\ UNCHANGED <<logged, synced, written, accepted>>
      BY <2>4 DEF LoseLine
    <3> QED
      BY <2>1, <3>1, <1>1, <1>2 DEF EveryLineAccounted
  <2> QED
    BY <1>7, <2>2, <2>3, <2>4 DEF WriterStep
<1>8. CASE UNCHANGED vars
  BY <1>8, <1>3 DEF vars, HandingOver
<1> QED
  BY <1>4, <1>5, <1>6, <1>7, <1>8 DEF Next

\* Whatever the producers, the writer and the disk do, a line handed to the
\* queue is in somebody's hands, in its file, or in the count that
\* CLog::MapChange reports.
THEOREM EveryLineAccountedAlways == Spec => []EveryLineAccounted
<1>1. Init => EveryLineAccounted
  <2> SUFFICES ASSUME Init PROVE EveryLineAccounted
    OBVIOUS
  <2>1. HandingOver = {}
    BY DEF Init, HandingOver
  <2> QED
    BY <2>1, FS_EmptySet DEF Init, EveryLineAccounted
<1> QED
  BY <1>1, InitIInv, NextIInv, NextAccounted, PTL DEF Spec

=============================================================================
