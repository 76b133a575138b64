------------------------- MODULE ForwardCallsProofs -------------------------
(***************************************************************************)
(* Proofs about SPForwards and ForwardCalls, for any number of holders,    *)
(* any functions, any length of the table and any depth of calls, and for  *)
(* any number of arrays and plugins: the registry keeps its promises, the  *)
(* calls keep those of the registry they go through, and the arrays of a   *)
(* call are its own until a call returns.                                  *)
(***************************************************************************)
EXTENDS ForwardCalls, SequenceTheorems, FiniteSetTheorems, TLAPS

\* A slot of the table was registered for some function.
SlotsHaveKeys == \A i \in Used : key[i] \in Keys

IInv == /\ TypeOK /\ SlotsHaveKeys
        /\ HandlesDenote /\ RefsCountHolders /\ FreeListExact
        /\ ExecutingIsLive /\ DeferredReleaseEnds /\ NoFalseAlarm

HoldersOf(f, i) == {h \in Holders : f[h] = i}
Calls(s, i) == {n \in 1 .. Len(s) : s[n] = i}

USE HoldersAssumption, MaxSlotsAssumption, NoneAssumption

-----------------------------------------------------------------------------
(* Counting holders and calls *)

LEMMA HoldersFinite ==
  ASSUME NEW f, NEW i
  PROVE  IsFiniteSet(HoldersOf(f, i)) /\ Cardinality(HoldersOf(f, i)) \in Nat
<1>1. HoldersOf(f, i) \subseteq Holders
  BY DEF HoldersOf
<1> QED
  BY <1>1, FS_Subset, FS_CardinalityType

\* One more holder of i, and of no other slot.
LEMMA HoldersAdd ==
  ASSUME NEW f \in [Holders -> Slot \cup {0}], NEW h \in Holders, f[h] = 0,
         NEW i \in Slot
  PROVE  LET g == [f EXCEPT ![h] = i]
         IN /\ Cardinality(HoldersOf(g, i)) = Cardinality(HoldersOf(f, i)) + 1
            /\ \A j \in Slot : j # i => HoldersOf(g, j) = HoldersOf(f, j)
<1> DEFINE g == [f EXCEPT ![h] = i]
<1>0. 0 \notin Slot
  BY DEF Slot
<1>1. HoldersOf(g, i) = HoldersOf(f, i) \cup {h} /\ h \notin HoldersOf(f, i)
  BY <1>0 DEF HoldersOf
<1>2. Cardinality(HoldersOf(g, i)) = Cardinality(HoldersOf(f, i)) + 1
  BY <1>1, HoldersFinite, FS_AddElement
<1>3. \A j \in Slot : j # i => HoldersOf(g, j) = HoldersOf(f, j)
  BY <1>0 DEF HoldersOf
<1> QED
  BY <1>2, <1>3

\* One less holder of the slot h holds, and of no other.
LEMMA HoldersRemove ==
  ASSUME NEW f \in [Holders -> Slot \cup {0}], NEW h \in Holders, f[h] # 0
  PROVE  LET g == [f EXCEPT ![h] = 0]
         IN /\ Cardinality(HoldersOf(g, f[h])) = Cardinality(HoldersOf(f, f[h])) - 1
            /\ \A j \in Slot : j # f[h] => HoldersOf(g, j) = HoldersOf(f, j)
<1> DEFINE g == [f EXCEPT ![h] = 0]
<1>0. 0 \notin Slot
  BY DEF Slot
<1>1. HoldersOf(g, f[h]) = HoldersOf(f, f[h]) \ {h} /\ h \in HoldersOf(f, f[h])
  BY <1>0 DEF HoldersOf
<1>2. Cardinality(HoldersOf(g, f[h])) = Cardinality(HoldersOf(f, f[h])) - 1
  BY <1>1, HoldersFinite, FS_RemoveElement
<1>3. \A j \in Slot : j # f[h] => HoldersOf(g, j) = HoldersOf(f, j)
  BY <1>0 DEF HoldersOf
<1> QED
  BY <1>2, <1>3

\* A slot somebody holds is counted.
LEMMA HeldIsCounted ==
  ASSUME NEW f, NEW h \in Holders
  PROVE  Cardinality(HoldersOf(f, f[h])) >= 1
<1>1. h \in HoldersOf(f, f[h])
  BY DEF HoldersOf
<1>2. HoldersOf(f, f[h]) # {}
  BY <1>1
<1>3. Cardinality(HoldersOf(f, f[h])) # 0
  BY <1>2, HoldersFinite, FS_EmptySet
<1> QED
  BY <1>3, HoldersFinite

LEMMA CallsFinite ==
  ASSUME NEW s \in Seq(Slot), NEW i
  PROVE  IsFiniteSet(Calls(s, i)) /\ Cardinality(Calls(s, i)) \in Nat
<1>1. IsFiniteSet(1 .. Len(s))
  BY FS_Interval, LenProperties
<1>2. Calls(s, i) \subseteq 1 .. Len(s)
  BY DEF Calls
<1> QED
  BY <1>1, <1>2, FS_Subset, FS_CardinalityType

\* A call of i is counted for i and for no other slot.
LEMMA CallsPush ==
  ASSUME NEW s \in Seq(Slot), NEW i \in Slot
  PROVE  LET t == Append(s, i)
         IN /\ t \in Seq(Slot) /\ Len(t) = Len(s) + 1
            /\ t[Len(s) + 1] = i /\ \A n \in 1 .. Len(s) : t[n] = s[n]
            /\ Cardinality(Calls(t, i)) = Cardinality(Calls(s, i)) + 1
            /\ \A j \in Slot : j # i => Calls(t, j) = Calls(s, j)
<1> DEFINE t == Append(s, i)
<1>1. /\ t \in Seq(Slot) /\ Len(t) = Len(s) + 1 /\ Len(s) \in Nat
      /\ t[Len(s) + 1] = i /\ \A n \in 1 .. Len(s) : t[n] = s[n]
  BY AppendProperties, LenProperties
<1>2. 1 .. Len(t) = (1 .. Len(s)) \cup {Len(s) + 1} /\ Len(s) + 1 \notin 1 .. Len(s)
  BY <1>1
<1> HIDE DEF t
<1>3. Calls(t, i) = Calls(s, i) \cup {Len(s) + 1} /\ Len(s) + 1 \notin Calls(s, i)
  BY <1>1, <1>2, Zenon DEF Calls
<1>4. Cardinality(Calls(t, i)) = Cardinality(Calls(s, i)) + 1
  BY <1>3, CallsFinite, FS_AddElement
<1>5. \A j \in Slot : j # i => Calls(t, j) = Calls(s, j)
  BY <1>1, <1>2, Zenon DEF Calls
<1> QED
  BY <1>1, <1>4, <1>5 DEF t

\* A return is discounted from the innermost call and from no other.
LEMMA CallsPop ==
  ASSUME NEW s \in Seq(Slot), s # <<>>
  PROVE  LET t == Pop(s)
         IN /\ t \in Seq(Slot) /\ Len(t) = Len(s) - 1 /\ Len(s) >= 1
            /\ Top(s) \in Slot /\ \A n \in 1 .. Len(t) : t[n] = s[n]
            /\ Cardinality(Calls(t, Top(s))) = Cardinality(Calls(s, Top(s))) - 1
            /\ \A j \in Slot : j # Top(s) => Calls(t, j) = Calls(s, j)
<1> DEFINE t == Pop(s)
           i == Top(s)
<1>0. Len(s) \in Nat /\ Len(s) # 0
  BY LenProperties, EmptySeq
<1>1. /\ t \in Seq(Slot) /\ Len(t) = Len(s) - 1
      /\ \A n \in 1 .. Len(t) : t[n] = s[n]
  <2>1. \A j \in 1 .. Len(s) - 1 : s[j] \in Slot
    BY <1>0, ElementOfSeq
  <2> DEFINE m == Len(s) - 1
  <2>2. m \in Nat
    BY <1>0
  <2>3. Len(s) = m + 1
    BY <1>0
  <2> HIDE DEF m
  <2>4. /\ SubSeq(s, 1, m) \in Seq(Slot)
        /\ Len(SubSeq(s, 1, m)) = IF 1 <= m THEN m - 1 + 1 ELSE 0
        /\ \A j \in 1 .. m - 1 + 1 : SubSeq(s, 1, m)[j] = s[1 + j - 1]
    BY <2>1, <2>2, SubSeqProperties DEF m
  <2>5. Len(SubSeq(s, 1, m)) = m /\ \A j \in 1 .. m : SubSeq(s, 1, m)[j] = s[j]
    BY <2>2, <2>4
  <2>6. t = SubSeq(s, 1, m)
    BY DEF Pop, m
  <2> QED
    BY <2>2, <2>3, <2>4, <2>5, <2>6
<1>2. i \in Slot /\ s[Len(s)] = i
  BY <1>0, ElementOfSeq DEF Top
<1>3. 1 .. Len(s) = (1 .. Len(t)) \cup {Len(s)} /\ Len(s) \notin 1 .. Len(t)
  BY <1>0, <1>1
<1> HIDE DEF t, i
<1>4. Calls(t, i) = Calls(s, i) \ {Len(s)} /\ Len(s) \in Calls(s, i)
  BY <1>1, <1>2, <1>3, Zenon DEF Calls
<1>5. Cardinality(Calls(t, i)) = Cardinality(Calls(s, i)) - 1
  BY <1>4, CallsFinite, FS_RemoveElement
<1>6. \A j \in Slot : j # i => Calls(t, j) = Calls(s, j)
  BY <1>1, <1>2, <1>3, Zenon DEF Calls
<1> QED
  BY <1>0, <1>1, <1>2, <1>5, <1>6 DEF t, i

\* A slot on the call stack is counted.
LEMMA CalledIsCounted ==
  ASSUME NEW s \in Seq(Slot), NEW n \in 1 .. Len(s)
  PROVE  Cardinality(Calls(s, s[n])) >= 1
<1>1. Calls(s, s[n]) # {}
  BY DEF Calls
<1>2. Cardinality(Calls(s, s[n])) # 0
  BY <1>1, CallsFinite, FS_EmptySet
<1> QED
  BY <1>2, CallsFinite

-----------------------------------------------------------------------------
(* The initial state, and a table thrown away *)

LEMMA EmptyTable ==
  ASSUME len = 0, freeList = <<>>, stack = <<>>, alarm = FALSE,
         key = [i \in Slot |-> None], free = [i \in Slot |-> FALSE],
         toDelete = [i \in Slot |-> FALSE], inExec = [i \in Slot |-> 0],
         refs = [i \in Slot |-> 0], held = [h \in Holders |-> 0],
         wanted = [h \in Holders |-> None]
  PROVE  IInv
<1>1. freeList \in Seq(Slot) /\ stack \in Seq(Slot)
  BY EmptySeq
<1>2. TypeOK
  <2>1. key \in [Slot -> Keys \cup {None}] /\ free \in [Slot -> BOOLEAN]
    OBVIOUS
  <2>2. toDelete \in [Slot -> BOOLEAN] /\ alarm \in BOOLEAN
    OBVIOUS
  <2>3. inExec \in [Slot -> Nat] /\ refs \in [Slot -> Nat]
    OBVIOUS
  <2>4. held \in [Holders -> Slot \cup {0}]
    OBVIOUS
  <2>5. wanted \in [Holders -> Keys \cup {None}]
    OBVIOUS
  <2>6. len \in 0 .. MaxSlots
    OBVIOUS
  <2> QED
    BY <1>1, <2>1, <2>2, <2>3, <2>4, <2>5, <2>6 DEF TypeOK
<1>3. Used = {} /\ 1 .. Len(stack) = {} /\ 1 .. Len(freeList) = {}
  BY DEF Used
<1>4. RefsCountHolders
  <2>1. \A i \in Slot : {h \in Holders : held[h] = i} = {}
    BY DEF Slot
  <2> QED
    BY <2>1, FS_EmptySet DEF RefsCountHolders
<1>5. ExecutingIsLive
  <2>1. \A i \in Slot : {n \in 1 .. Len(stack) : stack[n] = i} = {}
    BY <1>3
  <2> QED
    BY <1>3, <2>1, FS_EmptySet DEF ExecutingIsLive
<1>6. HandlesDenote /\ SlotsHaveKeys /\ DeferredReleaseEnds /\ NoFalseAlarm
  BY <1>3 DEF HandlesDenote, SlotsHaveKeys, DeferredReleaseEnds, NoFalseAlarm
<1>7. FreeListExact
  BY <1>3 DEF FreeListExact
<1> QED
  BY <1>2, <1>4, <1>5, <1>6, <1>7 DEF IInv

LEMMA InitIInv == Init => IInv
  BY EmptyTable DEF Init

-----------------------------------------------------------------------------
(* registerSPForward *)

\* Nobody holds or executes a slot that is free or not in the table.
LEMMA FreshSlot ==
  ASSUME IInv, NEW i \in Slot, i \notin Used \/ free[i]
  PROVE  /\ refs[i] = 0 /\ inExec[i] = 0
         /\ \A h \in Holders : held[h] # i
         /\ \A n \in 1 .. Len(stack) : stack[n] # i
<1>0. i # 0
  BY DEF Slot
<1>1. \A h \in Holders : held[h] # i
  BY <1>0 DEF IInv, HandlesDenote
<1>2. \A n \in 1 .. Len(stack) : stack[n] # i
  BY DEF IInv, ExecutingIsLive
<1>3. {h \in Holders : held[h] = i} = {} /\ {n \in 1 .. Len(stack) : stack[n] = i} = {}
  BY <1>1, <1>2
<1>4. refs[i] = 0 /\ inExec[i] = 0
  BY <1>3, FS_EmptySet DEF IInv, RefsCountHolders, ExecutingIsLive
<1> QED
  BY <1>1, <1>2, <1>4

\* A slot nobody uses is taken for a new holder.  The stack of free ids is left
\* to the callers.
LEMMA TakeSlot ==
  ASSUME IInv, NEW h \in Holders, NEW k \in Keys, NEW i \in Slot,
         held[h] = 0, i \notin Used \/ free[i],
         Set(i, k), Hold(h, i, k), len' \in 0 .. MaxSlots,
         Used' = Used \cup {i}, freeList' \in Seq(Slot), UNCHANGED <<stack, alarm>>
  PROVE  /\ TypeOK' /\ SlotsHaveKeys' /\ HandlesDenote' /\ RefsCountHolders'
         /\ ExecutingIsLive' /\ DeferredReleaseEnds' /\ NoFalseAlarm'
<1>1. /\ refs[i] = 0 /\ inExec[i] = 0
      /\ \A g \in Holders : held[g] # i
      /\ \A n \in 1 .. Len(stack) : stack[n] # i
  BY FreshSlot
<1>2. TypeOK
  BY DEF IInv
<1>3. TypeOK'
  BY <1>2 DEF TypeOK, Set, Hold
<1>4. SlotsHaveKeys'
  <2>1. key'[i] = k /\ \A j \in Slot : j # i => key'[j] = key[j]
    BY <1>2 DEF TypeOK, Set
  <2>2. Used \subseteq Slot
    BY <1>2 DEF TypeOK, Used, Slot
  <2> QED
    BY <2>1, <2>2 DEF IInv, SlotsHaveKeys
<1>5. HandlesDenote'
  BY <1>1, <1>2 DEF IInv, HandlesDenote, Set, Hold, TypeOK
<1>6. RefsCountHolders'
  <2>1. /\ Cardinality(HoldersOf(held', i)) = Cardinality(HoldersOf(held, i)) + 1
        /\ \A j \in Slot : j # i => HoldersOf(held', j) = HoldersOf(held, j)
    BY <1>2, HoldersAdd DEF TypeOK, Hold
  <2>2. Cardinality(HoldersOf(held, i)) = 0
    BY <1>1 DEF IInv, RefsCountHolders, HoldersOf
  <2>3. refs'[i] = 1 /\ \A j \in Slot : j # i => refs'[j] = refs[j]
    BY <1>2 DEF TypeOK, Set
  <2>4. \A j \in Slot : refs[j] = Cardinality(HoldersOf(held, j))
    BY DEF IInv, RefsCountHolders, HoldersOf
  <2>5. \A j \in Slot : refs'[j] = Cardinality(HoldersOf(held', j))
    BY <2>1, <2>2, <2>3, <2>4
  <2> QED
    BY <2>5 DEF RefsCountHolders, HoldersOf
<1>7. ExecutingIsLive'
  <2>1. inExec' = inExec
    BY <1>1, <1>2 DEF TypeOK, Set
  <2>2. \A n \in 1 .. Len(stack) : stack[n] \in Slot /\ stack[n] # i
    BY <1>1, <1>2, ElementOfSeq DEF TypeOK
  <2>3. \A j \in Slot : j # i => free'[j] = free[j]
    BY <1>2 DEF TypeOK, Set
  <2> QED
    BY <2>1, <2>2, <2>3 DEF IInv, ExecutingIsLive
<1>8. DeferredReleaseEnds'
  BY <1>1, <1>2 DEF IInv, DeferredReleaseEnds, Set, TypeOK
<1> QED
  BY <1>3, <1>4, <1>5, <1>6, <1>7, <1>8 DEF IInv, NoFalseAlarm

LEMMA ShareStep ==
  ASSUME IInv, NEW h \in Holders, NEW k \in Keys, Share(h, k)
  PROVE  IInv'
<1>1. PICK i \in Registered(k) :
        /\ toDelete' = [toDelete EXCEPT ![i] = FALSE]
        /\ refs' = [refs EXCEPT ![i] = @ + 1]
        /\ Hold(h, i, k)
  BY DEF Share
<1>2. /\ UNCHANGED <<len, key, free, inExec, freeList, stack, alarm>>
      /\ held[h] = 0
  BY DEF Share
<1>3. TypeOK
  BY DEF IInv
<1>4. i \in Slot /\ i \in Used /\ ~free[i] /\ key[i] = k
  BY <1>3 DEF Registered, Used, TypeOK, Slot
<1>5. TypeOK'
  <2>1. refs' \in [Slot -> Nat]
    BY <1>1, <1>3, <1>4 DEF TypeOK
  <2> QED
    BY <1>1, <1>2, <1>3, <1>4, <2>1 DEF TypeOK, Hold
<1>6. RefsCountHolders'
  <2>1. /\ Cardinality(HoldersOf(held', i)) = Cardinality(HoldersOf(held, i)) + 1
        /\ \A j \in Slot : j # i => HoldersOf(held', j) = HoldersOf(held, j)
    BY <1>1, <1>2, <1>3, <1>4, HoldersAdd DEF TypeOK, Hold
  <2>2. refs'[i] = refs[i] + 1 /\ \A j \in Slot : j # i => refs'[j] = refs[j]
    BY <1>1, <1>3, <1>4 DEF TypeOK
  <2>3. \A j \in Slot : refs[j] = Cardinality(HoldersOf(held, j))
    BY DEF IInv, RefsCountHolders, HoldersOf
  <2>4. \A j \in Slot : refs'[j] = Cardinality(HoldersOf(held', j))
    BY <2>1, <2>2, <2>3
  <2> QED
    BY <2>4 DEF RefsCountHolders, HoldersOf
<1>7. HandlesDenote'
  BY <1>1, <1>2, <1>3, <1>4 DEF IInv, HandlesDenote, Hold, TypeOK, Used
<1>8. DeferredReleaseEnds'
  <2>1. refs'[i] # 0 /\ \A j \in Slot : j # i => refs'[j] = refs[j]
    BY <1>1, <1>3, <1>4 DEF TypeOK
  <2>2. toDelete'[i] = FALSE /\ \A j \in Slot : j # i => toDelete'[j] = toDelete[j]
    BY <1>1, <1>3, <1>4 DEF TypeOK
  <2>3. Used' = Used /\ Used \subseteq Slot
    BY <1>2, <1>3 DEF Used, Slot, TypeOK
  <2> QED
    BY <1>2, <2>1, <2>2, <2>3 DEF IInv, DeferredReleaseEnds
<1>9. SlotsHaveKeys' /\ FreeListExact' /\ ExecutingIsLive' /\ NoFalseAlarm'
  BY <1>2 DEF IInv, SlotsHaveKeys, FreeListExact, ExecutingIsLive, NoFalseAlarm, Used
<1> QED
  BY <1>5, <1>6, <1>7, <1>8, <1>9 DEF IInv

LEMMA RecycleStep ==
  ASSUME IInv, NEW h \in Holders, NEW k \in Keys, Recycle(h, k)
  PROVE  IInv'
<1> DEFINE i == Top(freeList)
           t == Pop(freeList)
<1>0. TypeOK
  BY DEF IInv
<1>1. /\ held[h] = 0 /\ freeList # <<>> /\ Set(i, k) /\ freeList' = t
      /\ Hold(h, i, k) /\ UNCHANGED <<len, stack, alarm>>
  BY DEF Recycle
<1>2. /\ t \in Seq(Slot) /\ Len(t) = Len(freeList) - 1 /\ Len(freeList) >= 1
      /\ i \in Slot /\ \A n \in 1 .. Len(t) : t[n] = freeList[n]
      /\ i = freeList[Len(freeList)] /\ Len(freeList) \in Nat
  BY <1>0, <1>1, CallsPop, LenProperties DEF TypeOK, Top
<1> HIDE DEF i, t
<1>3. /\ i \in Used /\ free[i]
      /\ \A n \in 1 .. Len(t) : freeList[n] # i
  BY <1>2 DEF IInv, FreeListExact
<1>4. Used' = Used \cup {i} /\ len' \in 0 .. MaxSlots /\ freeList' \in Seq(Slot)
  BY <1>0, <1>1, <1>2, <1>3 DEF Used, TypeOK
<1>5. /\ TypeOK' /\ SlotsHaveKeys' /\ HandlesDenote' /\ RefsCountHolders'
      /\ ExecutingIsLive' /\ DeferredReleaseEnds' /\ NoFalseAlarm'
  BY <1>1, <1>2, <1>3, <1>4, TakeSlot
<1>6. FreeListExact'
  <2>1. free'[i] = FALSE /\ \A j \in Slot : j # i => free'[j] = free[j]
    BY <1>0, <1>1, <1>2 DEF TypeOK, Set
  <2>2. Used' = Used /\ Used \subseteq Slot
    BY <1>0, <1>1 DEF Used, Slot, TypeOK
  <2>3. 1 .. Len(freeList) = (1 .. Len(t)) \cup {Len(freeList)}
    BY <1>2
  <2>4. \A n \in 1 .. Len(t) : t[n] \in Used /\ t[n] # i /\ free[t[n]]
    BY <1>2, <1>3, <2>3 DEF IInv, FreeListExact
  <2>5. \A m, n \in 1 .. Len(t) : t[m] = t[n] => m = n
    BY <1>2, <2>3 DEF IInv, FreeListExact
  <2>6. \A j \in Used : free[j] /\ j # i => \E n \in 1 .. Len(t) : t[n] = j
    BY <1>2, <2>3 DEF IInv, FreeListExact
  <2> QED
    BY <1>1, <2>1, <2>2, <2>4, <2>5, <2>6 DEF FreeListExact
<1> QED
  BY <1>5, <1>6 DEF IInv

LEMMA ExtendStep ==
  ASSUME IInv, NEW h \in Holders, NEW k \in Keys, Extend(h, k)
  PROVE  IInv'
<1>0. TypeOK
  BY DEF IInv
<1>1. /\ held[h] = 0 /\ freeList = <<>> /\ len < MaxSlots /\ len' = len + 1
      /\ Set(len + 1, k) /\ Hold(h, len + 1, k)
      /\ UNCHANGED <<freeList, stack, alarm>>
  BY DEF Extend
<1>2. /\ len + 1 \in Slot /\ len + 1 \notin Used /\ Used' = Used \cup {len + 1}
      /\ len' \in 0 .. MaxSlots /\ freeList' \in Seq(Slot)
  <2>1. len \in Nat /\ len \in 0 .. MaxSlots
    BY <1>0 DEF TypeOK
  <2>2. len + 1 \in Slot /\ len + 1 \notin Used /\ len' \in 0 .. MaxSlots
    BY <1>1, <2>1 DEF Used, Slot
  <2>3. Used' = Used \cup {len + 1}
    BY <1>1, <2>1 DEF Used
  <2> QED
    BY <1>0, <1>1, <2>2, <2>3 DEF TypeOK
<1>3. /\ TypeOK' /\ SlotsHaveKeys' /\ HandlesDenote' /\ RefsCountHolders'
      /\ ExecutingIsLive' /\ DeferredReleaseEnds' /\ NoFalseAlarm'
  BY <1>1, <1>2, TakeSlot
<1>4. FreeListExact'
  <2>1. 1 .. Len(freeList) = {}
    BY <1>1
  <2>2. free'[len + 1] = FALSE /\ \A j \in Slot : j # len + 1 => free'[j] = free[j]
    BY <1>0, <1>1, <1>2 DEF TypeOK, Set
  <2>3. Used \subseteq Slot /\ \A j \in Used : ~free[j]
    <3>1. Used \subseteq Slot
      BY <1>0 DEF TypeOK, Used, Slot
    <3>2. \A j \in Used : free[j] => \E n \in 1 .. Len(freeList) : freeList[n] = j
      BY DEF IInv, FreeListExact
    <3>3. \A j \in Used : free[j] \in BOOLEAN
      BY <1>0, <3>1 DEF TypeOK
    <3> QED
      BY <2>1, <3>1, <3>2, <3>3
  <2> QED
    BY <1>1, <1>2, <2>1, <2>2, <2>3 DEF FreeListExact
<1> QED
  BY <1>3, <1>4 DEF IInv

LEMMA RecycleFailsStep ==
  ASSUME IInv, NEW k \in Keys, RecycleFails(k)
  PROVE  IInv'
<1> DEFINE i == Top(freeList)
<1>0. TypeOK
  BY DEF IInv
<1>1. freeList # <<>>
  BY DEF RecycleFails
<1>2. /\ Pop(freeList) \in Seq(Slot) /\ Len(Pop(freeList)) = Len(freeList) - 1
      /\ Len(freeList) >= 1 /\ i \in Slot /\ i = freeList[Len(freeList)]
      /\ \A n \in 1 .. Len(Pop(freeList)) : Pop(freeList)[n] = freeList[n]
      /\ Len(freeList) \in Nat
  BY <1>0, <1>1, CallsPop, LenProperties DEF TypeOK, Top
<1>3. i \in Used /\ free[i]
  BY <1>2 DEF IInv, FreeListExact
<1>4. freeList' = freeList
  <2>1. freeList' = Append(Pop(freeList), i)
    BY DEF RecycleFails
  <2>2. /\ freeList' \in Seq(Slot) /\ Len(freeList') = Len(Pop(freeList)) + 1
        /\ freeList'[Len(Pop(freeList)) + 1] = i
        /\ \A n \in 1 .. Len(Pop(freeList)) : freeList'[n] = Pop(freeList)[n]
    BY <1>2, <2>1, CallsPush
  <2>3. Len(freeList') = Len(freeList)
    BY <1>2, <2>2
  <2>4. \A n \in 1 .. Len(freeList) : freeList'[n] = freeList[n]
    BY <1>2, <2>2
  <2> QED
    BY <1>0, <2>2, <2>3, <2>4, SeqEqual DEF TypeOK
<1>5. refs[i] = 0 /\ inExec[i] = 0
  BY <1>2, <1>3, FreshSlot
<1>6. /\ key' = [key EXCEPT ![i] = k] /\ free' = [free EXCEPT ![i] = TRUE]
      /\ toDelete' = [toDelete EXCEPT ![i] = FALSE]
      /\ inExec' = [inExec EXCEPT ![i] = 0] /\ refs' = [refs EXCEPT ![i] = 0]
      /\ UNCHANGED <<len, stack, held, wanted, alarm>>
  BY DEF RecycleFails
<1> HIDE DEF i
<1>7. free' = free /\ inExec' = inExec /\ refs' = refs
  BY <1>0, <1>2, <1>3, <1>5, <1>6 DEF TypeOK
<1>8. TypeOK'
  BY <1>0, <1>2, <1>4, <1>6, <1>7 DEF TypeOK
<1>9. /\ key'[i] = k /\ \A j \in Slot : j # i => key'[j] = key[j]
      /\ \A j \in Slot : j # i => toDelete'[j] = toDelete[j]
  BY <1>0, <1>2, <1>6 DEF TypeOK
<1>10. Used' = Used /\ Used \subseteq Slot
  BY <1>0, <1>6 DEF TypeOK, Used, Slot
<1>11. SlotsHaveKeys'
  BY <1>9, <1>10 DEF IInv, SlotsHaveKeys
<1>12. HandlesDenote'
  BY <1>3, <1>6, <1>7, <1>9, <1>10 DEF IInv, HandlesDenote
<1>13. RefsCountHolders' /\ ExecutingIsLive'
  BY <1>6, <1>7, <1>10 DEF IInv, RefsCountHolders, ExecutingIsLive
<1>14. FreeListExact'
  BY <1>4, <1>7, <1>10 DEF IInv, FreeListExact
<1>15. DeferredReleaseEnds'
  BY <1>3, <1>7, <1>9, <1>10 DEF IInv, DeferredReleaseEnds
<1> QED
  BY <1>6, <1>8, <1>11, <1>12, <1>13, <1>14, <1>15 DEF IInv, NoFalseAlarm

-----------------------------------------------------------------------------
(* unregisterSPForward *)

\* What putting a used slot on the stack of free ids does to the stack.
LEMMA FreeListGrows ==
  ASSUME TypeOK, FreeListExact, NEW i \in Used, ~free[i], FreeSlot(i), len' = len
  PROVE  FreeListExact' /\ freeList' \in Seq(Slot)
<1>1. Used' = Used /\ Used \subseteq Slot
  BY DEF TypeOK, Used, Slot
<1>2. /\ free' = [free EXCEPT ![i] = TRUE] /\ freeList' = Append(freeList, i)
      /\ freeList \in Seq(Slot) /\ Len(freeList) \in Nat
  BY LenProperties DEF FreeSlot, TypeOK
<1>3. /\ freeList' \in Seq(Slot) /\ Len(freeList') = Len(freeList) + 1
      /\ freeList'[Len(freeList) + 1] = i
      /\ \A n \in 1 .. Len(freeList) : freeList'[n] = freeList[n]
  BY <1>1, <1>2, CallsPush
<1>4. 1 .. Len(freeList') = (1 .. Len(freeList)) \cup {Len(freeList) + 1}
  BY <1>2, <1>3
<1>5. free'[i] = TRUE /\ \A j \in Slot : j # i => free'[j] = free[j]
  BY <1>1, <1>2 DEF TypeOK
<1>6. \A n \in 1 .. Len(freeList) : freeList[n] \in Used /\ freeList[n] # i
                                    /\ free[freeList[n]]
  BY DEF FreeListExact
<1>7. \A n \in 1 .. Len(freeList') : freeList'[n] \in Used /\ free'[freeList'[n]]
  BY <1>1, <1>3, <1>4, <1>5, <1>6
<1>8. \A m, n \in 1 .. Len(freeList') : freeList'[m] = freeList'[n] => m = n
  <2>1. SUFFICES ASSUME NEW m \in 1 .. Len(freeList'), NEW n \in 1 .. Len(freeList'),
                        freeList'[m] = freeList'[n]
                 PROVE  m = n
    OBVIOUS
  <2>2. CASE m \in 1 .. Len(freeList) /\ n \in 1 .. Len(freeList)
    <3>1. freeList[m] = freeList[n]
      BY <1>3, <2>1, <2>2
    <3> QED
      BY <2>2, <3>1 DEF FreeListExact
  <2>3. CASE m \in 1 .. Len(freeList) /\ n = Len(freeList) + 1
    BY <1>3, <1>6, <2>1, <2>3
  <2>4. CASE m = Len(freeList) + 1 /\ n \in 1 .. Len(freeList)
    BY <1>3, <1>6, <2>1, <2>4
  <2> QED
    BY <1>4, <2>2, <2>3, <2>4
<1>9. \A j \in Used : free'[j] => \E n \in 1 .. Len(freeList') : freeList'[n] = j
  <2>1. SUFFICES ASSUME NEW j \in Used, free'[j]
                 PROVE  \E n \in 1 .. Len(freeList') : freeList'[n] = j
    OBVIOUS
  <2>2. CASE j = i
    <3>1. Len(freeList) + 1 \in 1 .. Len(freeList')
      BY <1>4
    <3> QED
      BY <1>3, <2>2, <3>1
  <2>3. CASE j # i
    <3>1. free[j]
      BY <1>1, <1>5, <2>1, <2>3
    <3>2. PICK n \in 1 .. Len(freeList) : freeList[n] = j
      BY <3>1 DEF FreeListExact
    <3>3. n \in 1 .. Len(freeList') /\ freeList'[n] = j
      BY <1>3, <1>4, <3>2
    <3> QED
      BY <3>3
  <2> QED
    BY <2>2, <2>3
<1> QED
  BY <1>1, <1>3, <1>7, <1>8, <1>9 DEF FreeListExact

LEMMA ReleaseStep ==
  ASSUME IInv, NEW h \in Holders, Release(h)
  PROVE  IInv'
<1> DEFINE i == held[h]
<1>0. TypeOK
  BY DEF IInv
<1>1. /\ i # 0 /\ held' = [held EXCEPT ![h] = 0]
      /\ wanted' = [wanted EXCEPT ![h] = None]
      /\ UNCHANGED <<len, key, inExec, stack>>
  BY DEF Release
<1>2. i \in Slot /\ i \in Used /\ ~free[i] /\ ~toDelete[i]
  BY <1>0, <1>1 DEF IInv, HandlesDenote, TypeOK
<1>3. Used' = Used /\ Used \subseteq Slot
  BY <1>0, <1>1 DEF TypeOK, Used, Slot
<1>4. refs[i] >= 1 /\ refs[i] \in Nat
  <2>1. refs[i] = Cardinality(HoldersOf(held, i))
    BY <1>2 DEF IInv, RefsCountHolders, HoldersOf
  <2> QED
    BY <1>0, <1>2, <2>1, HeldIsCounted DEF TypeOK
<1>5. refs' = [refs EXCEPT ![i] = refs[i] - 1]
  <2>1. CASE refs[i] > 1
    BY <1>2, <2>1 DEF Release
  <2>2. CASE ~(refs[i] > 1)
    <3>1. refs[i] - 1 = 0
      BY <1>4, <2>2
    <3> QED
      BY <1>2, <2>2, <3>1 DEF Release
  <2> QED
    BY <2>1, <2>2
<1>6. refs'[i] = refs[i] - 1 /\ \A j \in Slot : j # i => refs'[j] = refs[j]
  BY <1>0, <1>2, <1>5 DEF TypeOK
<1>7. alarm' = alarm
  <2>1. alarm' = alarm \/ alarm' = (alarm \/ (refs[i] = 0 /\ inExec[i] = 0))
    BY DEF Release
  <2>2. refs[i] # 0
    BY <1>4
  <2> QED
    BY <1>0, <2>1, <2>2 DEF TypeOK
<1>8. RefsCountHolders'
  <2>1. /\ Cardinality(HoldersOf(held', i)) = Cardinality(HoldersOf(held, i)) - 1
        /\ \A j \in Slot : j # i => HoldersOf(held', j) = HoldersOf(held, j)
    BY <1>0, <1>1, HoldersRemove DEF TypeOK
  <2>2. \A j \in Slot : refs[j] = Cardinality(HoldersOf(held, j))
    BY DEF IInv, RefsCountHolders, HoldersOf
  <2>3. \A j \in Slot : refs'[j] = Cardinality(HoldersOf(held', j))
    BY <1>2, <1>6, <2>1, <2>2
  <2> QED
    BY <2>3 DEF RefsCountHolders, HoldersOf
<1>9. refs[i] = 1 => \A g \in Holders : g # h => held[g] # i
  <2>1. SUFFICES ASSUME refs[i] = 1, NEW g \in Holders, g # h, held[g] = i PROVE FALSE
    OBVIOUS
  <2>2. Cardinality(HoldersOf(held', i)) = 0
    <3>1. Cardinality(HoldersOf(held', i)) = Cardinality(HoldersOf(held, i)) - 1
      BY <1>0, <1>1, HoldersRemove DEF TypeOK
    <3>2. Cardinality(HoldersOf(held, i)) = 1
      BY <1>2, <2>1 DEF IInv, RefsCountHolders, HoldersOf
    <3> QED
      BY <3>1, <3>2
  <2>3. held'[g] = i
    BY <1>0, <1>1, <2>1 DEF TypeOK
  <2> QED
    BY <2>2, <2>3, HeldIsCounted
<1>10. TypeOK' /\ HandlesDenote' /\ FreeListExact' /\ ExecutingIsLive' /\ DeferredReleaseEnds'
  <2>0. /\ held' \in [Holders -> Slot \cup {0}]
        /\ wanted' \in [Holders -> Keys \cup {None}]
        /\ refs' \in [Slot -> Nat]
    BY <1>0, <1>1, <1>4, <1>5 DEF TypeOK
  <2>h. \A g \in Holders : /\ held'[g] = IF g = h THEN 0 ELSE held[g]
                           /\ g # h => wanted'[g] = wanted[g]
    BY <1>0, <1>1 DEF TypeOK
  <2>1. CASE refs[i] > 1
    <3>1. UNCHANGED <<toDelete, free, freeList>>
      BY <1>2, <2>1 DEF Release
    <3>2. refs'[i] # 0
      BY <1>4, <1>6, <2>1
    <3>3. TypeOK'
      BY <1>0, <1>1, <1>7, <2>0, <3>1 DEF TypeOK
    <3>4. HandlesDenote'
      BY <1>1, <1>3, <2>h, <3>1 DEF IInv, HandlesDenote
    <3>5. FreeListExact' /\ ExecutingIsLive'
      BY <1>1, <1>3, <3>1 DEF IInv, FreeListExact, ExecutingIsLive
    <3>6. DeferredReleaseEnds'
      BY <1>1, <1>2, <1>3, <1>6, <3>1, <3>2 DEF IInv, DeferredReleaseEnds
    <3> QED
      BY <3>3, <3>4, <3>5, <3>6
  <2>2. CASE refs[i] = 1 /\ inExec[i] > 0
    <3>1. toDelete' = [toDelete EXCEPT ![i] = TRUE] /\ UNCHANGED <<free, freeList>>
      BY <1>2, <2>2 DEF Release
    <3>2. toDelete'[i] = TRUE /\ \A j \in Slot : j # i => toDelete'[j] = toDelete[j]
      BY <1>0, <1>2, <3>1 DEF TypeOK
    <3>3. TypeOK'
      BY <1>0, <1>1, <1>7, <2>0, <3>1 DEF TypeOK
    <3>4. HandlesDenote'
      BY <1>0, <1>1, <1>3, <1>9, <2>h, <2>2, <3>1, <3>2 DEF IInv, HandlesDenote, TypeOK
    <3>5. FreeListExact' /\ ExecutingIsLive'
      BY <1>1, <1>3, <3>1 DEF IInv, FreeListExact, ExecutingIsLive
    <3>6. DeferredReleaseEnds'
      BY <1>1, <1>3, <1>6, <2>2, <3>1, <3>2 DEF IInv, DeferredReleaseEnds
    <3> QED
      BY <3>3, <3>4, <3>5, <3>6
  <2>3. CASE refs[i] = 1 /\ inExec[i] = 0
    <3>1. FreeSlot(i) /\ UNCHANGED toDelete
      BY <1>2, <2>3 DEF Release
    <3>2. FreeListExact' /\ freeList' \in Seq(Slot)
      BY <1>0, <1>1, <1>2, <3>1, FreeListGrows DEF IInv
    <3>3. free'[i] = TRUE /\ \A j \in Slot : j # i => free'[j] = free[j]
      BY <1>0, <1>2, <3>1 DEF TypeOK, FreeSlot
    <3>4. free' \in [Slot -> BOOLEAN]
      BY <1>0, <1>2, <3>1 DEF TypeOK, FreeSlot
    <3>5. TypeOK'
      BY <1>0, <1>1, <1>7, <2>0, <3>1, <3>2, <3>4 DEF TypeOK
    <3>6. HandlesDenote'
      BY <1>0, <1>1, <1>3, <1>9, <2>h, <2>3, <3>1, <3>3 DEF IInv, HandlesDenote, TypeOK
    <3>7. ExecutingIsLive'
      <4>1. \A n \in 1 .. Len(stack) : stack[n] # i
        <5>1. Cardinality(Calls(stack, i)) = 0
          BY <1>2, <2>3 DEF IInv, ExecutingIsLive, Calls
        <5>2. \A n \in 1 .. Len(stack) : Cardinality(Calls(stack, stack[n])) >= 1
          BY <1>0, CalledIsCounted DEF TypeOK
        <5> QED
          BY <5>1, <5>2
      <4> QED
        BY <1>1, <1>3, <3>3, <4>1 DEF IInv, ExecutingIsLive
    <3>8. DeferredReleaseEnds'
      BY <1>1, <1>3, <1>6, <3>1, <3>3 DEF IInv, DeferredReleaseEnds
    <3> QED
      BY <3>2, <3>5, <3>6, <3>7, <3>8
  <2> QED
    BY <1>0, <1>2, <1>4, <2>1, <2>2, <2>3 DEF TypeOK
<1> QED
  BY <1>1, <1>3, <1>7, <1>8, <1>10 DEF IInv, SlotsHaveKeys, NoFalseAlarm

-----------------------------------------------------------------------------
(* executeForwards *)

LEMMA ExecuteStep ==
  ASSUME IInv, NEW h \in Holders, Execute(h)
  PROVE  IInv'
<1> DEFINE i == held[h]
<1>0. TypeOK
  BY DEF IInv
<1>1. /\ i # 0 /\ ~free[i] /\ ~toDelete[i]
      /\ inExec' = [inExec EXCEPT ![i] = @ + 1] /\ stack' = Append(stack, i)
      /\ UNCHANGED <<len, key, free, toDelete, refs, freeList, held, wanted, alarm>>
  BY DEF Execute
<1>2. i \in Slot /\ i \in Used
  BY <1>0, <1>1 DEF IInv, HandlesDenote, TypeOK
<1>3. /\ stack' \in Seq(Slot) /\ Len(stack') = Len(stack) + 1 /\ Len(stack) \in Nat
      /\ stack'[Len(stack) + 1] = i
      /\ \A n \in 1 .. Len(stack) : stack'[n] = stack[n]
      /\ Cardinality(Calls(stack', i)) = Cardinality(Calls(stack, i)) + 1
      /\ \A j \in Slot : j # i => Calls(stack', j) = Calls(stack, j)
  BY <1>0, <1>1, <1>2, CallsPush, LenProperties DEF TypeOK
<1> HIDE DEF i
<1>4. inExec'[i] = inExec[i] + 1 /\ \A j \in Slot : j # i => inExec'[j] = inExec[j]
  BY <1>0, <1>1, <1>2 DEF TypeOK
<1>5. inExec' \in [Slot -> Nat]
  BY <1>0, <1>1, <1>2 DEF TypeOK
<1>6. TypeOK'
  BY <1>0, <1>1, <1>3, <1>5 DEF TypeOK
<1>7. Used' = Used /\ Used \subseteq Slot
  BY <1>0, <1>1 DEF TypeOK, Used, Slot
<1>8. ExecutingIsLive'
  <2>1. 1 .. Len(stack') = (1 .. Len(stack)) \cup {Len(stack) + 1}
    BY <1>3
  <2>2. \A n \in 1 .. Len(stack) : stack[n] \in Used /\ ~free[stack[n]]
    BY DEF IInv, ExecutingIsLive
  <2>3. \A n \in 1 .. Len(stack') : stack'[n] \in Used' /\ ~free'[stack'[n]]
    BY <1>1, <1>2, <1>3, <1>7, <2>1, <2>2
  <2>4. \A j \in Slot : inExec[j] = Cardinality(Calls(stack, j))
    BY DEF IInv, ExecutingIsLive, Calls
  <2>5. \A j \in Slot : inExec'[j] = Cardinality(Calls(stack', j))
    BY <1>3, <1>4, <2>4
  <2> QED
    BY <2>3, <2>5 DEF ExecutingIsLive, Calls
<1>9. DeferredReleaseEnds'
  BY <1>1, <1>4, <1>7 DEF IInv, DeferredReleaseEnds
<1>10. SlotsHaveKeys' /\ HandlesDenote' /\ RefsCountHolders' /\ FreeListExact' /\ NoFalseAlarm'
  BY <1>1, <1>7 DEF IInv, SlotsHaveKeys, HandlesDenote, RefsCountHolders, FreeListExact,
                    NoFalseAlarm
<1> QED
  BY <1>6, <1>8, <1>9, <1>10 DEF IInv

LEMMA FinishStep ==
  ASSUME IInv, Finish
  PROVE  IInv'
<1> DEFINE i == Top(stack)
<1>0. TypeOK
  BY DEF IInv
<1>1. /\ stack # <<>> /\ stack' = Pop(stack)
      /\ inExec' = [inExec EXCEPT ![i] = @ - 1]
      /\ UNCHANGED <<len, key, refs, held, wanted, alarm>>
  BY DEF Finish
<1>2. /\ stack' \in Seq(Slot) /\ Len(stack') = Len(stack) - 1 /\ Len(stack) >= 1
      /\ i \in Slot /\ i = stack[Len(stack)] /\ Len(stack) \in Nat
      /\ \A n \in 1 .. Len(stack') : stack'[n] = stack[n]
      /\ Cardinality(Calls(stack', i)) = Cardinality(Calls(stack, i)) - 1
      /\ \A j \in Slot : j # i => Calls(stack', j) = Calls(stack, j)
  BY <1>0, <1>1, CallsPop, LenProperties DEF TypeOK, Top
<1>3. i \in Used /\ ~free[i]
  BY <1>2 DEF IInv, ExecutingIsLive
<1>4. inExec[i] >= 1 /\ inExec[i] \in Nat
  <2>1. inExec[i] = Cardinality(Calls(stack, i))
    BY <1>2 DEF IInv, ExecutingIsLive, Calls
  <2>2. Len(stack) \in 1 .. Len(stack)
    BY <1>2
  <2>3. Cardinality(Calls(stack, i)) >= 1
    BY <1>0, <1>2, <2>2, CalledIsCounted DEF TypeOK
  <2> QED
    BY <1>0, <1>2, <2>1, <2>3 DEF TypeOK
<1>d. IF toDelete[i] /\ inExec[i] = 1
      THEN toDelete' = [toDelete EXCEPT ![i] = FALSE] /\ FreeSlot(i)
      ELSE UNCHANGED <<toDelete, free, freeList>>
  BY DEF Finish
<1> HIDE DEF i
<1>5. inExec'[i] = inExec[i] - 1 /\ \A j \in Slot : j # i => inExec'[j] = inExec[j]
  BY <1>0, <1>1, <1>2 DEF TypeOK
<1>6. inExec' \in [Slot -> Nat]
  <2>1. inExec[i] - 1 \in Nat
    BY <1>4
  <2> QED
    BY <1>0, <1>1, <1>2, <2>1 DEF TypeOK
<1>7. Used' = Used /\ Used \subseteq Slot
  BY <1>0, <1>1 DEF TypeOK, Used, Slot
<1>8. \A j \in Slot : inExec'[j] = Cardinality(Calls(stack', j))
  <2>1. \A j \in Slot : inExec[j] = Cardinality(Calls(stack, j))
    BY DEF IInv, ExecutingIsLive, Calls
  <2> QED
    BY <1>2, <1>5, <2>1
<1>9. \A n \in 1 .. Len(stack') : stack'[n] \in Used /\ ~free[stack'[n]]
  <2>1. \A n \in 1 .. Len(stack') : n \in 1 .. Len(stack)
    BY <1>2
  <2> QED
    BY <1>2, <2>1 DEF IInv, ExecutingIsLive
<1>10. SlotsHaveKeys' /\ RefsCountHolders' /\ NoFalseAlarm'
  BY <1>1, <1>7 DEF IInv, SlotsHaveKeys, RefsCountHolders, NoFalseAlarm
<1>11. CASE toDelete[i] /\ inExec[i] = 1
  <2>1. toDelete' = [toDelete EXCEPT ![i] = FALSE] /\ FreeSlot(i)
    BY <1>d, <1>11
  <2>2. FreeListExact' /\ freeList' \in Seq(Slot)
    BY <1>0, <1>1, <1>3, <2>1, FreeListGrows DEF IInv
  <2>3. /\ free'[i] = TRUE /\ \A j \in Slot : j # i => free'[j] = free[j]
        /\ toDelete'[i] = FALSE /\ \A j \in Slot : j # i => toDelete'[j] = toDelete[j]
    BY <1>0, <1>2, <2>1 DEF TypeOK, FreeSlot
  <2>4. free' \in [Slot -> BOOLEAN] /\ toDelete' \in [Slot -> BOOLEAN]
    BY <1>0, <1>2, <2>1 DEF TypeOK, FreeSlot
  <2>5. TypeOK'
    BY <1>0, <1>1, <1>2, <1>6, <2>2, <2>4 DEF TypeOK
  <2>6. \A g \in Holders : held[g] # 0 => held[g] \in Slot /\ held[g] # i
    BY <1>0, <1>11 DEF IInv, HandlesDenote, TypeOK
  <2>7. HandlesDenote'
    BY <1>1, <1>7, <2>3, <2>6 DEF IInv, HandlesDenote
  <2>8. ExecutingIsLive'
    <3>1. \A n \in 1 .. Len(stack') : Cardinality(Calls(stack', stack'[n])) >= 1
      BY <1>2, CalledIsCounted
    <3>2. Cardinality(Calls(stack', i)) = 0
      <4>1. inExec'[i] = 0
        BY <1>5, <1>11
      <4>2. inExec'[i] = Cardinality(Calls(stack', i))
        BY <1>2, <1>8
      <4> QED
        BY <4>1, <4>2
    <3>3. \A n \in 1 .. Len(stack') : stack'[n] # i
      BY <3>1, <3>2
    <3>4. \A n \in 1 .. Len(stack') : stack'[n] \in Used' /\ ~free'[stack'[n]]
      BY <1>7, <1>9, <2>3, <3>3
    <3> QED
      BY <1>8, <3>4 DEF ExecutingIsLive, Calls
  <2>9. DeferredReleaseEnds'
    BY <1>1, <1>5, <1>7, <2>3 DEF IInv, DeferredReleaseEnds
  <2> QED
    BY <1>10, <2>2, <2>5, <2>7, <2>8, <2>9 DEF IInv
<1>12. CASE ~(toDelete[i] /\ inExec[i] = 1)
  <2>1. UNCHANGED <<toDelete, free, freeList>>
    BY <1>d, <1>12
  <2>2. TypeOK'
    BY <1>0, <1>1, <1>2, <1>6, <2>1 DEF TypeOK
  <2>3. HandlesDenote' /\ FreeListExact'
    BY <1>1, <1>7, <2>1 DEF IInv, HandlesDenote, FreeListExact
  <2>4. ExecutingIsLive'
    BY <1>7, <1>8, <1>9, <2>1 DEF ExecutingIsLive, Calls
  <2>5. toDelete[i] => inExec[i] - 1 > 0
    BY <1>4, <1>12
  <2>6. DeferredReleaseEnds'
    BY <1>1, <1>5, <1>7, <2>1, <2>5 DEF IInv, DeferredReleaseEnds
  <2> QED
    BY <1>10, <2>2, <2>3, <2>4, <2>6 DEF IInv
<1> QED
  BY <1>11, <1>12

-----------------------------------------------------------------------------
(* The theorems *)

LEMMA ClearStep ==
  ASSUME IInv, Clear
  PROVE  IInv'
<1>1. Init'
  BY DEF Clear, Init, IInv, NoFalseAlarm
<1>2. Init' => IInv'
  BY InitIInv, PTL
<1> QED
  BY <1>1, <1>2

LEMMA DuplicateStep ==
  ASSUME IInv, NEW g \in Holders, NEW h \in Holders, Duplicate(g, h)
  PROVE  IInv'
<1>1. key[held[g]] \in Keys /\ Share(h, key[held[g]])
  BY DEF Duplicate, IInv, HandlesDenote, SlotsHaveKeys
<1> QED
  BY <1>1, ShareStep

LEMMA NextIInv == IInv /\ [Next]_vars => IInv'
<1> SUFFICES ASSUME IInv, [Next]_vars PROVE IInv'
  OBVIOUS
<1>1. CASE \E h \in Holders : Release(h)
  BY <1>1, ReleaseStep
<1>2. CASE \E h \in Holders : Execute(h)
  BY <1>2, ExecuteStep
<1>3. CASE \E h \in Holders, k \in Keys : Register(h, k)
  BY <1>3, ShareStep, RecycleStep, ExtendStep DEF Register
<1>4. CASE \E g, h \in Holders : Duplicate(g, h)
  BY <1>4, DuplicateStep
<1>5. CASE \E k \in Keys : RecycleFails(k)
  BY <1>5, RecycleFailsStep
<1>6. CASE Finish
  BY <1>6, FinishStep
<1>7. CASE Clear
  BY <1>7, ClearStep
<1>8. CASE UNCHANGED vars
  <2> USE <1>8 DEF vars, slotVars
  <2>1. TypeOK' /\ SlotsHaveKeys' /\ HandlesDenote'
    BY DEF IInv, TypeOK, SlotsHaveKeys, HandlesDenote, Used
  <2>2. RefsCountHolders' /\ FreeListExact'
    BY DEF IInv, RefsCountHolders, FreeListExact, Used
  <2>3. ExecutingIsLive' /\ DeferredReleaseEnds' /\ NoFalseAlarm'
    BY DEF IInv, ExecutingIsLive, DeferredReleaseEnds, NoFalseAlarm, Used
  <2> QED
    BY <2>1, <2>2, <2>3 DEF IInv
<1> QED
  BY <1>1, <1>2, <1>3, <1>4, <1>5, <1>6, <1>7, <1>8 DEF Next

THEOREM Invariance == Spec => []IInv
  BY InitIInv, NextIInv, PTL DEF Spec

\* Every handle in use stands for the function its holder registered, whatever
\* was shared, released, recycled or executing (registerSPForward,
\* unregisterSPForward, executeForwards).
THEOREM HandlesDenoteAlways == Spec => []HandlesDenote
<1>1. IInv => HandlesDenote
  BY DEF IInv
<1> QED
  BY <1>1, Invariance, PTL

\* m_RefCount is the number of holders, and m_FreeSPForwards holds each free id
\* once and nothing else, at all times; a function on the call stack is never
\* recycled, a release that was put off is pending only while its function executes,
\* and the double-release warning of unregisterSPForward is not logged on the way.
THEOREM RegistryExactAlways == Spec => []RegistryExact
<1>1. IInv => RegistryExact
  BY DEF IInv, RegistryExact, SlotsExact, DeferralIsSound
<1> QED
  BY <1>1, Invariance, PTL

-----------------------------------------------------------------------------
(* The registry implements the table of handles *)

Bound == [h \in Holders |-> IF held[h] = 0 THEN None ELSE key[held[h]]]
Running == [n \in 1 .. Len(stack) |-> key[stack[n]]]

LEMMA BoundIsKey ==
  ASSUME IInv, NEW h \in Holders
  PROVE  Bound[h] = None <=> held[h] = 0
<1>1. held[h] # 0 => key[held[h]] \in Keys
  BY DEF IInv, HandlesDenote, SlotsHaveKeys
<1> QED
  BY <1>1 DEF Bound

\* A registration is an Acquire of the table: the slot it uses has the key.
LEMMA HoldMaps ==
  ASSUME IInv, NEW h \in Holders, NEW k \in Keys, NEW i \in Slot,
         held[h] = 0, Hold(h, i, k), key'[i] = k,
         \A g \in Holders : held[g] # 0 => key'[held[g]] = key[held[g]],
         \A n \in 1 .. Len(stack) : key'[stack[n]] = key[stack[n]],
         stack' = stack
  PROVE  Table!Acquire(h, k)
<1>1. Table!Acquire(h, k) <=> /\ Bound[h] = None
                              /\ Bound' = [Bound EXCEPT ![h] = k]
                              /\ Running' = Running
  BY DEF Table!Acquire, Bound, Running
<1>2. Bound[h] = None
  BY BoundIsKey
<1>3. \A g \in Holders : held'[g] = IF g = h THEN i ELSE held[g]
  BY DEF IInv, TypeOK, Hold
<1>4. i # 0
  BY DEF Slot
<1>5. Bound' = [Bound EXCEPT ![h] = k]
  <2>1. \A g \in Holders : (IF held'[g] = 0 THEN None ELSE key'[held'[g]])
                          = IF g = h THEN k ELSE IF held[g] = 0 THEN None ELSE key[held[g]]
    BY <1>3, <1>4
  <2>2. Bound' = [g \in Holders |->
                   IF g = h THEN k ELSE IF held[g] = 0 THEN None ELSE key[held[g]]]
    BY <2>1, Zenon DEF Bound
  <2> QED
    BY <2>2 DEF Bound
<1>6. Running' = Running
  BY DEF Running
<1> QED
  BY <1>1, <1>2, <1>5, <1>6

LEMMA ShareMaps ==
  ASSUME IInv, NEW h \in Holders, NEW k \in Keys, Share(h, k)
  PROVE  Table!Acquire(h, k)
<1>1. PICK i \in Registered(k) : Hold(h, i, k)
  BY DEF Share
<1>2. i \in Slot /\ key'[i] = k
  BY DEF Share, Registered, IInv, TypeOK, Used, Slot
<1>3. held[h] = 0 /\ key' = key /\ stack' = stack
  BY DEF Share
<1> QED
  BY <1>1, <1>2, <1>3, HoldMaps

LEMMA TakeMaps ==
  ASSUME IInv, NEW h \in Holders, NEW k \in Keys, NEW i \in Slot,
         held[h] = 0, i \notin Used \/ free[i], Set(i, k), Hold(h, i, k), stack' = stack
  PROVE  Table!Acquire(h, k)
<1>1. /\ \A g \in Holders : held[g] # i
      /\ \A n \in 1 .. Len(stack) : stack[n] # i
  BY FreshSlot
<1>2. key'[i] = k /\ \A j \in Slot : j # i => key'[j] = key[j]
  BY DEF Set, IInv, TypeOK
<1>3. \A g \in Holders : held[g] # 0 => key'[held[g]] = key[held[g]]
  BY <1>1, <1>2 DEF IInv, TypeOK
<1>4. \A n \in 1 .. Len(stack) : key'[stack[n]] = key[stack[n]]
  BY <1>1, <1>2, ElementOfSeq DEF IInv, TypeOK
<1> QED
  BY <1>2, <1>3, <1>4, HoldMaps

LEMMA RecycleMaps ==
  ASSUME IInv, NEW h \in Holders, NEW k \in Keys, Recycle(h, k)
  PROVE  Table!Acquire(h, k)
<1>1. /\ held[h] = 0 /\ freeList # <<>> /\ Set(Top(freeList), k)
      /\ Hold(h, Top(freeList), k) /\ stack' = stack
  BY DEF Recycle
<1>2. Top(freeList) \in Slot /\ Top(freeList) = freeList[Len(freeList)] /\ Len(freeList) >= 1
      /\ Len(freeList) \in Nat
  BY <1>1, CallsPop, LenProperties DEF IInv, TypeOK, Top
<1>3. free[Top(freeList)]
  BY <1>2 DEF IInv, FreeListExact
<1> QED
  BY <1>1, <1>2, <1>3, TakeMaps

LEMMA ExtendMaps ==
  ASSUME IInv, NEW h \in Holders, NEW k \in Keys, Extend(h, k)
  PROVE  Table!Acquire(h, k)
<1>1. /\ held[h] = 0 /\ Set(len + 1, k) /\ Hold(h, len + 1, k) /\ stack' = stack
      /\ len < MaxSlots
  BY DEF Extend
<1>2. len + 1 \in Slot /\ len + 1 \notin Used
  BY <1>1 DEF IInv, TypeOK, Slot, Used
<1> QED
  BY <1>1, <1>2, TakeMaps

\* A slot that fails to register was nobody's: its new key shows nowhere.
LEMMA RecycleFailsMaps ==
  ASSUME IInv, NEW k \in Keys, RecycleFails(k)
  PROVE  UNCHANGED <<Bound, Running>>
<1> DEFINE i == Top(freeList)
<1>1. freeList # <<>> /\ key' = [key EXCEPT ![i] = k] /\ held' = held /\ stack' = stack
  BY DEF RecycleFails
<1>2. i \in Slot /\ i = freeList[Len(freeList)] /\ Len(freeList) >= 1 /\ Len(freeList) \in Nat
  BY <1>1, CallsPop, LenProperties DEF IInv, TypeOK, Top
<1>3. free[i]
  BY <1>2 DEF IInv, FreeListExact
<1> HIDE DEF i
<1>4. /\ \A g \in Holders : held[g] # i
      /\ \A n \in 1 .. Len(stack) : stack[n] # i
  BY <1>2, <1>3, FreshSlot
<1>5. \A j \in Slot : j # i => key'[j] = key[j]
  BY <1>1, <1>2 DEF IInv, TypeOK
<1>6. \A g \in Holders : held[g] # 0 => key'[held[g]] = key[held[g]]
  BY <1>4, <1>5 DEF IInv, TypeOK
<1>7. \A n \in 1 .. Len(stack) : key'[stack[n]] = key[stack[n]]
  BY <1>4, <1>5, ElementOfSeq DEF IInv, TypeOK
<1> QED
  BY <1>1, <1>6, <1>7 DEF Bound, Running

LEMMA ReleaseMaps ==
  ASSUME IInv, NEW h \in Holders, Release(h)
  PROVE  Table!Drop(h)
<1>1. /\ held[h] # 0 /\ held' = [held EXCEPT ![h] = 0]
      /\ key' = key /\ stack' = stack
  BY DEF Release
<1>2. Table!Drop(h) <=> /\ Bound[h] # None
                        /\ Bound' = [Bound EXCEPT ![h] = None]
                        /\ Running' = Running
  BY DEF Table!Drop, Bound, Running
<1>3. \A g \in Holders : held'[g] = IF g = h THEN 0 ELSE held[g]
  BY <1>1 DEF IInv, TypeOK
<1>4. Bound' = [Bound EXCEPT ![h] = None]
  <2>1. \A g \in Holders : (IF held'[g] = 0 THEN None ELSE key'[held'[g]])
                          = IF g = h THEN None ELSE IF held[g] = 0 THEN None ELSE key[held[g]]
    BY <1>1, <1>3
  <2>2. Bound' = [g \in Holders |->
                   IF g = h THEN None ELSE IF held[g] = 0 THEN None ELSE key[held[g]]]
    BY <2>1, Zenon DEF Bound
  <2> QED
    BY <2>2 DEF Bound
<1>5. Running' = Running
  BY <1>1 DEF Running
<1> QED
  BY <1>1, <1>2, <1>4, <1>5, BoundIsKey

LEMMA ExecuteMaps ==
  ASSUME IInv, NEW h \in Holders, Execute(h)
  PROVE  Table!Call(h)
<1>1. /\ held[h] # 0 /\ stack' = Append(stack, held[h])
      /\ held' = held /\ key' = key
  BY DEF Execute
<1>2. Table!Call(h) <=> /\ Bound[h] # None
                        /\ Running' = Append(Running, Bound[h])
                        /\ Bound' = Bound
  BY DEF Table!Call, Bound, Running
<1>3. held[h] \in Slot /\ stack \in Seq(Slot) /\ Len(stack) \in Nat
  BY <1>1, LenProperties DEF IInv, TypeOK
<1>4. /\ Len(stack') = Len(stack) + 1 /\ stack'[Len(stack) + 1] = held[h]
      /\ \A n \in 1 .. Len(stack) : stack'[n] = stack[n]
  BY <1>1, <1>3, CallsPush
<1> DEFINE K == Keys \cup {None}
<1>5. Running \in Seq(K) /\ Len(Running) = Len(stack)
  BY <1>3, ElementOfSeq DEF Running, IInv, TypeOK
<1>6. Bound[h] = key[held[h]] /\ Bound[h] \in K
  BY <1>1, <1>3 DEF Bound, IInv, TypeOK
<1>7. Running' = Append(Running, Bound[h])
  <2>1. Running' \in Seq(K) /\ Len(Running') = Len(stack) + 1
    BY <1>1, <1>3, <1>4, CallsPush, ElementOfSeq DEF Running, IInv, TypeOK
  <2>2. /\ Append(Running, Bound[h]) \in Seq(K)
        /\ Len(Append(Running, Bound[h])) = Len(stack) + 1
        /\ Append(Running, Bound[h])[Len(stack) + 1] = Bound[h]
        /\ \A n \in 1 .. Len(stack) : Append(Running, Bound[h])[n] = Running[n]
    BY <1>5, <1>6, AppendProperties
  <2>3. \A n \in 1 .. Len(stack) + 1 : Running'[n] = Append(Running, Bound[h])[n]
    BY <1>1, <1>3, <1>4, <1>6, <2>2 DEF Running
  <2> QED
    BY <2>1, <2>2, <2>3, SeqEqual
<1> QED
  BY <1>1, <1>2, <1>7, BoundIsKey DEF Bound

LEMMA FinishMaps ==
  ASSUME IInv, Finish
  PROVE  Table!Return
<1>1. stack # <<>> /\ stack' = Pop(stack) /\ held' = held /\ key' = key
  BY DEF Finish
<1>2. Table!Return <=> /\ Running # <<>>
                       /\ Running' = SubSeq(Running, 1, Len(Running) - 1)
                       /\ Bound' = Bound
  BY DEF Table!Return, Bound, Running
<1>3. /\ stack \in Seq(Slot) /\ Len(stack) \in Nat /\ Len(stack) >= 1
      /\ Len(stack') = Len(stack) - 1
      /\ \A n \in 1 .. Len(stack') : stack'[n] = stack[n]
  BY <1>1, CallsPop, LenProperties DEF IInv, TypeOK
<1>4. Len(Running) = Len(stack) /\ Running # <<>>
  BY <1>3 DEF Running
<1>5. Running' = SubSeq(Running, 1, Len(Running) - 1)
  BY <1>1, <1>3, <1>4 DEF Running
<1> QED
  BY <1>1, <1>2, <1>4, <1>5 DEF Bound

LEMMA ClearMaps ==
  ASSUME Clear
  PROVE  Table!Reset
<1>1. Table!Reset <=> /\ Running = <<>>
                      /\ Bound' = [h \in Holders |-> None]
                      /\ Running' = Running
  BY DEF Table!Reset, Bound, Running
<1>2. Running = <<>> /\ Running' = <<>>
  BY DEF Clear, Running
<1>3. Bound' = [h \in Holders |-> None]
  BY DEF Clear, Bound
<1> QED
  BY <1>1, <1>2, <1>3

LEMMA StepMaps ==
  ASSUME IInv, [Next]_vars
  PROVE  [Table!TableNext]_(Table!tableVars)
<1>0. Table!tableVars = <<Bound, Running>>
  BY DEF Table!tableVars, Bound, Running
<1>v. UNCHANGED <<Bound, Running>> => UNCHANGED Table!tableVars
  BY DEF Table!tableVars, Bound, Running
<1>1. CASE \E h \in Holders : Release(h)
  BY <1>1, ReleaseMaps DEF Table!TableNext
<1>2. CASE \E h \in Holders : Execute(h)
  BY <1>2, ExecuteMaps DEF Table!TableNext
<1>3. CASE \E h \in Holders, k \in Keys : Register(h, k)
  BY <1>3, ShareMaps, RecycleMaps, ExtendMaps DEF Register, Table!TableNext
<1>4. CASE \E g, h \in Holders : Duplicate(g, h)
  <2>1. PICK g \in Holders, h \in Holders : Duplicate(g, h)
    BY <1>4
  <2>2. key[held[g]] \in Keys /\ Share(h, key[held[g]])
    BY <2>1 DEF Duplicate, IInv, HandlesDenote, SlotsHaveKeys
  <2> QED
    BY <2>2, ShareMaps DEF Table!TableNext
<1>5. CASE \E k \in Keys : RecycleFails(k)
  BY <1>v, <1>5, RecycleFailsMaps
<1>6. CASE Finish
  BY <1>6, FinishMaps DEF Table!TableNext
<1>7. CASE Clear
  BY <1>7, ClearMaps DEF Table!TableNext
<1>8. CASE UNCHANGED vars
  BY <1>v, <1>8 DEF vars, slotVars, Bound, Running
<1> QED
  BY <1>1, <1>2, <1>3, <1>4, <1>5, <1>6, <1>7, <1>8 DEF Next

\* The registry implements HandleTable: from its registration to its release a
\* handle calls the function it was registered for, and calls nest.
THEOREM SPForwardsImplementTable == Spec => ImplementsTable
<1>1. Init => Table!TableInit
  <2>1. Table!TableInit <=> Bound = [h \in Holders |-> None] /\ Running = <<>>
    BY DEF Table!TableInit, Bound, Running
  <2> QED
    BY <2>1 DEF Init, Bound, Running
<1>2. IInv /\ [Next]_vars => [Table!TableNext]_(Table!tableVars)
  BY StepMaps
<1> QED
  BY <1>1, <1>2, Invariance, PTL DEF Spec, ImplementsTable, Table!TableSpec

USE FunctionsAssumption, MaxArraysAssumption

-----------------------------------------------------------------------------
(* Calls and the registry *)

LEMMA CallsStepRegistry ==
  ASSUME [CallNext]_<<vars, callVars>>
  PROVE  [Next]_vars
<1>1. CASE \E a \in Arrays : PrepareArray(a)
  BY <1>1 DEF PrepareArray
<1>2. CASE \E h \in Holders : CallOne(h)
  BY <1>2 DEF CallOne, Next
<1>3. CASE \E f \in Forwards : CallAll(f) \/ RegisterForward(f)
  BY <1>3 DEF CallAll, RegisterForward
<1>4. CASE PrepareTooMany \/ NextFunction \/ ReturnAll \/ CallNobody
  BY <1>4 DEF PrepareTooMany, NextFunction, ReturnAll, CallNobody
<1>5. CASE ReturnOne \/ ClearAll
  BY <1>5 DEF ReturnOne, ClearAll, Next
<1>6. CASE Bookkeeping
  BY <1>6 DEF Bookkeeping, Next
<1>7. CASE UNCHANGED <<vars, callVars>>
  BY <1>7
<1> QED
  BY <1>1, <1>2, <1>3, <1>4, <1>5, <1>6, <1>7 DEF CallNext

\* Whatever is called, and with whatever arrays, the registry of single-plugin forwards
\* does what SPForwards says (CallOne, ReturnOne, ClearAll and Bookkeeping are its steps).
THEOREM CallsKeepRegistry == CallSpec => Spec
<1>1. CallInit => Init
  BY DEF CallInit
<1> QED
  BY <1>1, CallsStepRegistry, PTL DEF CallSpec, Spec

\* So a handle keeps its meaning and the table stays exact under calls of all kinds.
THEOREM HandlesDenoteUnderCalls == CallSpec => []HandlesDenote
  BY CallsKeepRegistry, HandlesDenoteAlways, PTL

THEOREM RegistryExactUnderCalls == CallSpec => []RegistryExact
  BY CallsKeepRegistry, RegistryExactAlways, PTL

THEOREM CallsImplementTable == CallSpec => ImplementsTable
  BY CallsKeepRegistry, SPForwardsImplementTable, PTL

-----------------------------------------------------------------------------
(* The arrays of a call *)

\* Whose indices they are does not matter.
LEMMA InUseIs ==
  ASSUME NEW x
  PROVE  x \in InUse <=> \E d \in 1 .. Len(calls) : x \in calls[d].args \cup calls[d].ready
  BY DEF InUse

LEMMA InUseAfter ==
  ASSUME NEW x
  PROVE  x \in InUse' <=> \E d \in 1 .. Len(calls') : x \in calls'[d].args \cup calls'[d].ready
  BY DEF InUse

LEMMA InnermostCall ==
  ASSUME CallTypeOK
  PROVE  /\ Len(calls) \in Nat /\ Len(calls) >= 1 /\ Len(calls) \in 1 .. Len(calls)
         /\ Here = calls[Len(calls)] /\ Here \in Frame
         /\ \A d \in 1 .. Len(calls) : calls[d] \in Frame
<1>1. Len(calls) \in Nat /\ Len(calls) >= 1
  BY EmptySeq, LenProperties DEF CallTypeOK
<1>2. \A d \in 1 .. Len(calls) : calls[d] \in Frame
  BY ElementOfSeq DEF CallTypeOK
<1> QED
  BY <1>1, <1>2 DEF Here, Top

\* The innermost call is changed.
LEMMA ChangeInnermost ==
  ASSUME CallTypeOK, NEW f \in Frame, calls' = [calls EXCEPT ![Len(calls)] = f]
  PROVE  /\ calls' \in Seq(Frame) /\ calls' # <<>> /\ Len(calls') = Len(calls)
         /\ \A d \in 1 .. Len(calls) : calls'[d] = IF d = Len(calls) THEN f ELSE calls[d]
<1>1. /\ calls' \in Seq(Frame) /\ Len(calls') = Len(calls)
      /\ \A d \in 1 .. Len(calls) : calls'[d] = IF d = Len(calls) THEN f ELSE calls[d]
  BY InnermostCall, ExceptSeq DEF CallTypeOK
<1> QED
  BY <1>1, InnermostCall

LEMMA CallFields ==
  ASSUME NEW one \in BOOLEAN, NEW left \in Nat, NEW args \in SUBSET Index, NEW ready \in SUBSET Index
  PROVE  /\ CallOf(one, left, args, ready) \in Frame
         /\ CallOf(one, left, args, ready).args = args
         /\ CallOf(one, left, args, ready).ready = ready
  BY DEF CallOf, Frame

\* m_TmpArraysNum = 0 leaves nobody with a safe index.
LEMMA ExposedAreUnsafe ==
  ASSUME NEW s \in SUBSET Index
  PROVE  Exposed(s) \in SUBSET Index /\ \A x \in Exposed(s) : ~x.safe
  BY DEF Exposed, Index

LEMMA ExposeAllType ==
  ASSUME NEW cs \in Seq(Frame), cs # <<>>
  PROVE  /\ ExposeAll(cs) \in Seq(Frame) /\ ExposeAll(cs) # <<>>
         /\ Len(ExposeAll(cs)) = Len(cs)
         /\ \A d \in 1 .. Len(cs) : \A x \in ExposeAll(cs)[d].args \cup ExposeAll(cs)[d].ready : ~x.safe
<1> DEFINE f(d) == CallOf(cs[d].one, cs[d].left, Exposed(cs[d].args), Exposed(cs[d].ready))
<1>1. Len(cs) \in Nat /\ Len(cs) >= 1
  BY EmptySeq, LenProperties
<1>2. ASSUME NEW d \in 1 .. Len(cs)
      PROVE  /\ f(d) \in Frame
             /\ f(d).args = Exposed(cs[d].args) /\ f(d).ready = Exposed(cs[d].ready)
             /\ \A x \in f(d).args \cup f(d).ready : ~x.safe
  <2>1. cs[d] \in Frame
    BY ElementOfSeq
  <2>2. /\ cs[d].args \in SUBSET Index /\ cs[d].ready \in SUBSET Index
        /\ cs[d].one \in BOOLEAN /\ cs[d].left \in Nat
    BY <2>1 DEF Frame
  <2>3. Exposed(cs[d].args) \in SUBSET Index /\ Exposed(cs[d].ready) \in SUBSET Index
    BY <2>2, ExposedAreUnsafe
  <2>4. /\ f(d) \in Frame
        /\ f(d).args = Exposed(cs[d].args) /\ f(d).ready = Exposed(cs[d].ready)
    BY <2>2, <2>3, CallFields
  <2> QED
    BY <2>2, <2>4, ExposedAreUnsafe
<1>3. ExposeAll(cs) = [d \in 1 .. Len(cs) |-> f(d)]
  BY DEF ExposeAll
<1> HIDE DEF f
<1>4. ExposeAll(cs) \in Seq(Frame) /\ Len(ExposeAll(cs)) = Len(cs)
  BY <1>1, <1>2, <1>3
<1> QED
  BY <1>1, <1>2, <1>3, <1>4

\* A step that resets the counter and exposes what is left of the calls.
LEMMA ResetStep ==
  ASSUME ArraysAreOwn, NEW cs \in Seq(Frame), cs # <<>>, calls' = ExposeAll(cs),
         tmpNum' = 0, multi' \subseteq Forwards, tmp' = tmp
  PROVE  ArraysAreOwn'
<1>1. CallTypeOK'
  BY ExposeAllType DEF CallTypeOK, ArraysAreOwn
<1>2. \A x \in InUse' : ~x.safe
  BY ExposeAllType, InUseAfter
<1> QED
  BY <1>1, <1>2 DEF ArraysAreOwn

\* A step that gives out no index and leaves the table alone.
LEMMA NoNewIndex ==
  ASSUME ArraysAreOwn, calls' \in Seq(Frame), calls' # <<>>, InUse' \subseteq InUse,
         tmp' = tmp, tmpNum' = tmpNum, multi' \subseteq Forwards
  PROVE  ArraysAreOwn'
  BY DEF ArraysAreOwn, CallTypeOK

LEMMA PrepareStep ==
  ASSUME ArraysAreOwn, NEW a \in Arrays, PrepareArray(a)
  PROVE  ArraysAreOwn'
<1> DEFINE new == [at |-> tmpNum, array |-> a, safe |-> TRUE]
           f == [Here EXCEPT !.ready = @ \cup {new}]
<1>1. CallTypeOK /\ tmpNum \in 0 .. MaxArrays - 1
  BY DEF ArraysAreOwn, CallTypeOK, PrepareArray
<1>2. new \in Index
  BY <1>1 DEF Index
<1>3. f \in Frame /\ f.args = Here.args /\ f.ready = Here.ready \cup {new}
  BY <1>1, <1>2, InnermostCall DEF Frame
<1>4. calls' = [calls EXCEPT ![Len(calls)] = f]
  BY <1>1, InnermostCall DEF PrepareArray
<1>5. tmp' = [tmp EXCEPT ![tmpNum] = a] /\ tmpNum' = tmpNum + 1 /\ multi' = multi
  BY DEF PrepareArray
<1>n. new.at = tmpNum /\ new.array = a
  OBVIOUS
<1> HIDE DEF new, f
<1>6. /\ calls' \in Seq(Frame) /\ calls' # <<>> /\ Len(calls') = Len(calls)
      /\ \A d \in 1 .. Len(calls) : calls'[d] = IF d = Len(calls) THEN f ELSE calls[d]
  BY <1>1, <1>3, <1>4, ChangeInnermost
<1>7. \A x \in InUse' : x = new \/ x \in InUse
  <2>1. TAKE x \in InUse'
  <2>2. PICK d \in 1 .. Len(calls) : x \in calls'[d].args \cup calls'[d].ready
    BY <1>6, InUseAfter
  <2>3. x = new \/ x \in calls[d].args \cup calls[d].ready
    BY <1>1, <1>3, <1>6, <2>2, InnermostCall
  <2> QED
    BY <2>3, InUseIs
<1>8. CallTypeOK'
  <2>1. tmpNum' \in 0 .. MaxArrays
    BY <1>1, <1>5
  <2>2. tmp' \in [0 .. MaxArrays - 1 -> Arrays \cup {None}]
    BY <1>1, <1>5 DEF CallTypeOK
  <2> QED
    BY <1>1, <1>5, <1>6, <2>1, <2>2 DEF CallTypeOK
<1>9. ASSUME NEW x \in InUse', x.safe
      PROVE  x.at < tmpNum' /\ tmp'[x.at] = x.array
  <2>1. tmp'[tmpNum] = a /\ \A i \in 0 .. MaxArrays - 1 : i # tmpNum => tmp'[i] = tmp[i]
    BY <1>1, <1>5 DEF CallTypeOK
  <2>2. CASE x = new
    BY <1>1, <1>5, <1>n, <2>1, <2>2
  <2>3. CASE x \in InUse
    <3>1. x.at < tmpNum /\ tmp[x.at] = x.array
      BY <1>9, <2>3 DEF ArraysAreOwn
    <3>2. x.at \in 0 .. MaxArrays - 1
      BY <1>1, <2>3, InUseIs, InnermostCall DEF Frame, Index
    <3> QED
      BY <1>1, <1>5, <2>1, <3>1, <3>2
  <2> QED
    BY <1>7, <2>2, <2>3
<1> QED
  BY <1>8, <1>9 DEF ArraysAreOwn

LEMMA EnterStep ==
  ASSUME ArraysAreOwn, NEW used \in SUBSET Here.ready, NEW one \in BOOLEAN, NEW left \in Nat,
         Enter(used, one, left)
  PROVE  ArraysAreOwn'
<1> DEFINE f == [Here EXCEPT !.ready = @ \ used]
           g == CallOf(one, left, used, {})
           cs == [calls EXCEPT ![Len(calls)] = f]
<1>1. CallTypeOK
  BY DEF ArraysAreOwn
<1>2. f \in Frame /\ f.args = Here.args /\ f.ready = Here.ready \ used
  BY <1>1, InnermostCall DEF Frame
<1>3. g \in Frame /\ g.args = used /\ g.ready = {}
  <2>1. used \in SUBSET Index /\ {} \in SUBSET Index
    BY <1>1, InnermostCall DEF Frame
  <2> QED
    BY <2>1, CallFields
<1>4. calls' = Append(cs, g) /\ tmp' = tmp /\ tmpNum' = tmpNum /\ multi' = multi
  BY <1>1, InnermostCall DEF Enter
<1> HIDE DEF f, g
<1>5. /\ cs \in Seq(Frame) /\ Len(cs) = Len(calls)
      /\ \A d \in 1 .. Len(calls) : cs[d] = IF d = Len(calls) THEN f ELSE calls[d]
  BY <1>1, <1>2, InnermostCall, ExceptSeq DEF CallTypeOK
<1> HIDE DEF cs
<1>6. /\ calls' \in Seq(Frame) /\ Len(calls') = Len(calls) + 1
      /\ calls'[Len(calls) + 1] = g
      /\ \A d \in 1 .. Len(calls) : calls'[d] = IF d = Len(calls) THEN f ELSE calls[d]
  BY <1>1, <1>3, <1>4, <1>5, InnermostCall, AppendProperties
<1>7. InUse' \subseteq InUse
  <2>1. SUFFICES ASSUME NEW x \in InUse' PROVE x \in InUse
    OBVIOUS
  <2>2. PICK d \in 1 .. Len(calls) + 1 : x \in calls'[d].args \cup calls'[d].ready
    BY <1>6, InUseAfter
  <2>3. CASE d = Len(calls) + 1
    <3>1. x \in Here.ready
      BY <1>3, <1>6, <2>2, <2>3
    <3> QED
      BY <1>1, <3>1, InUseIs, InnermostCall
  <2>4. CASE d # Len(calls) + 1
    <3>1. d \in 1 .. Len(calls)
      BY <1>1, <2>4, InnermostCall
    <3>2. x \in calls[d].args \cup calls[d].ready
      BY <1>1, <1>2, <1>6, <2>2, <3>1, InnermostCall
    <3> QED
      BY <3>1, <3>2, InUseIs
  <2> QED
    BY <2>3, <2>4
<1>8. calls' # <<>>
  BY <1>1, <1>6, InnermostCall
<1> QED
  BY <1>1, <1>4, <1>6, <1>7, <1>8, NoNewIndex DEF CallTypeOK

LEMMA LeaveStep ==
  ASSUME ArraysAreOwn, Leave
  PROVE  ArraysAreOwn'
<1>1. CallTypeOK
  BY DEF ArraysAreOwn
<1>2. Pop(calls) \in Seq(Frame) /\ Len(Pop(calls)) = Len(calls) - 1
  <2>1. \A d \in 1 .. Len(calls) - 1 : calls[d] \in Frame
    BY <1>1, InnermostCall
  <2>2. 1 \in Int /\ Len(calls) - 1 \in Int
    BY <1>1, InnermostCall
  <2>3. /\ SubSeq(calls, 1, Len(calls) - 1) \in Seq(Frame)
        /\ Len(SubSeq(calls, 1, Len(calls) - 1)) = IF 1 <= Len(calls) - 1 THEN Len(calls) - 1 - 1 + 1 ELSE 0
    BY <2>1, <2>2, SubSeqProperties
  <2>4. Len(calls) \in Nat /\ Len(calls) > 1
    BY <1>1, InnermostCall DEF Leave
  <2> QED
    BY <2>3, <2>4 DEF Pop
<1>3. Len(calls) > 1 /\ Pop(calls) # <<>>
  BY <1>1, <1>2, InnermostCall DEF Leave
<1> QED
  BY <1>1, <1>2, <1>3, ResetStep DEF Leave, CallTypeOK

LEMMA NextFunctionStep ==
  ASSUME ArraysAreOwn, NextFunction
  PROVE  ArraysAreOwn'
<1> DEFINE f == CallOf(FALSE, Here.left - 1, Here.args, {})
<1>1. CallTypeOK
  BY DEF ArraysAreOwn
<1>2. f \in Frame /\ f.args = Here.args /\ f.ready = {}
  <2>1. Here.left - 1 \in Nat /\ Here.args \in SUBSET Index /\ {} \in SUBSET Index
    BY <1>1, InnermostCall DEF Frame, NextFunction
  <2> QED
    BY <2>1 DEF CallOf, Frame
<1>3. calls' = [calls EXCEPT ![Len(calls)] = f]
  BY DEF NextFunction
<1> HIDE DEF f
<1>4. /\ calls' \in Seq(Frame) /\ calls' # <<>> /\ Len(calls') = Len(calls)
      /\ \A d \in 1 .. Len(calls) : calls'[d] = IF d = Len(calls) THEN f ELSE calls[d]
  BY <1>1, <1>2, <1>3, ChangeInnermost
<1>5. InUse' \subseteq InUse
  <2>1. SUFFICES ASSUME NEW x \in InUse' PROVE x \in InUse
    OBVIOUS
  <2>2. PICK d \in 1 .. Len(calls) : x \in calls'[d].args \cup calls'[d].ready
    BY <1>4, InUseAfter
  <2>3. x \in calls[d].args \cup calls[d].ready
    BY <1>1, <1>2, <1>4, <2>2, InnermostCall
  <2> QED
    BY <2>3, InUseIs
<1> QED
  BY <1>1, <1>4, <1>5, NoNewIndex DEF CallTypeOK, NextFunction

LEMMA CallNobodyStep ==
  ASSUME ArraysAreOwn, CallNobody
  PROVE  ArraysAreOwn'
<1>1. CallTypeOK
  BY DEF ArraysAreOwn
<1>2. PICK used \in SUBSET Here.ready :
        calls' = ExposeAll([calls EXCEPT ![Len(calls)].ready = @ \ used])
  BY DEF CallNobody
<1> DEFINE f == [Here EXCEPT !.ready = @ \ used]
           cs == [calls EXCEPT ![Len(calls)] = f]
<1>3. f \in Frame
  BY <1>1, InnermostCall DEF Frame
<1>4. calls' = ExposeAll(cs)
  BY <1>1, <1>2, InnermostCall
<1> HIDE DEF f
<1>5. cs \in Seq(Frame) /\ cs # <<>>
  <2>1. cs \in Seq(Frame) /\ Len(cs) = Len(calls)
    BY <1>1, <1>3, InnermostCall, ExceptSeq DEF CallTypeOK
  <2> QED
    BY <1>1, <2>1, InnermostCall
<1> HIDE DEF cs
<1> QED
  BY <1>1, <1>4, <1>5, ResetStep DEF CallTypeOK, CallNobody

LEMMA InitOwn == CallInit => ArraysAreOwn
<1> SUFFICES ASSUME CallInit PROVE ArraysAreOwn
  OBVIOUS
<1> DEFINE f == CallOf(FALSE, 0, {}, {})
<1>1. calls = <<f>> /\ f \in Frame /\ f.args = {} /\ f.ready = {}
  <2>1. calls = <<f>>
    BY DEF CallInit
  <2>2. f \in Frame /\ f.args = {} /\ f.ready = {}
    BY DEF CallOf, Frame
  <2> QED
    BY <2>1, <2>2
<1> HIDE DEF f
<1>2. calls \in Seq(Frame) /\ calls # <<>> /\ Len(calls) = 1 /\ calls[1] = f
  BY <1>1
<1>3. InUse = {}
  BY <1>1, <1>2 DEF InUse
<1>4. CallTypeOK
  <2>1. tmp \in [0 .. MaxArrays - 1 -> Arrays \cup {None}]
    BY DEF CallInit
  <2>2. multi \subseteq Forwards /\ tmpNum \in 0 .. MaxArrays
    BY DEF CallInit
  <2> QED
    BY <1>2, <2>1, <2>2 DEF CallTypeOK
<1> QED
  BY <1>3, <1>4 DEF ArraysAreOwn

LEMMA NextOwn ==
  ASSUME ArraysAreOwn, [CallNext]_<<vars, callVars>>
  PROVE  ArraysAreOwn'
<1>0. CallTypeOK
  BY DEF ArraysAreOwn
<1>1. CASE \E a \in Arrays : PrepareArray(a)
  BY <1>1, PrepareStep
<1>2. CASE PrepareTooMany
  BY <1>0, <1>2, ResetStep DEF PrepareTooMany, CallTypeOK
<1>3. CASE \E h \in Holders : CallOne(h)
  BY <1>3, EnterStep DEF CallOne
<1>4. CASE \E f \in Forwards : CallAll(f)
  <2>1. PICK f \in Forwards, used \in SUBSET Here.ready :
          Functions[f] > 0 /\ Enter(used, FALSE, Functions[f] - 1)
    BY <1>4 DEF CallAll
  <2>2. Functions[f] - 1 \in Nat
    BY <2>1
  <2> QED
    BY <2>1, <2>2, EnterStep
<1>5. CASE ReturnOne
  BY <1>5, LeaveStep DEF ReturnOne
<1>6. CASE ReturnAll
  BY <1>6, LeaveStep DEF ReturnAll
<1>7. CASE NextFunction
  BY <1>7, NextFunctionStep
<1>8. CASE CallNobody
  BY <1>8, CallNobodyStep
<1>9. CASE \E f \in Forwards : RegisterForward(f)
  BY <1>0, <1>9, NoNewIndex DEF RegisterForward, CallTypeOK, InUse
<1>10. CASE ClearAll
  BY <1>0, <1>10, ResetStep DEF ClearAll, CallTypeOK
<1>11. CASE Bookkeeping \/ UNCHANGED <<vars, callVars>>
  BY <1>0, <1>11, NoNewIndex DEF Bookkeeping, callVars, CallTypeOK, InUse
<1> QED
  BY <1>1, <1>2, <1>3, <1>4, <1>5, <1>6, <1>7, <1>8, <1>9, <1>10, <1>11 DEF CallNext

\* What a call was given, and what its caller prepared, is where m_TmpArrays says until a
\* call returns, however calls with arrays of their own are nested (prepareArray,
\* CForward::execute, CSPForward::execute, executeForwards).
THEOREM ArraysAreOwnAlways == CallSpec => []ArraysAreOwn
  BY InitOwn, NextOwn, PTL DEF CallSpec

=============================================================================
