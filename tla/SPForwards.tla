----------------------------- MODULE SPForwards -----------------------------
(***************************************************************************)
(* The registry of single-plugin forwards, CForwardMngr::m_SPForwards      *)
(* (amxmodx/CForward.cpp:374-872).  Registering a function that is already *)
(* registered shares its slot and counts one more holder; the last release *)
(* puts the slot on a stack of free ids, or leaves that to the end of the  *)
(* outermost call when the function is being executed.  Everything runs on *)
(* the game thread, but a function that is being executed may itself       *)
(* register, release and execute forwards, to any depth.                   *)
(*                                                                         *)
(* A holder is a piece of code that registers once, executes the handle    *)
(* while it holds it, and releases it once (CTask, menus, natives).        *)
(***************************************************************************)
EXTENDS Naturals, Sequences, FiniteSets

CONSTANTS Holders,
          Keys,       \* (AMX, function, parameter types): what the dedup compares
          Missing,    \* the keys whose function the plugin does not have
          MaxSlots,   \* bound on m_SPForwards.length()
          MaxDepth,   \* bound on the nesting of calls
          None

ASSUME HoldersAssumption == IsFiniteSet(Holders)
ASSUME MaxSlotsAssumption == MaxSlots \in Nat
ASSUME NoneAssumption == None \notin Keys

Slot == 1 .. MaxSlots

VARIABLES
  len,       \* m_SPForwards.length()
  key,       \* slot -> m_Amx, m_Func / m_Name, m_NumParams, m_ParamTypes
  free,      \* slot -> isFree
  toDelete,  \* slot -> m_ToDelete
  inExec,    \* slot -> m_InExec
  refs,      \* slot -> m_RefCount
  freeList,  \* m_FreeSPForwards, its front() last
  stack,     \* the slots being executed, innermost last
  held,      \* holder -> the slot of its handle, 0 when it has none
  wanted,    \* history: holder -> the key it registered
  alarm      \* history: the double-release warning has been logged

slotVars == <<key, free, toDelete, inExec, refs>>
vars == <<len, slotVars, freeList, stack, held, wanted, alarm>>

Used == 1 .. len

\* CStack::pop and front
Pop(s) == SubSeq(s, 1, Len(s) - 1)
Top(s) == s[Len(s)]

Init ==
  /\ len = 0
  /\ key = [i \in Slot |-> None]
  /\ free = [i \in Slot |-> FALSE]
  /\ toDelete = [i \in Slot |-> FALSE]
  /\ inExec = [i \in Slot |-> 0]
  /\ refs = [i \in Slot |-> 0]
  /\ freeList = <<>> /\ stack = <<>>
  /\ held = [h \in Holders |-> 0]
  /\ wanted = [h \in Holders |-> None]
  /\ alarm = FALSE

-----------------------------------------------------------------------------
(* registerSPForward *)

\* The live slots registered for k.
Registered(k) == {i \in Used : ~free[i] /\ key[i] = k}

Hold(h, i, k) == /\ held' = [held EXCEPT ![h] = i]
                 /\ wanted' = [wanted EXCEPT ![h] = k]

\* CSPForward::Set on slot i.
Set(i, k) ==
  /\ key' = [key EXCEPT ![i] = k]
  /\ free' = [free EXCEPT ![i] = FALSE]
  /\ toDelete' = [toDelete EXCEPT ![i] = FALSE]
  /\ inExec' = [inExec EXCEPT ![i] = 0]
  /\ refs' = [refs EXCEPT ![i] = 1]

ShareUncounted(h, k) ==
  /\ held[h] = 0 /\ Registered(k) # {}
  /\ \E i \in Registered(k) :
       /\ \A j \in Registered(k) : i <= j
       /\ toDelete' = [toDelete EXCEPT ![i] = FALSE]
       /\ Hold(h, i, k)
  /\ UNCHANGED <<len, key, free, inExec, refs, freeList, stack, alarm>>

ShareUnrescued(h, k) ==
  /\ held[h] = 0 /\ Registered(k) # {}
  /\ \E i \in Registered(k) :
       /\ \A j \in Registered(k) : i <= j
       /\ refs' = [refs EXCEPT ![i] = @ + 1]
       /\ Hold(h, i, k)
  /\ UNCHANGED <<len, key, free, toDelete, inExec, freeList, stack, alarm>>

\* The function is registered: the first such slot gets one more holder, and is
\* rescued if its last one let go of it while it was executing.
Share(h, k) ==
  /\ held[h] = 0 /\ Registered(k) # {}
  /\ \E i \in Registered(k) :
       /\ \A j \in Registered(k) : i <= j
       /\ toDelete' = [toDelete EXCEPT ![i] = FALSE]
       /\ refs' = [refs EXCEPT ![i] = @ + 1]
       /\ Hold(h, i, k)
  /\ UNCHANGED <<len, key, free, inExec, freeList, stack, alarm>>

\* It is not: the slot freed last is used again ...
Recycle(h, k) ==
  /\ held[h] = 0 /\ Registered(k) = {} /\ freeList # <<>> /\ k \notin Missing
  /\ Set(Top(freeList), k)
  /\ freeList' = Pop(freeList)
  /\ Hold(h, Top(freeList), k)
  /\ UNCHANGED <<len, stack, alarm>>

RecycleFailsUnpopped(k) ==
  /\ Registered(k) = {} /\ freeList # <<>> /\ k \in Missing
  /\ LET i == Top(freeList)
     IN  /\ key' = [key EXCEPT ![i] = k]
         /\ free' = [free EXCEPT ![i] = FALSE]
         /\ toDelete' = [toDelete EXCEPT ![i] = FALSE]
         /\ inExec' = [inExec EXCEPT ![i] = 0]
         /\ refs' = [refs EXCEPT ![i] = 0]
  /\ UNCHANGED <<len, freeList, stack, held, wanted, alarm>>

\* ... and goes back to the stack when the plugin has no such function ...
RecycleFails(k) ==
  /\ Registered(k) = {} /\ freeList # <<>> /\ k \in Missing
  /\ LET i == Top(freeList)
     IN  /\ key' = [key EXCEPT ![i] = k]
         /\ free' = [free EXCEPT ![i] = TRUE]
         /\ toDelete' = [toDelete EXCEPT ![i] = FALSE]
         /\ inExec' = [inExec EXCEPT ![i] = 0]
         /\ refs' = [refs EXCEPT ![i] = 0]
         /\ freeList' = Append(Pop(freeList), i)
  /\ UNCHANGED <<len, stack, held, wanted, alarm>>

\* ... or the table grows.
Extend(h, k) ==
  /\ held[h] = 0 /\ Registered(k) = {} /\ freeList = <<>> /\ k \notin Missing
  /\ len < MaxSlots
  /\ len' = len + 1
  /\ Set(len + 1, k)
  /\ Hold(h, len + 1, k)
  /\ UNCHANGED <<freeList, stack, alarm>>

\* duplicateSPForward: another holder for what slot held[g] stands for.
Duplicate(g, h) ==
  /\ held[g] # 0 /\ ~free[held[g]]
  /\ Share(h, key[held[g]])

-----------------------------------------------------------------------------
(* unregisterSPForward *)

FreeSlot(i) == /\ free' = [free EXCEPT ![i] = TRUE]
               /\ freeList' = Append(freeList, i)

ReleaseAtOnce(h) ==
  LET i == held[h]
  IN  /\ i # 0 /\ held' = [held EXCEPT ![h] = 0]
      /\ wanted' = [wanted EXCEPT ![h] = None]
      /\ refs' = [refs EXCEPT ![i] = IF @ > 1 THEN @ - 1 ELSE 0]
      /\ IF refs[i] > 1 THEN UNCHANGED <<free, freeList>> ELSE FreeSlot(i)
      /\ UNCHANGED <<len, key, toDelete, inExec, stack, alarm>>

\* A holder lets go of its handle.
Release(h) ==
  LET i == held[h]
  IN  /\ i # 0
      /\ held' = [held EXCEPT ![h] = 0] /\ wanted' = [wanted EXCEPT ![h] = None]
      /\ IF free[i] THEN UNCHANGED <<refs, toDelete, free, freeList, alarm>>
         ELSE IF refs[i] > 1
         THEN /\ refs' = [refs EXCEPT ![i] = @ - 1]
              /\ UNCHANGED <<toDelete, free, freeList, alarm>>
         ELSE /\ refs' = [refs EXCEPT ![i] = 0]
              /\ alarm' = (alarm \/ (refs[i] = 0 /\ inExec[i] = 0))
              /\ IF inExec[i] > 0
                 THEN /\ toDelete' = [toDelete EXCEPT ![i] = TRUE]
                      /\ UNCHANGED <<free, freeList>>
                 ELSE /\ FreeSlot(i)
                      /\ UNCHANGED toDelete
      /\ UNCHANGED <<len, key, inExec, stack>>

-----------------------------------------------------------------------------
(* executeForwards *)

\* A holder executes its handle; a paused plugin, or a forward about to be
\* deleted, is not called and nothing changes.
Execute(h) ==
  LET i == held[h]
  IN  /\ i # 0 /\ Len(stack) < MaxDepth
      /\ ~free[i] /\ ~toDelete[i]
      /\ inExec' = [inExec EXCEPT ![i] = @ + 1]
      /\ stack' = Append(stack, i)
      /\ UNCHANGED <<len, key, free, toDelete, refs, freeList, held, wanted, alarm>>

\* The innermost call returns; the last one of a forward completes the release
\* that was put off.
Finish ==
  LET i == Top(stack)
  IN  /\ stack # <<>>
      /\ stack' = Pop(stack)
      /\ inExec' = [inExec EXCEPT ![i] = @ - 1]
      /\ IF toDelete[i] /\ inExec[i] = 1
         THEN /\ toDelete' = [toDelete EXCEPT ![i] = FALSE]
              /\ FreeSlot(i)
         ELSE UNCHANGED <<toDelete, free, freeList>>
      /\ UNCHANGED <<len, key, refs, held, wanted, alarm>>

\* CForwardMngr::clear, when the plugins are unloaded and with them every holder.
Clear ==
  /\ stack = <<>> /\ len > 0
  /\ len' = 0 /\ freeList' = <<>>
  /\ key' = [i \in Slot |-> None]
  /\ free' = [i \in Slot |-> FALSE]
  /\ toDelete' = [i \in Slot |-> FALSE]
  /\ inExec' = [i \in Slot |-> 0]
  /\ refs' = [i \in Slot |-> 0]
  /\ held' = [h \in Holders |-> 0] /\ wanted' = [h \in Holders |-> None]
  /\ UNCHANGED <<stack, alarm>>

-----------------------------------------------------------------------------
Register(h, k) == Share(h, k) \/ Recycle(h, k) \/ Extend(h, k)

Next ==
  \/ \E h \in Holders : Release(h) \/ Execute(h) \/ \E k \in Keys : Register(h, k)
  \/ \E g, h \in Holders : Duplicate(g, h)
  \/ \E k \in Keys : RecycleFails(k)
  \/ Finish \/ Clear

Spec == Init /\ [][Next]_vars

-----------------------------------------------------------------------------
(* Properties *)

TypeOK ==
  /\ len \in 0 .. MaxSlots
  /\ key \in [Slot -> Keys \cup {None}]
  /\ free \in [Slot -> BOOLEAN]
  /\ toDelete \in [Slot -> BOOLEAN]
  /\ inExec \in [Slot -> Nat]
  /\ refs \in [Slot -> Nat]
  /\ freeList \in Seq(Slot)
  /\ stack \in Seq(Slot)
  /\ held \in [Holders -> Slot \cup {0}]
  /\ wanted \in [Holders -> Keys \cup {None}]
  /\ alarm \in BOOLEAN

\* A live holder's handle stands for the function it registered, however often
\* others registered and released the same function and whatever was executing
\* at the time ("live holders then execute the wrong callback",
\* CForward.cpp:835).
HandlesDenote ==
  \A h \in Holders : held[h] # 0 =>
    held[h] \in Used /\ ~free[held[h]] /\ ~toDelete[held[h]]
    /\ key[held[h]] = wanted[h]

\* m_RefCount is the number of holders.
RefsCountHolders ==
  \A i \in Slot : refs[i] = Cardinality({h \in Holders : held[h] = i})

\* The stack of free ids holds each free slot once and no other: the id of a
\* slot in use is never handed out, and none leaks.
FreeListExact ==
  /\ \A n \in 1 .. Len(freeList) : freeList[n] \in Used /\ free[freeList[n]]
  /\ \A m, n \in 1 .. Len(freeList) : freeList[m] = freeList[n] => m = n
  /\ \A i \in Used : free[i] => \E n \in 1 .. Len(freeList) : freeList[n] = i

\* The bookkeeping of CForward.cpp:683-708 and 823-858 is exact after any
\* sequence of registrations and releases: a slot goes back to the stack with
\* its last holder and not before, and once.
SlotsExact == RefsCountHolders /\ FreeListExact

\* A slot that is being executed, by however many nested calls, is not free,
\* and m_InExec counts those calls.
ExecutingIsLive ==
  /\ \A n \in 1 .. Len(stack) : stack[n] \in Used /\ ~free[stack[n]]
  /\ \A i \in Slot : inExec[i] = Cardinality({n \in 1 .. Len(stack) : stack[n] = i})

\* A release that was put off is carried out as soon as the function is no
\* longer executing, and a live slot without a holder is one waiting for that.
DeferredReleaseEnds ==
  \A i \in Used : ~free[i] => /\ toDelete[i] => inExec[i] > 0
                              /\ refs[i] = 0 <=> toDelete[i]

\* The refcount-0 tripwire stays silent while every holder releases only what
\* it holds: "cries wolf on every self-removing task callback"
\* (CForward.cpp:743).
NoFalseAlarm == ~alarm

\* Putting a release off is sound: what executes stays, what was put off is done
\* when the last call returns, and done without a warning.
DeferralIsSound == ExecutingIsLive /\ DeferredReleaseEnds /\ NoFalseAlarm

\* The table is exact at all times: counts, free ids and releases put off
\* (registerSPForward, unregisterSPForward and executeForwards together).
RegistryExact == SlotsExact /\ DeferralIsSound

\* The registry implements a table of handles that never change meaning.
Table == INSTANCE HandleTable WITH
  bound <- [h \in Holders |-> IF held[h] = 0 THEN None ELSE key[held[h]]],
  running <- [n \in 1 .. Len(stack) |-> key[stack[n]]]
ImplementsTable == Table!TableSpec

=============================================================================
