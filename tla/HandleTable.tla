---------------------------- MODULE HandleTable -----------------------------
(***************************************************************************)
(* What the single-plugin forwards of amxmodx/CForward.cpp promise to the  *)
(* code that holds a handle (tasks, menus, timers, modules): from the      *)
(* registration to the release, executing the handle calls the function it *)
(* was registered for, and calls nest.                                     *)
(***************************************************************************)
EXTENDS Naturals, Sequences

CONSTANTS Holders, Keys, None

VARIABLES bound,     \* holder -> the function its handle stands for, or None
          running    \* the functions being called, innermost last

tableVars == <<bound, running>>

TableInit == /\ bound = [h \in Holders |-> None]
             /\ running = <<>>

Acquire(h, k) == /\ bound[h] = None
                 /\ bound' = [bound EXCEPT ![h] = k]
                 /\ UNCHANGED running

Drop(h) == /\ bound[h] # None
           /\ bound' = [bound EXCEPT ![h] = None]
           /\ UNCHANGED running

Call(h) == /\ bound[h] # None
           /\ running' = Append(running, bound[h])
           /\ UNCHANGED bound

Return == /\ running # <<>>
          /\ running' = SubSeq(running, 1, Len(running) - 1)
          /\ UNCHANGED bound

\* Everything is thrown away between two maps, when no function runs.
Reset == /\ running = <<>>
         /\ bound' = [h \in Holders |-> None]
         /\ UNCHANGED running

TableNext == \/ \E h \in Holders : Drop(h) \/ Call(h) \/ \E k \in Keys : Acquire(h, k)
             \/ Return \/ Reset

TableSpec == TableInit /\ [][TableNext]_tableVars

=============================================================================
