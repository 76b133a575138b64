----------------------------- MODULE MCTaskMngr -----------------------------
(* TaskMngr on small instances: d1 registers timed tasks and d2 tasks for the  *)
(* end of the map, or both timed ones.                                         *)
EXTENDS TaskMngr
CONSTANTS d1, d2

TimedAndEnd == [d \in Ids |-> IF d = d1 THEN {"timed"} ELSE {"end"}]
AllTimed == [d \in Ids |-> {"timed"}]
=============================================================================
