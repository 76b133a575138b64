---------------------------- MODULE MCSqlWorker ----------------------------
(* SqlWorker on small instances.                                           *)
EXTENDS SqlWorker
=============================================================================
