----------------------------- MODULE MCLogQueue -----------------------------
(* LogQueue on small instances.                                                *)
EXTENDS LogQueue
=============================================================================
