------------------------------- MODULE MCCLog -------------------------------
(* CLog on small instances.  Settings holds the amxx_logging values that the   *)
(* code tells apart; 7 stands for those that SetLogType refuses.               *)
EXTENDS CLog
=============================================================================
