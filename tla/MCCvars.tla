------------------------------ MODULE MCCvars ------------------------------
(* Cvars on a small instance.                                               *)
EXTENDS Cvars, TLC

\* 1 stands for a bound that the engine prints as 2.
SomePrinted == 1 :> 2 @@ 2 :> 2 @@ 4 :> 4
=============================================================================
