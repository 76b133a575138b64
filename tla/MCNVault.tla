------------------------------ MODULE MCNVault ------------------------------
(* NVault on small instances; the keys are interchangeable.                *)
EXTENDS NVault, TLC

Symmetry == Permutations(Keys)
OutOfFrame == {Wipe}
=============================================================================
