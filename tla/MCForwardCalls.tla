--------------------------- MODULE MCForwardCalls ---------------------------
(* ForwardCalls on a small instance.                                           *)
EXTENDS ForwardCalls, TLC

Symmetry == Permutations(Holders) \cup Permutations(Keys \ Missing) \cup Permutations(Arrays)

TwoPlugins == [f \in Forwards |-> 2]
=============================================================================
