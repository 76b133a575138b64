---------------------------- MODULE MCExtPlayers ----------------------------
EXTENDS ExtPlayers, TLC
Symmetry == Permutations(Slots)
=============================================================================
