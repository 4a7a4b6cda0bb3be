---------------------------- MODULE MCStandalone ----------------------------
EXTENDS Standalone, TLC
Symmetry == Permutations(Texts) \cup Permutations(Saves)
=============================================================================
