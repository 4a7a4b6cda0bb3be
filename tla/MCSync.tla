------------------------------- MODULE MCSync -------------------------------
EXTENDS SyncSupervisor, TLC
Symmetry == Permutations(Accounts)
=============================================================================
