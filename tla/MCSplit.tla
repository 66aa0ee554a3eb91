---- MODULE MCSplit ----
EXTENDS SplitLease, TLC
Symm == Permutations(Procs) \cup Permutations(Slots)
====
