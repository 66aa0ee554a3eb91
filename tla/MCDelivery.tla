---- MODULE MCDelivery ----
EXTENDS Delivery, TLC
Symm == Permutations(Entries) \cup Permutations(Handlers)
====
