---- MODULE MCPipeline ----
EXTENDS SubTaskPipeline, TLC
Symm == Permutations(Workers) \cup Permutations(Subs)
====
