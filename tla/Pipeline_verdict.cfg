SPECIFICATION Spec
CONSTANTS
  Subs = {s1, s2}
  Workers = {w1, w2}
  Reapers = {r1}
  NoSub = NoSub
  NoWorker = NoWorker
  Env = {}
  MaxPauses = 0
  MaxSlow = 0
  MaxFaults = 0
SYMMETRY Symm
INVARIANT VerdictMatches
CHECK_DEADLOCK FALSE
