SPECIFICATION RetryFairSpec
CONSTANTS
  s1 = s1
  s2 = s2
  r1 = r1
  q1 = q1
  q2 = q2
  Subs = {s1, s2}
  Workers = {w1}
  Reapers = {r1}
  Retriers = {q1, q2}
  Settings <- AllSettings
  NoSub = NoSub
  NoWorker = NoWorker
  Env = {"cancel", "dbError"}
  MaxPauses = 0
  MaxSlow = 0
  MaxFaults = 1
INVARIANT RealignedClose
PROPERTY RetriedCloses
CHECK_DEADLOCK FALSE
