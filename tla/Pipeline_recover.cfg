SPECIFICATION FairSpec
CONSTANTS
  Subs = {s1, s2}
  Workers = {w1, w2}
  Reapers = {r1}
  NoSub = NoSub
  NoWorker = NoWorker
  Env = {"crash"}
  MaxPauses = 1
  MaxSlow = 0
  MaxFaults = 1
PROPERTIES ShardsFinish ClosesOrUncounted
CHECK_DEADLOCK FALSE
