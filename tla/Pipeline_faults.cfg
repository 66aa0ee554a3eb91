SPECIFICATION Spec
CONSTANTS
  Subs = {s1, s2}
  Workers = {w1, w2}
  Reapers = {r1}
  NoSub = NoSub
  NoWorker = NoWorker
  Env = {"crash", "dbError", "redisError", "redisLoss", "receipts"}
  MaxPauses = 0
  MaxSlow = 0
  MaxFaults = 1
SYMMETRY Symm
INVARIANTS TypeOK CountInv SuccessWasEnqueued
CHECK_DEADLOCK FALSE
