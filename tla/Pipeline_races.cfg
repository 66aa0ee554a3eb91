SPECIFICATION Spec
CONSTANTS
  Subs = {s1, s2}
  Workers = {w1, w2}
  Reapers = {r1}
  NoSub = NoSub
  NoWorker = NoWorker
  Env = {"cancel", "expiry", "crash"}
  MaxPauses = 1
  MaxSlow = 1
  MaxFaults = 1
SYMMETRY Symm
INVARIANTS ClosedWhenAllFinished NotifiedOnce
PROPERTY ImplementsLifecycle
CHECK_DEADLOCK FALSE
