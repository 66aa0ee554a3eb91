SPECIFICATION Spec
CONSTANTS
  Procs = {p1,p2}
  Slots = {k1}
  NoProc = NoProc
  NumPages = 2
  Env = {"pause", "cancel", "overCapacity", "crash", "dbError"}
  MaxPauses = 1
  MaxStalls = 1
  MaxFaults = 1
SYMMETRY Symm
INVARIANTS NoOrphanShards
PROPERTY StatusHolds
CHECK_DEADLOCK FALSE
