SPECIFICATION Spec
CONSTANTS
  Procs = {p1,p2}
  Slots = {k1}
  NoProc = NoProc
  NumPages = 2
  Env = {"pause"}
  MaxPauses = 1
  MaxStalls = 0
  MaxFaults = 0
SYMMETRY Symm
INVARIANT GateHolds
CHECK_DEADLOCK FALSE
