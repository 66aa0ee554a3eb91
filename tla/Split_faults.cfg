SPECIFICATION FairSpec
CONSTANTS
  Procs = {p1, p2, p3}
  Slots = {k1}
  NoProc = NoProc
  NumPages = 3
  Env = {"cancel", "crash", "audience"}
  MaxPauses = 0
  MaxStalls = 0
  MaxFaults = 2
INVARIANTS GateHolds PagesSentOnce ClosedReachedAll
PROPERTIES OpenedNotFailed SplitEnds
CHECK_DEADLOCK FALSE
