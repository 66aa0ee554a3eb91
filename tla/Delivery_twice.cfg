SPECIFICATION Spec
CONSTANTS
  Entries = {e1, e2}
  CopySets = {{e1}, {e1, e2}}
  Handlers = {h1, h2}
  NoEntry = NoEntry
  NumChannels = 1
  Modes = {"single"}
  MaxDelivery = 2
  MaxAttempts = 2
  Env = {"crash"}
  DuplicateCost = 1
  MaxSlow = 0
  MaxFaults = 2
CHECK_DEADLOCK FALSE
INVARIANT SentOnce
