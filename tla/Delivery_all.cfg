SPECIFICATION FairSpec
CONSTANTS
  Entries = {e1, e2}
  CopySets = {{e1}, {e1, e2}}
  Handlers = {h1, h2}
  NoEntry = NoEntry
  NumChannels = 2
  Modes = {"single", "fallback", "parallel", "all_success"}
  MaxDelivery = 2
  MaxAttempts = 2
  Env = {"defer", "suppress", "throttle", "reject", "timeout", "receipts", "pause", "cancel", "expiry", "crash", "dbError", "redisError", "redisLoss", "trim"}
  DuplicateCost = 2
  MaxSlow = 0
  MaxFaults = 2
INVARIANTS DeliveredWasAccepted SentOnce AckedIsResolved
PROPERTIES DeliveredStays ImplementsPromise EntrySettles
CHECK_DEADLOCK FALSE
