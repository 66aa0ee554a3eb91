SPECIFICATION FairSpec
CONSTANTS
  Subs = {s1, s2}
  Workers = {w1, w2}
  Reapers = {r1}
  NoSub = NoSub
  NoWorker = NoWorker
  Env = {"dbError"}
  MaxPauses = 0
  MaxSlow = 0
  MaxFaults = 1

PROPERTY CampaignCloses
CHECK_DEADLOCK FALSE
