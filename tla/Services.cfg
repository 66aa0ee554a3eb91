SPECIFICATION MCSpec
SYMMETRY Symm
CONSTANTS
  c1 = c1  c2 = c2  v1 = v1  v2 = v2
  TplCallers = {c1, c2}  TplContents = {v1, v2}  TplNone = none
  MaxTplVersion = 5  MaxTplRevision = 2
  SegCallers = {c1, c2}  SegUsers = {v1, v2}  SegPageSize = 1
  SegMaxPages <- MCPages  SegMaxUsers <- MCUsers  MaxSegCalls = 3
  SupCallers = {c1, c2}  SupEntries = {v1, v2}  SupBatch = 1  MaxSupFaults = 2
  PrefCallers = {c1, c2}  PrefFields = {v1, v2}  PrefReaders = {r1}  PrefNone = none
  PrefTTL = 1  MaxPrefClock = 2  MaxPrefCalls = 3  MaxPrefFaults = 1
  AdmCallers = {c1, c2}  AdmDigests = {v1, v2}  AdmNone = none  AdmHint = 2
  AdmAvailable = {1, 2}  MaxAdmCalls = 4
  AccCallers = {c1, c2}  AccUsers = {u1, u2}  AccRoot = u1  AccRoles = {admin, ops}
  AccAdmin = admin  AccKeep = keep  MaxAccFaults = 1
  SesCallers = {c1, c2}  SesTTL = 2  MaxSesClock = 4  MaxSesChanges = 3  MaxSesLogins = 2
  LimProcs = {c1, c2}  LimPrios = {"high"}  LimToken = 2  LimRates <- MCRates
  LimBursts <- MCBursts  LimKeyTTL = 2  LimShrinkTTL = 1  MaxLimClock = 3  MaxLimFaults = 2
  FrqKeys = {"topic", "channel", "total"}  FrqLimit <- MCFrqLimit
  FrqWindow <- MCFrqWindow  MaxFrqClock = 5
  SedProcs = {c1, c2}  SedCatalog <- MCSedCatalog  SedPrevious = {"menu.overview"}
  SedDefs <- MCSedDefs  SedViewer = "viewer"  SedAccounts <- MCSedAccounts  SedNone = "none"
  MaxSedStops = 1  MaxSedEdits = 1  MaxSedFaults = 1
  ExpJobs = {c1, c2}  ExpSlots = 1  ExpRecords = {1, 2, 3}  ExpBatch = 2
  MaxExpFaults = 2  MaxExpStops = 1
  TrcHandlers = {c1, c2}  TrcBuffer = 2  MaxTrcEvents = 5  MaxTrcFaults = 1
  NtfCallers = {c1, c2}  NtfClients = {s1}  NtfBuffer = 1  MaxNtfRows = 2
  MaxNtfReads = 1  MaxNtfFaults = 1
INVARIANTS
  SnapshotsMatch ContentWasReviewed MembersCounted ExcludeComplete SuppressionSynced
  PreferenceFresh ConsentExplains CreateIdempotent ManagerRemains SessionsRevoked BucketsHold
  WindowsHold UnreadShown SeedHolds ExportsHold AcceptedIsStored
PROPERTY PublishedIsSettled
CHECK_DEADLOCK FALSE
