SPECIFICATION ComponentsSpec
CONSTANTS
  \* Sandbox
  c1 = c1
  c2 = c2
  db = db
  m1 = m1
  m2 = m2
  pg = pg
  co = co
  pe = pe
  op = op
  Name = {c1, c2, db, m1, m2, pg, co, pe, op}
  Unnamed = Unnamed
  AlertChannel = c2
  Fixtures <- MCFixtures
  ContactField = {"city", "job_title"}
  BlockCount = 2
  MaxResets = 2
  MaxCalls = 3
  \* LiveCrm
  CrmFixtures <- MCCrmFixtures
  BatchSize = 1
  PageSize = 1
  CrmRuns = 3
  CrmCalls = 2
  CrmLate = 1
  \* LiveChannels
  Skews <- MCSkews
  Minute = 3
  ChannelRuns = 2
  ChannelWrites = 3
  \* Evaluation
  Tasks = {1, 2}
  Repeats = 2
  Variants = {1}
  MaxCrashes = 2
  MaxStarts = 4
  \* GatewayLimits
  Caller = {a, b}
  ReplicaSkews <- MCReplicaSkews
  Capacity <- MCCapacity
  Refill <- MCRefill
  Estimates = {1, 3}
  MaxWait = 2
  TtlSlack = 1
  MaxTime = 6
  MaxAcquires = 2
  \* ApiLimits
  Client = {x, y}
  Thread = {t1, t2}
  Limit = 2
  RateWindow = 3
  MaxTrackedClients = 1
  Lag = 1
  MaxClock = 4
  MaxRequests = 6
  \* Verdicts
  Phrase = {p}
  Amount = {1000}
  SummaryChannel = summary
  OtherChannel = other
  Contact = {k1, k2}
  Day = {d}
  Null = null
  MaxWrites = 3
  \* Routing
  ModelList <- MCModelList
  CallCost = {1, 3}
  Bar = 60
  MaxMeasurements = 3
  \* Roi
  Minutes = {0, 1, 3}
  Rate = {1, 2}
  MachineCost = {0, 2}
  Multipliers = {1, 2}
  MaxRoiRuns = 3
INVARIANTS
  ComponentsTypeOK
  ResetCanonical
  BlocksInOrder
  NothingLeaks
  ResetLeavesFixtures
  SnapshotIsRun
  ResultsComplete
  BucketKeepsRate
  ClientsWithinLimit
  
  PlanFollowsMeasurements
  BreakEvenMeansZero
PROPERTIES
  FieldsStay
CHECK_DEADLOCK FALSE
