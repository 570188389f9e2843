SPECIFICATION AnswersSpec
CONSTANTS
  o1 = o1
  o2 = o2
  MaxProof = 2
  Offer = {o1, o2}
  Family <- Families
  Local = {}
  Permit2 = {o1}
  Outages <- Upstream
  ReadyTtl = 2
  HealthTtl = 5
  ProbeMax = 1
  Horizon = 8
  Key = {k1}
  Query <- Queries
  NewHolds = {"open"}
  MaxRows = 2
  Limit = 1
  MaxTime = 1
INVARIANTS OutageShowsInOneWindow
CHECK_DEADLOCK FALSE
