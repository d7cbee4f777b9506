SPECIFICATION FairSpec
CONSTANTS
  Ops = {1}
  TaskIds = {1, 2, 3}
  KindOf <- KindsDisks
  PolicyOf <- PoliciesRetry
  TTLOps = {1}
  HistoryMax = 1
  Outcomes = {"accepted", "rejected", "refused"}
  MaxEdits = 1
  MaxCrashes = 0
INVARIANT HistoryIsExact
PROPERTY FailedIsRetried DeletionCompletes
CHECK_DEADLOCK FALSE
