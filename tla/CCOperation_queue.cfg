SPECIFICATION FairSpec
CONSTANTS
  Ops = {1, 2}
  TaskIds = {1, 2}
  KindOf <- KindsUrgent
  PolicyOf <- PoliciesMixed
  TTLOps = {}
  HistoryMax = 1
  Outcomes = {"accepted", "rejected", "lostreply"}
  MaxEdits = 0
  MaxCrashes = 1
INVARIANT RecordedEndIsReal
PROPERTY WaitingIsExecuted
CHECK_DEADLOCK FALSE
