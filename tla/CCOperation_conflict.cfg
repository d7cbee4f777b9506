SPECIFICATION Spec
CONSTANTS
  Ops = {1}
  TaskIds = {1, 2}
  KindOf <- KindsUrgent
  PolicyOf <- PoliciesRetry
  TTLOps = {}
  HistoryMax = 1
  Outcomes = {"accepted"}
  MaxEdits = 1
  MaxCrashes = 0
INVARIANT NoReExecution
CHECK_DEADLOCK FALSE
