SPECIFICATION Spec
CONSTANTS
  Ops = {1, 2}
  TaskIds = {1, 2}
  KindOf <- KindsDisks
  PolicyOf <- PoliciesMixed
  TTLOps = {1}
  HistoryMax = 1
  Outcomes = {"accepted", "rejected", "unreachable", "invalid", "nodisks"}
  MaxEdits = 1
  MaxCrashes = 0
INVARIANT TypeOK SerialInv SerialExecution StopOnlyOnDeletion RecordedEndIsReal
PROPERTY FinalizerProtects CompletedIsFinal ImplementsLifecycle
CHECK_DEADLOCK FALSE
