SPECIFICATION FairSpec
CONSTANTS
  Brokers = {0, 1, 2}
  Ports = {1, 2, 3, 4, 5, 6, 7}
  MaxPort = 7
  MetricsPort = 4
  Default <- Spec0
  MaxEdits = 1
INVARIANT LeavingIsReachable
