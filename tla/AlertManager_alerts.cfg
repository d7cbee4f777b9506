SPECIFICATION FairSpec
CONSTANTS
  Reqs = {r1, r2}
  Scenes <- Scenes1
INVARIANT TypeOK LimitsHold IdsDistinct ActedOnce
PROPERTY AlertIsHandled
