SPECIFICATION FairSpec
CONSTANTS
  Brokers = {1, 2, 3}
  Paths = {1, 2}
  OpIds = {1, 2, 3, 4}
  Ingresses = {"a", "b"}
  Scenes <- Scenes1
INVARIANTS TypeOK RestartsBounded InSyncIsTrue AdvertisedIsServed
PROPERTIES DrainedBeforeDeletion UserEditsKept Converges
